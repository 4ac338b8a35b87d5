----------------------------- MODULE DeliveryProofs -----------------------------
(* Delivery for any commands' texts, runes, widths and limit: what parts a   *)
(* text is cut into, and what is acknowledged, shown to whom, in which order *)
(* and quoted.  What a part is of its text is in folds (Bytes, FlattenSeq),  *)
(* which are taken by induction over the runes and parts: an induction is    *)
(* about a set P of the values for which a claim holds.                      *)
EXTENDS Delivery, FiniteSetTheorems, WellFoundedInduction, TLAPS

-----------------------------------------------------------------------------
(* Sums *)

(* A set P has all subsets of a finite set U if it has each one whose       *)
(* proper subsets it has.                                                  *)
LEMMA SubsetInduction ==
    ASSUME NEW U, IsFiniteSet(U), NEW P,
           \A s \in SUBSET U : (\A t \in SUBSET s : t # s => t \in P) => s \in P
    PROVE  \A s \in SUBSET U : s \in P
<1> DEFINE left == {s \in SUBSET U : s \notin P}
<1> SUFFICES ASSUME left # {} PROVE FALSE
  OBVIOUS
<1>1. IsWellFoundedOn(StrictSubsetOrdering(U), FiniteSubsetsOf(U))
  BY FS_StrictSubsetOrderingWellFounded
<1>2. left \subseteq FiniteSubsetsOf(U)
  BY FS_FiniteSubsetsOfFinite
<1> HIDE DEF left
<1>3. PICK s \in left : \A t \in left : ~ (<<t, s>> \in StrictSubsetOrdering(U))
  BY <1>1, <1>2, WFMin
<1> USE DEF left
<1>4. \A t \in SUBSET s : t # s => t \in P
  BY <1>3 DEF StrictSubsetOrdering
<1> QED
  BY <1>3, <1>4

(* sum[s] adds f up over s, whichever element is taken first. *)
Adds(sum, f, S) ==
    /\ sum \in [SUBSET S -> Int] /\ sum[{}] = 0
    /\ \A s \in SUBSET S : \A x \in s : sum[s] = f[x] + sum[s \ {x}]

LEMMA AdderExists ==
    ASSUME NEW f, NEW S, IsFiniteSet(S), \A x \in S : f[x] \in Int
    PROVE  \E sum : Adds(sum, f, S)
<1> DEFINE P == {s \in SUBSET S : \E sum : Adds(sum, f, s)}
<1>1. ASSUME NEW s \in SUBSET S, \A t \in SUBSET s : t # s => t \in P
      PROVE  s \in P
  <2>1. CASE s = {}
    <3> DEFINE zero == [t \in SUBSET s |-> 0]
    <3>1. Adds(zero, f, s)
      BY <2>1 DEF Adds
    <3> QED
      BY <3>1
  <2>2. CASE s # {}
    <3>1. PICK y \in s : TRUE
      BY <2>2
    <3>2. s \ {y} \in P /\ f[y] \in Int
      BY <1>1, <3>1
    <3>3. PICK sum : Adds(sum, f, s \ {y})
      BY <3>2
    <3> DEFINE next == [t \in SUBSET s |-> IF y \in t THEN f[y] + sum[t \ {y}] ELSE sum[t]]
    <3>4. \A t \in SUBSET s : t \ {y} \in SUBSET (s \ {y}) /\ sum[t \ {y}] \in Int
      BY <3>3 DEF Adds
    <3>5. next \in [SUBSET s -> Int] /\ next[{}] = 0
      BY <3>2, <3>3, <3>4 DEF Adds
    <3>6. ASSUME NEW t \in SUBSET s, NEW x \in t
          PROVE  next[t] = f[x] + next[t \ {x}]
      <4>1. f[x] \in Int
        OBVIOUS
      <4>2. CASE x = y
        BY <4>2
      <4>3. CASE x # y /\ y \in t
        <5> DEFINE u == t \ {y}
        <5>1. sum[u] = f[x] + sum[u \ {x}] /\ sum[u \ {x}] \in Int
          BY <3>3, <3>6, <4>3 DEF Adds
        <5>2. (t \ {x}) \ {y} = u \ {x}
          OBVIOUS
        <5>3. next[t \ {x}] = f[y] + sum[u \ {x}]
          BY <4>3, <5>2
        <5>4. next[t] = f[y] + sum[u]
          BY <4>3
        <5> HIDE DEF next, u
        <5> QED
          BY <3>2, <4>1, <5>1, <5>3, <5>4
      <4>4. CASE y \notin t
        BY <3>3, <4>4 DEF Adds
      <4> QED
        BY <4>2, <4>3, <4>4
    <3> HIDE DEF next
    <3>7. Adds(next, f, s)
      BY <3>5, <3>6 DEF Adds
    <3> QED
      BY <3>7
  <2> QED
    BY <2>1, <2>2
<1> HIDE DEF P
<1>2. \A s \in SUBSET S : s \in P
  BY <1>1, SubsetInduction
<1> QED
  BY <1>2 DEF P

(* The recursion of a fold that takes the element pick[s] of s first. *)
Folds(fold, f, pick, S) ==
    fold = [s \in SUBSET S |-> IF s = {} THEN 0 ELSE f[pick[s]] + fold[s \ {pick[s]}]]

LEMMA FoldAdds ==
    ASSUME NEW f, NEW S, IsFiniteSet(S), NEW sum, Adds(sum, f, S),
           NEW pick, \A s \in SUBSET S : s # {} => pick[s] \in s,
           NEW fold, Folds(fold, f, pick, S)
    PROVE  fold[S] = sum[S]
<1> DEFINE P == {s \in SUBSET S : fold[s] = sum[s]}
<1>1. ASSUME NEW s \in SUBSET S, \A t \in SUBSET s : t # s => t \in P
      PROVE  s \in P
  <2>1. CASE s = {}
    BY <2>1 DEF Folds, Adds
  <2>2. CASE s # {}
    <3> DEFINE t == s \ {pick[s]}
    <3>1. t \in SUBSET s /\ t # s /\ pick[s] \in s
      BY <2>2
    <3>2. fold[t] = sum[t]
      BY <1>1, <3>1
    <3>3. fold[s] = f[pick[s]] + fold[t]
      BY <2>2 DEF Folds
    <3>4. sum[s] = f[pick[s]] + sum[t]
      BY <3>1 DEF Adds
    <3> QED
      BY <3>2, <3>3, <3>4
  <2> QED
    BY <2>1, <2>2
<1> HIDE DEF P
<1>2. \A s \in SUBSET S : s \in P
  BY <1>1, SubsetInduction
<1> QED
  BY <1>2 DEF P

(* SumFunction is what any such sum comes to. *)
LEMMA SumIs ==
    ASSUME NEW f, NEW S, S = DOMAIN f, IsFiniteSet(S), NEW sum, Adds(sum, f, S)
    PROVE  SumFunction(f) = sum[S]
<1> DEFINE pick == [s \in SUBSET S |-> CHOOSE x \in s : TRUE]
           fold == CHOOSE k : k = [s \in SUBSET S |->
                      IF s = {} THEN 0 ELSE LET x == CHOOSE x \in s : TRUE IN f[x] + k[s \ {x}]]
<1>1. SumFunction(f) = fold[S]
  BY DEF SumFunction, SumFunctionOnSet, FoldFunctionOnSet, MapThenFoldSet
<1>2. \A s \in SUBSET S : s # {} => pick[s] \in s
  OBVIOUS
<1> HIDE DEF pick
<1>3. Folds(sum, f, pick, S)
  <2>1. \A s \in SUBSET S : sum[s] = IF s = {} THEN 0 ELSE f[pick[s]] + sum[s \ {pick[s]}]
    BY <1>2 DEF Adds
  <2> QED
    BY <2>1 DEF Adds, Folds
<1>4. \A k : Folds(k, f, pick, S) <=> k = [s \in SUBSET S |->
                      IF s = {} THEN 0 ELSE LET x == CHOOSE x \in s : TRUE IN f[x] + k[s \ {x}]]
  BY DEF Folds, pick
<1>5. Folds(fold, f, pick, S)
  <2>1. sum = [s \in SUBSET S |->
                      IF s = {} THEN 0 ELSE LET x == CHOOSE x \in s : TRUE IN f[x] + sum[s \ {x}]]
    BY <1>3, <1>4
  <2>2. fold = [s \in SUBSET S |->
                      IF s = {} THEN 0 ELSE LET x == CHOOSE x \in s : TRUE IN f[x] + fold[s \ {x}]]
    BY <2>1
  <2> QED
    BY <1>4, <2>2
<1> HIDE DEF fold
<1> QED
  BY <1>1, <1>2, <1>5, FoldAdds

(* The sum over a part of the domain, by a sum over all of it. *)
LEMMA SumOfPart ==
    ASSUME NEW f, NEW S, IsFiniteSet(S), NEW sum, Adds(sum, f, S),
           NEW part, DOMAIN part \subseteq S, \A x \in DOMAIN part : part[x] = f[x]
    PROVE  SumFunction(part) = sum[DOMAIN part]
<1> DEFINE T == DOMAIN part
           partial == [s \in SUBSET T |-> sum[s]]
<1>1. Adds(partial, part, T)
  BY DEF Adds
<1>2. IsFiniteSet(T)
  BY FS_Subset
<1> HIDE DEF partial
<1>3. SumFunction(part) = partial[T]
  BY <1>1, <1>2, SumIs
<1> QED
  BY <1>3 DEF partial

LEMMA SumType ==
    ASSUME NEW f, IsFiniteSet(DOMAIN f), \A x \in DOMAIN f : f[x] \in Int
    PROVE  SumFunction(f) \in Int
<1>1. PICK sum : Adds(sum, f, DOMAIN f)
  BY AdderExists
<1>2. SumFunction(f) = sum[DOMAIN f]
  BY <1>1, SumIs
<1> QED
  BY <1>1, <1>2 DEF Adds

LEMMA SumOfNone ==
    ASSUME NEW f, DOMAIN f = {}
    PROVE  SumFunction(f) = 0
<1>1. PICK sum : Adds(sum, f, DOMAIN f)
  BY AdderExists, FS_EmptySet
<1> QED
  BY <1>1, SumIs, FS_EmptySet DEF Adds

(* One more term. *)
LEMMA SumWith ==
    ASSUME NEW f, IsFiniteSet(DOMAIN f), \A x \in DOMAIN f : f[x] \in Int,
           NEW y \in DOMAIN f,
           NEW part, DOMAIN part = DOMAIN f \ {y}, \A x \in DOMAIN part : part[x] = f[x]
    PROVE  SumFunction(f) = f[y] + SumFunction(part)
<1>1. PICK sum : Adds(sum, f, DOMAIN f)
  BY AdderExists
<1>2. SumFunction(f) = sum[DOMAIN f]
  BY <1>1, SumIs
<1>3. SumFunction(part) = sum[DOMAIN part]
  BY <1>1, SumOfPart
<1> QED
  BY <1>1, <1>2, <1>3 DEF Adds

-----------------------------------------------------------------------------
(* Sequences, element by element. *)
Below == {p \in Nat \X Nat : p[1] < p[2]}

LEMMA NatInductionInSet ==
    ASSUME NEW P, 0 \in P, \A n \in Nat : n \in P => n + 1 \in P
    PROVE  \A n \in Nat : n \in P
<1> DEFINE left == Nat \ P
<1> SUFFICES ASSUME left # {} PROVE FALSE
  OBVIOUS
<1>1. IsWellFoundedOn(Below, Nat)
  BY NatLessThanWellFounded DEF OpToRel, Below
<1>2. PICK n \in left : \A m \in left : ~ (<<m, n>> \in Below)
  BY <1>1, WFMin
<1>3. n - 1 \in Nat /\ n = (n - 1) + 1 /\ n - 1 < n
  BY <1>2
<1>4. n - 1 \in left
  BY <1>3
<1>5. <<n - 1, n>> \in Below
  BY <1>3 DEF Below
<1> QED
  BY <1>2, <1>4, <1>5

LEMMA SeqInduction ==
    ASSUME NEW S, NEW P, <<>> \in P,
           \A s \in Seq(S), x \in S : s \in P => Append(s, x) \in P
    PROVE  \A s \in Seq(S) : s \in P
<1> DEFINE Q == {n \in Nat : \A s \in Seq(S) : Len(s) = n => s \in P}
<1>1. 0 \in Q
  <2>1. \A s \in Seq(S) : Len(s) = 0 => s = <<>>
    OBVIOUS
  <2> QED
    BY <2>1
<1>2. ASSUME NEW n \in Nat, n \in Q PROVE n + 1 \in Q
  <2> SUFFICES ASSUME NEW s \in Seq(S), Len(s) = n + 1 PROVE s \in P
    OBVIOUS
  <2> DEFINE front == SubSeq(s, 1, n)
             last == s[n + 1]
  <2>1. front \in Seq(S) /\ Len(front) = n /\ last \in S
    OBVIOUS
  <2>2. s = Append(front, last)
    OBVIOUS
  <2>3. front \in P
    BY <1>2, <2>1
  <2> HIDE DEF front, last
  <2> QED
    BY <2>1, <2>2, <2>3
<1> HIDE DEF Q
<1>3. \A n \in Nat : n \in Q
  BY <1>1, <1>2, NatInductionInSet
<1> QED
  BY <1>3 DEF Q

LEMMA SameElements ==
    ASSUME NEW S, NEW s \in Seq(S), NEW t \in Seq(S), Len(s) = Len(t),
           \A i \in 1 .. Len(s) : s[i] = t[i]
    PROVE  s = t
OBVIOUS

LEMMA Associative ==
    ASSUME NEW S, NEW s \in Seq(S), NEW t \in Seq(S), NEW u \in Seq(S)
    PROVE  (s \o t) \o u = s \o (t \o u)
OBVIOUS

LEMMA AppendLast ==
    ASSUME NEW S, NEW s \in Seq(S), NEW t \in Seq(S), NEW x \in S
    PROVE  s \o Append(t, x) = Append(s \o t, x)
OBVIOUS

-----------------------------------------------------------------------------
(* FlattenSeq *)

Flattens(f, seqs) ==
    f = [i \in 1 .. Len(seqs) |-> IF i = 1 THEN seqs[i] ELSE f[i - 1] \o seqs[i]]

LEMMA FlattenerExists ==
    ASSUME NEW S
    PROVE  \A seqs \in Seq(S) : \E f : Flattens(f, seqs)
<1> DEFINE P == {seqs \in Seq(S) : \E f : Flattens(f, seqs)}
<1>1. <<>> \in P
  <2>1. Flattens([i \in 1 .. 0 |-> <<>>], <<>>)
    BY DEF Flattens
  <2> QED
    BY <2>1
<1>2. ASSUME NEW seqs \in Seq(S), NEW x \in S, seqs \in P
      PROVE  Append(seqs, x) \in P
  <2>1. PICK f : Flattens(f, seqs)
    BY <1>2
  <2> DEFINE n == Len(seqs)
             more == Append(seqs, x)
             g == [i \in 1 .. n + 1 |-> IF i <= n THEN f[i] ELSE IF n = 0 THEN x ELSE f[n] \o x]
  <2>2. n \in Nat /\ more \in Seq(S) /\ Len(more) = n + 1 /\ more[n + 1] = x
        /\ \A i \in 1 .. n : more[i] = seqs[i]
    OBVIOUS
  <2>3. ASSUME NEW i \in 1 .. n + 1
        PROVE  g[i] = IF i = 1 THEN more[i] ELSE g[i - 1] \o more[i]
    <3>1. CASE i <= n
      <4>1. i \in 1 .. n /\ (i # 1 => i - 1 \in 1 .. n)
        BY <2>2, <3>1
      <4>2. f[i] = IF i = 1 THEN seqs[i] ELSE f[i - 1] \o seqs[i]
        BY <2>1, <4>1 DEF Flattens
      <4> HIDE DEF more, n
      <4> QED
        BY <2>2, <4>1, <4>2
    <3>2. CASE i = n + 1
      <4>1. ~(i <= n) /\ (i # 1 => i - 1 = n /\ n \in 1 .. n + 1 /\ n # 0 /\ n <= n) /\ (i = 1 => n = 0)
        BY <2>2, <3>2
      <4> HIDE DEF more, n
      <4> QED
        BY <2>2, <3>2, <4>1
    <3> QED
      BY <2>2, <3>1, <3>2
  <2> HIDE DEF more, n
  <2>4. g = [i \in 1 .. n + 1 |-> IF i = 1 THEN more[i] ELSE g[i - 1] \o more[i]]
    BY <2>3
  <2> HIDE DEF g
  <2>5. Flattens(g, more)
    BY <2>2, <2>4 DEF Flattens
  <2> QED
    BY <2>2, <2>5 DEF more
<1> HIDE DEF P
<1>3. \A seqs \in Seq(S) : seqs \in P
  BY <1>1, <1>2, SeqInduction
<1> QED
  BY <1>3 DEF P

LEMMA SameFlattener ==
    ASSUME NEW f, NEW g, NEW s, NEW t, Len(s) \in Nat, Len(t) \in Nat, Len(s) <= Len(t),
           \A i \in 1 .. Len(s) : t[i] = s[i], Flattens(f, s), Flattens(g, t)
    PROVE  \A i \in 1 .. Len(s) : f[i] = g[i]
<1> DEFINE P == {n \in Nat : n \in 1 .. Len(s) => f[n] = g[n]}
<1>1. 0 \in P
  OBVIOUS
<1>2. ASSUME NEW n \in Nat, n \in P PROVE n + 1 \in P
  <2> SUFFICES ASSUME n + 1 \in 1 .. Len(s) PROVE f[n + 1] = g[n + 1]
    OBVIOUS
  <2>1. n + 1 \in 1 .. Len(t) /\ t[n + 1] = s[n + 1] /\ (n + 1) - 1 = n
    OBVIOUS
  <2>2. f[n + 1] = IF n + 1 = 1 THEN s[n + 1] ELSE f[(n + 1) - 1] \o s[n + 1]
    BY DEF Flattens
  <2>3. g[n + 1] = IF n + 1 = 1 THEN t[n + 1] ELSE g[(n + 1) - 1] \o t[n + 1]
    BY <2>1 DEF Flattens
  <2>4. n + 1 # 1 => n \in 1 .. Len(s)
    OBVIOUS
  <2> QED
    BY <1>2, <2>1, <2>2, <2>3, <2>4
<1> HIDE DEF P
<1>3. \A n \in Nat : n \in P
  BY <1>1, <1>2, NatInductionInSet
<1> QED
  BY <1>3 DEF P

LEMMA FlattenIs ==
    ASSUME NEW S, NEW seqs \in Seq(S), seqs # <<>>
    PROVE  \E f : Flattens(f, seqs) /\ FlattenSeq(seqs) = f[Len(seqs)]
<1> DEFINE f == CHOOSE k : k = [i \in 1 .. Len(seqs) |-> IF i = 1 THEN seqs[i] ELSE k[i - 1] \o seqs[i]]
<1>1. \E k : k = [i \in 1 .. Len(seqs) |-> IF i = 1 THEN seqs[i] ELSE k[i - 1] \o seqs[i]]
  BY FlattenerExists DEF Flattens
<1>2. f = [i \in 1 .. Len(seqs) |-> IF i = 1 THEN seqs[i] ELSE f[i - 1] \o seqs[i]]
  BY <1>1
<1>3. Len(seqs) # 0
  OBVIOUS
<1>4. FlattenSeq(seqs) = f[Len(seqs)]
  BY <1>3 DEF FlattenSeq
<1> HIDE DEF f
<1> QED
  BY <1>2, <1>4 DEF Flattens

LEMMA FlattenNone == FlattenSeq(<<>>) = <<>>
BY DEF FlattenSeq

LEMMA FlattenAppend ==
    ASSUME NEW S, NEW seqs \in Seq(Seq(S)), NEW x \in Seq(S)
    PROVE  FlattenSeq(Append(seqs, x)) = FlattenSeq(seqs) \o x
<1> DEFINE n == Len(seqs)
           more == Append(seqs, x)
<1>1. n \in Nat /\ more \in Seq(Seq(S)) /\ Len(more) = n + 1 /\ more[n + 1] = x /\ more # <<>>
      /\ \A i \in 1 .. n : more[i] = seqs[i]
  OBVIOUS
<1>2. PICK g : Flattens(g, more) /\ FlattenSeq(more) = g[n + 1]
  <2> HIDE DEF more, n
  <2> QED
    BY <1>1, FlattenIs
<1>3. g[n + 1] = IF n + 1 = 1 THEN more[n + 1] ELSE g[(n + 1) - 1] \o more[n + 1]
  <2>1. g = [i \in 1 .. Len(more) |-> IF i = 1 THEN more[i] ELSE g[i - 1] \o more[i]]
    BY <1>2 DEF Flattens
  <2>2. n + 1 \in 1 .. Len(more)
    BY <1>1
  <2> HIDE DEF more, n
  <2> QED
    BY <2>1, <2>2
<1>4. CASE seqs = <<>>
  <2>1. n = 0 /\ FlattenSeq(seqs) = <<>>
    BY <1>4, FlattenNone
  <2>2. <<>> \o x = x
    OBVIOUS
  <2> HIDE DEF more, n
  <2>3. g[n + 1] = x
    BY <1>1, <1>3, <2>1
  <2> QED
    BY <1>2, <2>1, <2>2, <2>3 DEF more
<1>5. CASE seqs # <<>>
  <2>1. PICK f : Flattens(f, seqs) /\ FlattenSeq(seqs) = f[n]
    BY <1>5, FlattenIs
  <2>2. n # 0
    BY <1>5
  <2>3. \A i \in 1 .. n : f[i] = g[i]
    <3>1. /\ Len(seqs) \in Nat /\ Len(more) \in Nat /\ Len(seqs) <= Len(more)
          /\ \A i \in 1 .. Len(seqs) : more[i] = seqs[i]
          /\ Flattens(f, seqs) /\ Flattens(g, more)
      BY <1>1, <1>2, <2>1
    <3> HIDE DEF more
    <3> QED
      BY <3>1, SameFlattener
  <2>4. f[n] = g[n]
    <3>1. n \in 1 .. n
      BY <2>2
    <3> HIDE DEF n
    <3> QED
      BY <2>3, <3>1
  <2> HIDE DEF more, n
  <2>5. g[n + 1] = g[n] \o x
    BY <1>1, <1>3, <2>2
  <2> QED
    BY <1>2, <2>1, <2>4, <2>5 DEF more
<1> QED
  BY <1>4, <1>5

LEMMA FlattenType ==
    ASSUME NEW S
    PROVE  \A seqs \in Seq(Seq(S)) : FlattenSeq(seqs) \in Seq(S)
<1> DEFINE P == {seqs \in Seq(Seq(S)) : FlattenSeq(seqs) \in Seq(S)}
<1>1. <<>> \in P
  <2>1. <<>> \in Seq(S) /\ <<>> \in Seq(Seq(S))
    OBVIOUS
  <2> QED
    BY <2>1, FlattenNone
<1>2. ASSUME NEW seqs \in Seq(Seq(S)), NEW x \in Seq(S), seqs \in P
      PROVE  Append(seqs, x) \in P
  <2>1. FlattenSeq(Append(seqs, x)) = FlattenSeq(seqs) \o x
    BY FlattenAppend
  <2>2. Append(seqs, x) \in Seq(Seq(S)) /\ FlattenSeq(seqs) \o x \in Seq(S)
    BY <1>2
  <2> QED
    BY <2>1, <2>2
<1> HIDE DEF P
<1>3. \A seqs \in Seq(Seq(S)) : seqs \in P
  BY <1>1, <1>2, SeqInduction
<1> QED
  BY <1>3 DEF P

LEMMA FlattenConcat ==
    ASSUME NEW S, NEW s \in Seq(Seq(S))
    PROVE  \A t \in Seq(Seq(S)) : FlattenSeq(s \o t) = FlattenSeq(s) \o FlattenSeq(t)
<1> DEFINE P == {t \in Seq(Seq(S)) : FlattenSeq(s \o t) = FlattenSeq(s) \o FlattenSeq(t)}
<1>0. FlattenSeq(s) \in Seq(S)
  BY FlattenType
<1>1. <<>> \in P
  <2>1. s \o <<>> = s /\ <<>> \in Seq(Seq(S))
    OBVIOUS
  <2>2. FlattenSeq(s) \o <<>> = FlattenSeq(s)
    BY <1>0
  <2> QED
    BY <2>1, <2>2, FlattenNone
<1>2. ASSUME NEW t \in Seq(Seq(S)), NEW x \in Seq(S), t \in P
      PROVE  Append(t, x) \in P
  <2>1. s \o t \in Seq(Seq(S)) /\ Append(t, x) \in Seq(Seq(S))
    OBVIOUS
  <2>2. FlattenSeq(t) \in Seq(S)
    BY FlattenType
  <2>3. FlattenSeq(s \o Append(t, x)) = FlattenSeq(s \o t) \o x
    <3>1. s \o Append(t, x) = Append(s \o t, x)
      BY AppendLast
    <3>2. FlattenSeq(Append(s \o t, x)) = FlattenSeq(s \o t) \o x
      BY <2>1, FlattenAppend
    <3> QED
      BY <3>1, <3>2
  <2>4. FlattenSeq(Append(t, x)) = FlattenSeq(t) \o x
    BY FlattenAppend
  <2>5. (FlattenSeq(s) \o FlattenSeq(t)) \o x = FlattenSeq(s) \o (FlattenSeq(t) \o x)
    BY <1>0, <2>2, Associative
  <2> QED
    BY <1>2, <2>1, <2>3, <2>4, <2>5
<1> HIDE DEF P
<1>3. \A t \in Seq(Seq(S)) : t \in P
  BY <1>1, <1>2, SeqInduction
<1> QED
  BY <1>3 DEF P

LEMMA FlattenSilence ==
    ASSUME NEW S
    PROVE  \A s \in Seq(Seq(S)) : (\A i \in 1 .. Len(s) : s[i] = <<>>) => FlattenSeq(s) = <<>>
<1> DEFINE P == {s \in Seq(Seq(S)) : (\A i \in 1 .. Len(s) : s[i] = <<>>) => FlattenSeq(s) = <<>>}
<1>1. <<>> \in P
  BY FlattenNone
<1>2. ASSUME NEW s \in Seq(Seq(S)), NEW x \in Seq(S), s \in P
      PROVE  Append(s, x) \in P
  <2>1. /\ Append(s, x) \in Seq(Seq(S)) /\ Len(Append(s, x)) = Len(s) + 1 /\ Len(s) \in Nat
        /\ Append(s, x)[Len(s) + 1] = x
        /\ \A i \in 1 .. Len(s) : Append(s, x)[i] = s[i]
    OBVIOUS
  <2>2. FlattenSeq(Append(s, x)) = FlattenSeq(s) \o x
    BY FlattenAppend
  <2>3. ASSUME \A i \in 1 .. Len(Append(s, x)) : Append(s, x)[i] = <<>>
        PROVE  FlattenSeq(Append(s, x)) = <<>>
    <3>1. x = <<>>
      <4>1. Len(s) + 1 \in 1 .. Len(Append(s, x))
        BY <2>1
      <4> QED
        BY <2>1, <2>3, <4>1
    <3>2. \A i \in 1 .. Len(s) : s[i] = <<>>
      <4>1. \A i \in 1 .. Len(s) : i \in 1 .. Len(Append(s, x))
        BY <2>1
      <4> QED
        BY <2>1, <2>3, <4>1
    <3>3. FlattenSeq(s) = <<>>
      BY <1>2, <3>2
    <3> QED
      BY <2>2, <3>1, <3>3
  <2> QED
    BY <2>1, <2>3
<1> HIDE DEF P
<1>3. \A s \in Seq(Seq(S)) : s \in P
  BY <1>1, <1>2, SeqInduction
<1> QED
  BY <1>3 DEF P

-----------------------------------------------------------------------------
(* Bytes *)

LEMMA BytesNone == Bytes(<<>>) = 0
<1> DEFINE f == [i \in DOMAIN <<>> |-> Width[<<>>[i]]]
<1>1. DOMAIN f = {}
  OBVIOUS
<1> HIDE DEF f
<1>2. SumFunction(f) = 0
  BY <1>1, SumOfNone
<1> QED
  BY <1>2 DEF Bytes, f

LEMMA BytesAppend ==
    ASSUME NEW s \in Seq(Runes), NEW r \in Runes
    PROVE  Bytes(Append(s, r)) = Bytes(s) + Width[r] /\ Bytes(s) \in Int
<1> DEFINE more == Append(s, r)
           n == Len(s) + 1
           f == [i \in DOMAIN more |-> Width[more[i]]]
           part == [i \in DOMAIN s |-> Width[s[i]]]
<1>1. /\ more \in Seq(Runes) /\ DOMAIN more = 1 .. n /\ n \in Nat /\ more[n] = r /\ n >= 1
      /\ DOMAIN s = 1 .. n - 1 /\ \A i \in 1 .. n - 1 : more[i] = s[i] /\ s[i] \in Runes
  OBVIOUS
<1>2. \A q \in Runes : Width[q] \in Int
  BY RunesAssumption
<1> HIDE DEF more, n
<1>3. /\ DOMAIN f = 1 .. n /\ n \in DOMAIN f /\ f[n] = Width[r]
      /\ DOMAIN part = DOMAIN f \ {n} /\ \A i \in DOMAIN part : part[i] = f[i]
  BY <1>1
<1>4. \A i \in DOMAIN f : f[i] \in Int
  BY <1>1, <1>2
<1>5. IsFiniteSet(DOMAIN f) /\ IsFiniteSet(DOMAIN part)
  BY <1>1, FS_Interval
<1> HIDE DEF f, part
<1>6. SumFunction(f) = f[n] + SumFunction(part)
  BY <1>3, <1>4, <1>5, SumWith
<1>7. SumFunction(part) \in Int
  BY <1>3, <1>4, <1>5, SumType
<1>8. Width[r] \in Int
  BY <1>2
<1> QED
  BY <1>3, <1>6, <1>7, <1>8 DEF Bytes, f, part, more

LEMMA BytesType == \A s \in Seq(Runes) : Bytes(s) \in Nat /\ Bytes(s) >= Len(s)
<1> DEFINE P == {s \in Seq(Runes) : Bytes(s) \in Nat /\ Bytes(s) >= Len(s)}
<1>1. <<>> \in P
  BY BytesNone
<1>2. ASSUME NEW s \in Seq(Runes), NEW r \in Runes, s \in P
      PROVE  Append(s, r) \in P
  <2>1. Bytes(Append(s, r)) = Bytes(s) + Width[r]
    BY BytesAppend
  <2>2. Width[r] \in 1 .. 4
    BY RunesAssumption
  <2>3. Append(s, r) \in Seq(Runes) /\ Len(Append(s, r)) = Len(s) + 1 /\ Len(s) \in Nat
    OBVIOUS
  <2>4. Bytes(s) \in Nat /\ Bytes(s) >= Len(s)
    BY <1>2
  <2>5. Bytes(Append(s, r)) \in Nat /\ Bytes(Append(s, r)) >= Len(Append(s, r))
    BY <2>1, <2>2, <2>3, <2>4
  <2> QED
    BY <2>3, <2>5
<1> HIDE DEF P
<1>3. \A s \in Seq(Runes) : s \in P
  BY <1>1, <1>2, SeqInduction
<1> QED
  BY <1>3 DEF P

LEMMA BytesConcat ==
    ASSUME NEW s \in Seq(Runes)
    PROVE  \A t \in Seq(Runes) : Bytes(s \o t) = Bytes(s) + Bytes(t)
<1> DEFINE P == {t \in Seq(Runes) : Bytes(s \o t) = Bytes(s) + Bytes(t)}
<1>0. Bytes(s) \in Nat
  BY BytesType
<1>1. <<>> \in P
  <2>1. s \o <<>> = s /\ <<>> \in Seq(Runes)
    OBVIOUS
  <2> QED
    BY <1>0, <2>1, BytesNone
<1>2. ASSUME NEW t \in Seq(Runes), NEW r \in Runes, t \in P
      PROVE  Append(t, r) \in P
  <2>1. s \o t \in Seq(Runes) /\ Append(t, r) \in Seq(Runes)
    OBVIOUS
  <2>2. Bytes(Append(t, r)) = Bytes(t) + Width[r] /\ Bytes(t) \in Int
    BY BytesAppend
  <2>3. s \o Append(t, r) = Append(s \o t, r)
    BY AppendLast
  <2>4. Bytes(Append(s \o t, r)) = Bytes(s \o t) + Width[r]
    BY <2>1, BytesAppend
  <2>5. Width[r] \in Int
    BY RunesAssumption
  <2>6. Bytes(s \o t) = Bytes(s) + Bytes(t)
    BY <1>2
  <2>7. Bytes(s \o Append(t, r)) = Bytes(s) + Bytes(Append(t, r))
    BY <1>0, <2>2, <2>3, <2>4, <2>5, <2>6
  <2> QED
    BY <2>1, <2>7
<1> HIDE DEF P
<1>3. \A t \in Seq(Runes) : t \in P
  BY <1>1, <1>2, SeqInduction
<1> QED
  BY <1>3 DEF P

(* A text is its first n runes and the others. *)
LEMMA BytesSplit ==
    ASSUME NEW s \in Seq(Runes), NEW n \in 0 .. Len(s)
    PROVE  /\ SubSeq(s, 1, n) \in Seq(Runes) /\ Len(SubSeq(s, 1, n)) = n
           /\ SubSeq(s, n + 1, Len(s)) \in Seq(Runes)
           /\ Len(SubSeq(s, n + 1, Len(s))) = Len(s) - n
           /\ s = SubSeq(s, 1, n) \o SubSeq(s, n + 1, Len(s))
           /\ Bytes(s) = Bytes(SubSeq(s, 1, n)) + Bytes(SubSeq(s, n + 1, Len(s)))
<1> DEFINE t == SubSeq(s, 1, n)
           u == SubSeq(s, n + 1, Len(s))
<1>1. t \in Seq(Runes) /\ Len(t) = n
  OBVIOUS
<1>2. u \in Seq(Runes) /\ Len(u) = Len(s) - n
  OBVIOUS
<1>3. s = t \o u
  <2>1. /\ t \o u \in Seq(Runes) /\ Len(t \o u) = Len(s)
        /\ \A i \in 1 .. n : (t \o u)[i] = t[i]
        /\ \A i \in n + 1 .. Len(s) : (t \o u)[i] = u[i - n]
    <3> HIDE DEF t, u
    <3> QED
      BY <1>1, <1>2
  <2>2. \A i \in 1 .. n : t[i] = s[i]
    OBVIOUS
  <2>3. \A i \in n + 1 .. Len(s) : u[i - n] = s[i]
    OBVIOUS
  <2> HIDE DEF t, u
  <2>4. \A i \in 1 .. Len(s) : (t \o u)[i] = s[i]
    BY <2>1, <2>2, <2>3
  <2> QED
    BY <2>1, <2>4, SameElements
<1> HIDE DEF t, u
<1>4. Bytes(t \o u) = Bytes(t) + Bytes(u)
  BY <1>1, <1>2, BytesConcat
<1> QED
  BY <1>1, <1>2, <1>3, <1>4 DEF t, u

LEMMA BytesPrefix ==
    ASSUME NEW s \in Seq(Runes), NEW n \in 0 .. Len(s)
    PROVE  Bytes(SubSeq(s, 1, n)) \in Nat
<1>1. SubSeq(s, 1, n) \in Seq(Runes)
  OBVIOUS
<1> QED
  BY <1>1, BytesType

LEMMA BytesNewline ==
    ASSUME NEW s \in Seq(Runes), Len(s) = 1, s[1] = Newline
    PROVE  Bytes(s) = 1
<1>1. Newline \in Runes /\ Width[Newline] = 1
  BY RunesAssumption
<1>2. <<>> \in Seq(Runes) /\ Append(<<>>, Newline) \in Seq(Runes)
      /\ Len(Append(<<>>, Newline)) = 1 /\ Append(<<>>, Newline)[1] = Newline
  BY <1>1
<1>3. s = Append(<<>>, Newline)
  BY <1>2, SameElements
<1>4. Bytes(Append(<<>>, Newline)) = Bytes(<<>>) + Width[Newline]
  BY <1>1, <1>2, BytesAppend
<1> QED
  BY <1>1, <1>3, <1>4, BytesNone

-----------------------------------------------------------------------------
(* Pieces of a text *)

(* The runes between two of a text's prefixes. *)
LEMMA BytesBetween ==
    ASSUME NEW s \in Seq(Runes), NEW n \in 0 .. Len(s), NEW m \in 0 .. n
    PROVE  /\ SubSeq(s, m + 1, n) \in Seq(Runes) /\ Len(SubSeq(s, m + 1, n)) = n - m
           /\ Bytes(SubSeq(s, 1, n)) = Bytes(SubSeq(s, 1, m)) + Bytes(SubSeq(s, m + 1, n))
           /\ Bytes(SubSeq(s, 1, m)) >= m /\ Bytes(SubSeq(s, m + 1, n)) >= n - m
           /\ Bytes(SubSeq(s, 1, m)) \in Nat /\ Bytes(SubSeq(s, m + 1, n)) \in Nat
<1> DEFINE t == SubSeq(s, 1, n)
<1>1. t \in Seq(Runes) /\ Len(t) = n /\ m \in 0 .. Len(t)
  OBVIOUS
<1>2. SubSeq(t, 1, m) \in Seq(Runes) /\ SubSeq(s, 1, m) \in Seq(Runes)
      /\ Len(SubSeq(t, 1, m)) = m /\ Len(SubSeq(s, 1, m)) = m
  OBVIOUS
<1>3. SubSeq(t, m + 1, n) \in Seq(Runes) /\ SubSeq(s, m + 1, n) \in Seq(Runes)
      /\ Len(SubSeq(t, m + 1, n)) = n - m /\ Len(SubSeq(s, m + 1, n)) = n - m
  OBVIOUS
<1>4. SubSeq(t, 1, m) = SubSeq(s, 1, m)
  <2>1. \A i \in 1 .. m : SubSeq(t, 1, m)[i] = SubSeq(s, 1, m)[i]
    OBVIOUS
  <2> QED
    BY <1>2, <2>1, SameElements
<1>5. SubSeq(t, m + 1, n) = SubSeq(s, m + 1, n)
  <2>1. \A i \in 1 .. n - m : SubSeq(t, m + 1, n)[i] = SubSeq(s, m + 1, n)[i]
    OBVIOUS
  <2> QED
    BY <1>3, <2>1, SameElements
<1> HIDE DEF t
<1>6. Bytes(t) = Bytes(SubSeq(t, 1, m)) + Bytes(SubSeq(t, m + 1, Len(t)))
  BY <1>1, BytesSplit
<1> QED
  BY <1>1, <1>2, <1>3, <1>4, <1>5, <1>6, BytesType DEF t

-----------------------------------------------------------------------------
(* What SplitMessage keeps true *)

SplitTypes ==
    /\ message \in Seq(Runes) /\ chunk \in Seq(Runes) /\ rest \in Seq(Runes)
    /\ parts \in Seq(Seq(Runes))
    /\ returned \in BOOLEAN
    /\ returned => chunk = <<>> /\ rest = <<>>
    /\ ~returned => chunk # <<>> \/ rest # <<>>

(* A newline of chunk after the one kept is its first rune, where it was   *)
(* cut before.                                                             *)
NewlineSeen ==
    /\ newline \in 0 .. Len(chunk)
    /\ newline # 0 => chunk[newline] = Newline
    /\ \A i \in newline + 1 .. Len(chunk) : chunk[i] = Newline => newline = 0 /\ i = 1

(* chunk outgrows the limit by its last rune, or by the one that was Rune  *)
(* when the chunk before it was cut, and the next one.                     *)
ChunkFits ==
    /\ Bytes(SubSeq(chunk, 1, Len(chunk) - 2)) < Limit
    /\ newline # 0 => Bytes(SubSeq(chunk, 1, Len(chunk) - 1)) < Limit
    /\ Narrow(chunk) => Bytes(chunk) <= Limit

PartFits(p) ==
    /\ p # <<>> \/ message = <<>>
    /\ Len(p) <= Len(message)
    /\ Bytes(p) > Limit => ~Narrow(p) /\ Bytes(SubSeq(p, 1, Len(p) - 2)) < Limit

Upcoming == IF chunk # <<>> THEN chunk[1] ELSE rest[1]

LinesWhole ==
    ShortLines(message) =>
        /\ \A i \in 1 .. Len(parts) - 1 : Last(parts[i]) = Newline \/ parts[i + 1][1] = Newline
        /\ parts # <<>> /\ ~returned => Last(parts[Len(parts)]) = Newline \/ Upcoming = Newline

SplitInv ==
    /\ SplitTypes /\ NewlineSeen /\ ChunkFits
    /\ \A i \in 1 .. Len(parts) : PartFits(parts[i])
    /\ LinesWhole
    /\ JoinsToMessage

(* chunk and rest are in the message as they are here. *)
LEMMA Unsplit ==
    ASSUME SplitInv
    PROVE  /\ Len(chunk) + Len(rest) <= Len(message)
           /\ \E k \in Nat :
                /\ k + Len(chunk) + Len(rest) = Len(message)
                /\ \A i \in 1 .. Len(chunk) : message[k + i] = chunk[i]
                /\ \A i \in 1 .. Len(rest) : message[k + Len(chunk) + i] = rest[i]
<1> DEFINE done == FlattenSeq(parts)
<1>1. done \in Seq(Runes) /\ chunk \in Seq(Runes) /\ rest \in Seq(Runes)
  BY FlattenType DEF SplitInv, SplitTypes
<1>2. message = (done \o chunk) \o rest
  BY DEF SplitInv, JoinsToMessage
<1> HIDE DEF done
<1>3. /\ done \o chunk \in Seq(Runes) /\ Len(done \o chunk) = Len(done) + Len(chunk)
      /\ Len(done) \in Nat /\ Len(chunk) \in Nat /\ Len(rest) \in Nat
      /\ \A i \in 1 .. Len(chunk) : (done \o chunk)[Len(done) + i] = chunk[i]
  BY <1>1
<1>4. /\ Len(message) = Len(done) + Len(chunk) + Len(rest)
      /\ \A i \in 1 .. Len(done) + Len(chunk) : message[i] = (done \o chunk)[i]
      /\ \A i \in 1 .. Len(rest) : message[Len(done) + Len(chunk) + i] = rest[i]
  BY <1>1, <1>2, <1>3
<1>5. \A i \in 1 .. Len(chunk) : message[Len(done) + i] = chunk[i]
  BY <1>3, <1>4
<1>6. Len(chunk) + Len(rest) <= Len(message)
  BY <1>3, <1>4
<1> DEFINE k == Len(done)
<1>7. /\ k \in Nat /\ k + Len(chunk) + Len(rest) = Len(message)
      /\ \A i \in 1 .. Len(chunk) : message[k + i] = chunk[i]
      /\ \A i \in 1 .. Len(rest) : message[k + Len(chunk) + i] = rest[i]
  BY <1>3, <1>4, <1>5
<1> HIDE DEF k
<1> QED
  BY <1>6, <1>7

(* What the three cuts have in common. *)
Cuts(n) ==
    /\ rest # <<>> /\ ~returned
    /\ CutAt(n)
    /\ n < Len(chunk) => newline # 0
    /\ Bytes(SubSeq(chunk, 1, n)) > Limit => n = Len(chunk)
    /\ \A i \in 1 .. Len(chunk') : chunk'[i] = Newline => i = 1
    /\ ShortLines(message) => chunk[n] = Newline \/ chunk'[1] = Newline

LEMMA CutChunk ==
    ASSUME SplitTypes, rest # <<>>, NEW n \in 1 .. Len(chunk), CutAt(n)
    PROVE  /\ Rune \in Runes /\ Tail(rest) \in Seq(Runes)
           /\ SubSeq(chunk, n + 1, Len(chunk)) \in Seq(Runes)
           /\ chunk' = Append(SubSeq(chunk, n + 1, Len(chunk)), Rune)
           /\ chunk' \in Seq(Runes) /\ Len(chunk') = Len(chunk) - n + 1
           /\ \A i \in 1 .. Len(chunk) - n : chunk'[i] = chunk[n + i]
           /\ chunk'[Len(chunk) - n + 1] = Rune
<1>1. Rune \in Runes /\ Tail(rest) \in Seq(Runes)
  BY DEF SplitTypes, Rune
<1> DEFINE after == SubSeq(chunk, n + 1, Len(chunk))
<1>2. /\ after \in Seq(Runes) /\ Len(after) = Len(chunk) - n
      /\ \A i \in 1 .. Len(chunk) - n : after[i] = chunk[n + i]
  BY DEF SplitTypes
<1>3. chunk' = Append(after, Rune)
  BY DEF CutAt
<1> HIDE DEF after
<1> QED
  BY <1>1, <1>2, <1>3 DEF after

LEMMA FullChunk ==
    ASSUME SplitInv, rest # <<>>, Full
    PROVE  /\ Len(chunk) \in Nat \ {0} /\ Bytes(chunk) \in Nat /\ Bytes(chunk) >= Limit
           /\ SubSeq(chunk, 1, Len(chunk)) = chunk
           /\ Rune \in Runes /\ Rune = rest[1] /\ 1 \in 1 .. Len(rest)
           /\ Append(chunk, Rune) \in Seq(Runes) /\ Len(Append(chunk, Rune)) = Len(chunk) + 1
           /\ SubSeq(Append(chunk, Rune), 1, Len(chunk) + 1) = Append(chunk, Rune)
           /\ \A n \in 0 .. Len(chunk) : SubSeq(Append(chunk, Rune), 1, n) = SubSeq(chunk, 1, n)
           /\ Bytes(Append(chunk, Rune)) > Limit
           /\ ~returned /\ Limit \in Nat \ {0}
<1>1. chunk \in Seq(Runes) /\ rest \in Seq(Runes)
  BY DEF SplitInv, SplitTypes
<1>2. Bytes(chunk) \in Nat /\ Bytes(chunk) >= Limit /\ Limit \in Nat \ {0}
  BY <1>1, BytesType, RunesAssumption DEF Full
<1>3. Rune \in Runes /\ Rune = rest[1] /\ 1 \in 1 .. Len(rest)
  BY <1>1 DEF Rune
<1>4. chunk # <<>>
  BY <1>2, BytesNone
<1>5. Bytes(Append(chunk, Rune)) > Limit
  <2>1. Bytes(Append(chunk, Rune)) = Bytes(chunk) + Width[Rune]
    BY <1>1, <1>3, BytesAppend
  <2>2. Width[Rune] \in 1 .. 4
    BY <1>3, RunesAssumption
  <2> QED
    BY <1>2, <2>1, <2>2
<1>6. Len(chunk) \in Nat \ {0} /\ SubSeq(chunk, 1, Len(chunk)) = chunk
  BY <1>1, <1>4
<1>7. Append(chunk, Rune) \in Seq(Runes) /\ Len(Append(chunk, Rune)) = Len(chunk) + 1
      /\ SubSeq(Append(chunk, Rune), 1, Len(chunk) + 1) = Append(chunk, Rune)
  BY <1>1, <1>3
<1>8. ASSUME NEW n \in 0 .. Len(chunk)
      PROVE  SubSeq(Append(chunk, Rune), 1, n) = SubSeq(chunk, 1, n)
  <2>1. /\ SubSeq(Append(chunk, Rune), 1, n) \in Seq(Runes) /\ SubSeq(chunk, 1, n) \in Seq(Runes)
        /\ Len(SubSeq(Append(chunk, Rune), 1, n)) = n /\ Len(SubSeq(chunk, 1, n)) = n
    BY <1>1, <1>3
  <2>2. \A i \in 1 .. n : SubSeq(Append(chunk, Rune), 1, n)[i] = SubSeq(chunk, 1, n)[i]
    BY <1>1, <1>3
  <2> QED
    BY <2>1, <2>2, SameElements
<1>9. ~returned
  BY DEF SplitInv, SplitTypes
<1> QED
  BY <1>2, <1>3, <1>5, <1>6, <1>7, <1>8, <1>9

LEMMA AfterNewlineCuts ==
    ASSUME SplitInv, CutAfterNewline
    PROVE  \E n \in 1 .. Len(chunk) : Cuts(n)
<1>1. rest # <<>> /\ Full /\ NewlineFits /\ CutAt(LastNewline)
  BY DEF CutAfterNewline
<1>2. /\ Len(chunk) \in Nat \ {0} /\ ~returned
      /\ SubSeq(Append(chunk, Rune), 1, Len(chunk) + 1) = Append(chunk, Rune)
      /\ \A n \in 0 .. Len(chunk) : SubSeq(Append(chunk, Rune), 1, n) = SubSeq(chunk, 1, n)
      /\ Bytes(Append(chunk, Rune)) > Limit /\ Bytes(Append(chunk, Rune)) \in Nat /\ Limit \in Nat
  BY <1>1, FullChunk, BytesType
<1>3. LastNewline # 0 /\ Bytes(SubSeq(Append(chunk, Rune), 1, LastNewline)) <= Limit
  BY <1>1 DEF NewlineFits
<1>4. Rune # Newline /\ LastNewline = newline
  <2>1. CASE Rune = Newline
    <3>1. Bytes(Append(chunk, Rune)) <= Limit
      BY <1>2, <1>3, <2>1 DEF LastNewline
    <3> QED
      BY <1>2, <3>1
  <2>2. CASE Rune # Newline
    BY <2>2 DEF LastNewline
  <2> QED
    BY <2>1, <2>2
<1>5. newline \in 1 .. Len(chunk) /\ chunk[newline] = Newline
      /\ \A i \in newline + 1 .. Len(chunk) : chunk[i] # Newline
  BY <1>3, <1>4 DEF SplitInv, NewlineSeen
<1>6. Bytes(SubSeq(chunk, 1, newline)) <= Limit /\ Bytes(SubSeq(chunk, 1, newline)) \in Nat
  <2>1. newline \in 0 .. Len(chunk) /\ chunk \in Seq(Runes)
    BY <1>5 DEF SplitInv, SplitTypes
  <2>2. SubSeq(Append(chunk, Rune), 1, newline) = SubSeq(chunk, 1, newline)
    BY <1>2, <2>1
  <2>3. Bytes(SubSeq(chunk, 1, newline)) \in Nat
    BY <2>1, BytesPrefix
  <2> QED
    BY <1>3, <1>4, <2>2, <2>3
<1>7. /\ Len(chunk') = Len(chunk) - newline + 1
      /\ \A i \in 1 .. Len(chunk) - newline : chunk'[i] = chunk[newline + i]
      /\ chunk'[Len(chunk) - newline + 1] = Rune
  BY <1>1, <1>4, <1>5, CutChunk DEF SplitInv
<1>8. ASSUME NEW i \in 1 .. Len(chunk') PROVE chunk'[i] # Newline
  <2>1. CASE i = Len(chunk) - newline + 1
    BY <1>4, <1>7, <2>1
  <2>2. CASE i # Len(chunk) - newline + 1
    <3>1. i \in 1 .. Len(chunk) - newline /\ newline + i \in newline + 1 .. Len(chunk)
      <4>1. Len(chunk) \in Nat /\ newline \in 1 .. Len(chunk) /\ i \in 1 .. Len(chunk) - newline + 1
        BY <1>2, <1>5, <1>7
      <4> QED
        BY <2>2, <4>1
    <3> QED
      BY <1>5, <1>7, <3>1
  <2> QED
    BY <2>1, <2>2
<1>9. Cuts(newline)
  BY <1>1, <1>2, <1>4, <1>5, <1>6, <1>8 DEF Cuts
<1> QED
  BY <1>5, <1>9

LEMMA BeforeNewlineCuts ==
    ASSUME SplitInv, CutBeforeNewline
    PROVE  \E n \in 1 .. Len(chunk) : Cuts(n)
<1>1. rest # <<>> /\ Full /\ LastNewline # 0 /\ ~NewlineFits /\ CutAt(LastNewline - 1)
  BY DEF CutBeforeNewline
<1> DEFINE n == Len(chunk)
<1>2. /\ n \in Nat \ {0} /\ ~returned /\ Limit \in Nat \ {0}
      /\ \A m \in 0 .. n : SubSeq(Append(chunk, Rune), 1, m) = SubSeq(chunk, 1, m)
      /\ SubSeq(chunk, 1, n) = chunk
  BY <1>1, FullChunk
<1>3. CASE Rune = Newline
  <2>1. LastNewline - 1 = n
    BY <1>2, <1>3 DEF LastNewline
  <2>2. CutAt(n) /\ n \in 1 .. Len(chunk)
    BY <1>1, <1>2, <2>1
  <2>3. Len(chunk') = 1 /\ chunk'[1] = Newline
    <3>1. Len(chunk') = n - n + 1 /\ chunk'[n - n + 1] = Rune
      BY <1>1, <2>2, CutChunk DEF SplitInv
    <3>2. n - n + 1 = 1
      BY <1>2
    <3> QED
      BY <1>3, <3>1, <3>2
  <2>4. Cuts(n)
    BY <1>1, <1>2, <2>2, <2>3 DEF Cuts
  <2> QED
    BY <2>2, <2>4
<1>4. CASE Rune # Newline
  <2>1. LastNewline = newline /\ newline # 0
    BY <1>1, <1>4 DEF LastNewline
  <2>2. newline \in 1 .. n /\ chunk[newline] = Newline /\ Bytes(SubSeq(chunk, 1, n - 1)) < Limit
    BY <2>1 DEF SplitInv, NewlineSeen, ChunkFits
  <2>3. chunk \in Seq(Runes)
    BY DEF SplitInv, SplitTypes
  <2>4. ~(Bytes(SubSeq(chunk, 1, newline)) <= Limit)
    <3>1. newline \in 0 .. n
      BY <2>2
    <3>2. SubSeq(Append(chunk, Rune), 1, newline) = SubSeq(chunk, 1, newline)
      BY <1>2, <3>1
    <3> QED
      BY <1>1, <2>1, <3>2 DEF NewlineFits
  <2>5. newline = n
    <3> SUFFICES ASSUME newline # n PROVE FALSE
      OBVIOUS
    <3>0. n \in Nat \ {0} /\ newline \in 1 .. n
      BY <1>2, <2>2
    <3>1. n - 1 \in 0 .. n /\ newline \in 0 .. n - 1
      <4> HIDE DEF n
      <4> QED
        BY <3>0
    <3> DEFINE first == Bytes(SubSeq(chunk, 1, newline))
               more == Bytes(SubSeq(chunk, newline + 1, n - 1))
               all == Bytes(SubSeq(chunk, 1, n - 1))
    <3>2. all = first + more /\ first \in Nat /\ more \in Nat
      BY <2>3, <3>1, BytesBetween
    <3>3. all < Limit /\ ~(first <= Limit)
      BY <2>2, <2>4
    <3> HIDE DEF first, more, all, n
    <3> QED
      BY <1>2, <3>2, <3>3
  <2>6. n # 1
    <3> SUFFICES ASSUME n = 1 PROVE FALSE
      OBVIOUS
    <3>1. Len(chunk) = 1 /\ chunk[1] = Newline
      BY <2>2, <2>5
    <3>2. Bytes(chunk) = 1
      BY <2>3, <3>1, BytesNewline
    <3>3. SubSeq(chunk, 1, newline) = chunk
      BY <1>2, <2>5
    <3>4. Limit \in Nat \ {0}
      BY <1>2
    <3>5. Bytes(SubSeq(chunk, 1, newline)) = 1
      BY <3>2, <3>3
    <3> DEFINE b == Bytes(SubSeq(chunk, 1, newline))
    <3>6. b = 1 /\ ~(b <= Limit)
      BY <2>4, <3>5
    <3> HIDE DEF b
    <3> QED
      BY <3>4, <3>6
  <2>7. CutAt(n - 1) /\ n - 1 \in 1 .. Len(chunk) /\ n - 1 < Len(chunk)
    BY <1>1, <1>2, <2>1, <2>5, <2>6
  <2>8. Len(chunk') = 2 /\ chunk'[1] = Newline /\ chunk'[2] = Rune
    <3>1. /\ Len(chunk') = n - (n - 1) + 1
          /\ \A i \in 1 .. n - (n - 1) : chunk'[i] = chunk[(n - 1) + i]
          /\ chunk'[n - (n - 1) + 1] = Rune
      BY <1>1, <2>7, CutChunk DEF SplitInv
    <3>2. n - (n - 1) = 1 /\ (n - 1) + 1 = n
      BY <1>2
    <3> QED
      BY <2>2, <2>5, <3>1, <3>2
  <2>9. Bytes(SubSeq(chunk, 1, n - 1)) \in Nat
    <3>1. n - 1 \in 0 .. Len(chunk)
      BY <2>7
    <3> QED
      BY <2>3, <3>1, BytesPrefix
  <2>10. Cuts(n - 1)
    <3>1. ~(Bytes(SubSeq(chunk, 1, n - 1)) > Limit)
      BY <1>2, <2>2, <2>9
    <3>2. \A i \in 1 .. Len(chunk') : chunk'[i] = Newline => i = 1
      BY <1>4, <2>8
    <3> QED
      BY <1>1, <1>2, <2>1, <2>7, <2>8, <3>1, <3>2 DEF Cuts
  <2> QED
    BY <2>7, <2>10
<1> QED
  BY <1>3, <1>4

(* A line as long as the limit would be needed for a cut within it. *)
LEMMA HereCuts ==
    ASSUME SplitInv, CutHere
    PROVE  \E n \in 1 .. Len(chunk) : Cuts(n)
<1> DEFINE n == Len(chunk)
<1>1. rest # <<>> /\ Full /\ LastNewline = 0 /\ CutAt(n)
  BY DEF CutHere
<1>2. /\ n \in Nat \ {0} /\ ~returned /\ Limit \in Nat \ {0}
      /\ Bytes(chunk) \in Nat /\ Bytes(chunk) >= Limit
      /\ Rune \in Runes /\ Rune = rest[1] /\ 1 \in 1 .. Len(rest)
      /\ SubSeq(chunk, 1, n) = chunk
  BY <1>1, FullChunk
<1>3. Rune # Newline /\ newline = 0
  BY <1>1, <1>2 DEF LastNewline
<1>4. Len(chunk') = 1 /\ chunk'[1] = Rune
  <2>1. n \in 1 .. Len(chunk)
    BY <1>2
  <2>2. Len(chunk') = n - n + 1 /\ chunk'[n - n + 1] = Rune
    BY <1>1, <2>1, CutChunk DEF SplitInv
  <2>3. n - n + 1 = 1
    BY <1>2
  <2> QED
    BY <2>2, <2>3
<1>5. ~ShortLines(message)
  <2> SUFFICES ASSUME ShortLines(message) PROVE FALSE
    OBVIOUS
  <2>1. chunk \in Seq(Runes) /\ message \in Seq(Runes)
    BY DEF SplitInv, SplitTypes
  <2>2. PICK k \in Nat :
          /\ k + Len(chunk) + Len(rest) = Len(message)
          /\ \A i \in 1 .. Len(chunk) : message[k + i] = chunk[i]
          /\ \A i \in 1 .. Len(rest) : message[k + Len(chunk) + i] = rest[i]
    BY Unsplit
  <2> DEFINE m == IF chunk[1] = Newline THEN 1 ELSE 0
             line == SubSeq(chunk, m + 1, n)
             first == k + m + 1
             last == k + n + 1
             long == SubSeq(message, first, last)
  <2>3. m \in {0, 1} /\ m \in 0 .. n
    BY <1>2
  <2>4. \A i \in m + 1 .. n : chunk[i] # Newline
    BY <1>2, <1>3 DEF SplitInv, NewlineSeen
  <2>5. /\ line \in Seq(Runes) /\ Len(line) = n - m
        /\ \A i \in 1 .. n - m : line[i] = chunk[m + i]
        /\ Bytes(chunk) = Bytes(SubSeq(chunk, 1, m)) + Bytes(line) /\ Bytes(line) \in Nat
        /\ Bytes(SubSeq(chunk, 1, m)) \in Nat
    <3>1. n \in 0 .. Len(chunk) /\ m \in 0 .. n
      BY <1>2, <2>3
    <3>2. line \in Seq(Runes) /\ Len(line) = n - m
          /\ Bytes(SubSeq(chunk, 1, n)) = Bytes(SubSeq(chunk, 1, m)) + Bytes(line)
          /\ Bytes(SubSeq(chunk, 1, m)) \in Nat /\ Bytes(line) \in Nat
      BY <2>1, <3>1, BytesBetween
    <3>3. \A i \in 1 .. n - m : line[i] = chunk[m + i]
      <4> HIDE DEF m
      <4> QED
        BY <2>1, <2>3
    <3> QED
      BY <1>2, <3>2, <3>3
  <2>6. Bytes(SubSeq(chunk, 1, m)) <= m
    <3>1. CASE m = 0
      <4>1. SubSeq(chunk, 1, 0) = <<>>
        BY <2>1
      <4>2. Bytes(SubSeq(chunk, 1, 0)) = 0
        BY <4>1, BytesNone
      <4> HIDE DEF m
      <4>3. SubSeq(chunk, 1, m) = SubSeq(chunk, 1, 0)
        BY <3>1
      <4> QED
        BY <3>1, <4>2, <4>3
    <3>2. CASE m = 1
      <4>1. chunk[1] = Newline
        BY <3>2
      <4>2. 1 \in 1 .. Len(chunk)
        BY <1>2
      <4>3. SubSeq(chunk, 1, 1) \in Seq(Runes) /\ Len(SubSeq(chunk, 1, 1)) = 1 /\ SubSeq(chunk, 1, 1)[1] = chunk[1]
        BY <2>1, <4>2
      <4>4. Bytes(SubSeq(chunk, 1, 1)) = 1
        BY <4>1, <4>3, BytesNewline
      <4> HIDE DEF m
      <4>5. SubSeq(chunk, 1, m) = SubSeq(chunk, 1, 1)
        BY <3>2
      <4> QED
        BY <3>2, <4>4, <4>5
    <3> QED
      BY <2>3, <3>1, <3>2
  <2> HIDE DEF m, line
  <2>7. /\ first \in DOMAIN message /\ last \in first .. Len(message)
        /\ first \in 1 .. Len(message) /\ last \in 1 .. Len(message)
    BY <1>2, <2>1, <2>2, <2>3
  <2>8. /\ long \in Seq(Runes) /\ Len(long) = n - m + 1
        /\ \A i \in 1 .. n - m + 1 : long[i] = message[k + m + i]
    <3>1. last - first + 1 = n - m + 1
      BY <1>2, <2>2, <2>3
    <3>2. /\ long \in Seq(Runes) /\ Len(long) = last - first + 1
          /\ \A i \in 1 .. last - first + 1 : long[i] = message[first + i - 1]
      <4> HIDE DEF first, last
      <4>1. first \in Int /\ last \in Int /\ first <= last
        BY <2>1, <2>7
      <4> QED
        BY <2>1, <2>7, <4>1
    <3>3. \A i \in 1 .. n - m + 1 : first + i - 1 = k + m + i
      BY <1>2, <2>2, <2>3
    <3> HIDE DEF first, last, long, n
    <3> QED
      BY <3>1, <3>2, <3>3
  <2>9. \A i \in 1 .. n - m : long[i] = line[i] /\ long[i] # Newline
    <3> SUFFICES ASSUME NEW i \in 1 .. n - m PROVE long[i] = line[i] /\ long[i] # Newline
      OBVIOUS
    <3>0. n \in Nat /\ k \in Nat /\ m \in 0 .. n
      BY <1>2, <2>2, <2>3
    <3>1. i \in 1 .. n - m + 1 /\ m + i \in m + 1 .. n /\ m + i \in 1 .. n /\ k + m + i = k + (m + i)
      <4> HIDE DEF n
      <4> QED
        BY <3>0
    <3>2. long[i] = message[k + (m + i)] /\ message[k + (m + i)] = chunk[m + i]
      BY <2>2, <2>8, <3>1
    <3> QED
      BY <2>4, <2>5, <3>1, <3>2
  <2>10. long[n - m + 1] = Rune
    <3>1. n - m + 1 \in 1 .. n - m + 1 /\ k + m + (n - m + 1) = k + n + 1
      BY <1>2, <2>2, <2>3
    <3> QED
      BY <1>2, <2>2, <2>8, <3>1
  <2> HIDE DEF long, first, last, n
  <2>11. long = Append(line, Rune)
    <3>1. Append(line, Rune) \in Seq(Runes) /\ Len(Append(line, Rune)) = n - m + 1
      BY <1>2, <2>5
    <3>2. \A i \in 1 .. n - m + 1 : Append(line, Rune)[i] = long[i]
      <4> SUFFICES ASSUME NEW i \in 1 .. n - m + 1 PROVE Append(line, Rune)[i] = long[i]
        OBVIOUS
      <4>1. n \in Nat /\ m \in 0 .. n
        BY <1>2, <2>3
      <4>2. CASE i = n - m + 1
        BY <2>5, <2>10, <3>1, <4>1, <4>2
      <4>3. CASE i # n - m + 1
        <5>1. i \in 1 .. n - m
          BY <4>1, <4>3
        <5>2. Append(line, Rune)[i] = line[i]
          BY <1>2, <2>5, <5>1
        <5> QED
          BY <2>9, <5>1, <5>2
      <4> QED
        BY <4>2, <4>3
    <3> QED
      BY <2>8, <3>1, <3>2, SameElements
  <2>12. ~Contains(long, Newline)
    <3>1. ASSUME NEW i \in 1 .. Len(long) PROVE long[i] # Newline
      <4>1. i \in 1 .. n - m \/ i = n - m + 1
        BY <1>2, <2>3, <2>8
      <4> QED
        BY <1>3, <2>9, <2>10, <4>1
    <3> QED
      BY <3>1 DEF Contains
  <2>13. Bytes(long) < Limit
    BY <2>7, <2>12 DEF ShortLines, long
  <2>14. Bytes(long) = Bytes(line) + Width[Rune]
    BY <1>2, <2>5, <2>11, BytesAppend
  <2>15. Width[Rune] \in 1 .. 4
    BY <1>2, RunesAssumption
  <2> QED
    BY <1>2, <2>3, <2>5, <2>6, <2>13, <2>14, <2>15
<1>6. Cuts(n)
  BY <1>1, <1>2, <1>4, <1>5 DEF Cuts
<1> QED
  BY <1>2, <1>6

(* A prefix of a chunk and the rune taken in. *)
LEMMA AppendPrefix ==
    ASSUME NEW s \in Seq(Runes), NEW r \in Runes
    PROVE  /\ Append(s, r) \in Seq(Runes) /\ Len(Append(s, r)) = Len(s) + 1 /\ Len(s) \in Nat
           /\ \A i \in 1 .. Len(s) : Append(s, r)[i] = s[i]
           /\ Append(s, r)[Len(s) + 1] = r
           /\ \A n \in 0 .. Len(s) : SubSeq(Append(s, r), 1, n) = SubSeq(s, 1, n)
<1>1. /\ Append(s, r) \in Seq(Runes) /\ Len(Append(s, r)) = Len(s) + 1 /\ Len(s) \in Nat
      /\ \A i \in 1 .. Len(s) : Append(s, r)[i] = s[i]
      /\ Append(s, r)[Len(s) + 1] = r
  OBVIOUS
<1>2. ASSUME NEW n \in 0 .. Len(s) PROVE SubSeq(Append(s, r), 1, n) = SubSeq(s, 1, n)
  <2>1. /\ SubSeq(Append(s, r), 1, n) \in Seq(Runes) /\ Len(SubSeq(Append(s, r), 1, n)) = n
        /\ SubSeq(s, 1, n) \in Seq(Runes) /\ Len(SubSeq(s, 1, n)) = n
    OBVIOUS
  <2>2. \A i \in 1 .. n : SubSeq(Append(s, r), 1, n)[i] = SubSeq(s, 1, n)[i]
    OBVIOUS
  <2> QED
    BY <2>1, <2>2, SameElements
<1> QED
  BY <1>1, <1>2

LEMMA NoBytes ==
    ASSUME NEW s \in Seq(Runes), NEW n \in Int, n <= 0
    PROVE  Bytes(SubSeq(s, 1, n)) = 0
<1>1. SubSeq(s, 1, n) = <<>>
  OBVIOUS
<1> QED
  BY <1>1, BytesNone

(* What follows a cut that is not at the end of the chunk ends in the rune *)
(* that outgrew the limit, and is short without it.                        *)
LEMMA AfterCut ==
    ASSUME SplitInv, NEW n \in 1 .. Len(chunk) - 1, newline # 0
    PROVE  /\ SubSeq(chunk, n + 1, Len(chunk)) \in Seq(Runes)
           /\ Len(SubSeq(chunk, n + 1, Len(chunk))) = Len(chunk) - n
           /\ Bytes(SubSeq(SubSeq(chunk, n + 1, Len(chunk)), 1, Len(chunk) - n - 1)) \in Nat
           /\ Bytes(SubSeq(SubSeq(chunk, n + 1, Len(chunk)), 1, Len(chunk) - n - 1)) + 1 < Limit
           /\ chunk[Len(chunk)] \in Runes
           /\ SubSeq(chunk, n + 1, Len(chunk))[Len(chunk) - n] = chunk[Len(chunk)]
           /\ Bytes(SubSeq(chunk, n + 1, Len(chunk)))
                = Bytes(SubSeq(SubSeq(chunk, n + 1, Len(chunk)), 1, Len(chunk) - n - 1))
                    + Width[chunk[Len(chunk)]]
<1> DEFINE c == Len(chunk)
           after == SubSeq(chunk, n + 1, c)
           short == SubSeq(chunk, n + 1, c - 1)
<1>1. chunk \in Seq(Runes) /\ c \in Nat /\ n \in 1 .. c - 1
  BY DEF SplitInv, SplitTypes
<1>2. /\ after \in Seq(Runes) /\ Len(after) = c - n
      /\ \A i \in 1 .. c - n : after[i] = chunk[n + i]
  BY <1>1
<1>3. /\ short \in Seq(Runes) /\ Len(short) = c - n - 1
      /\ \A i \in 1 .. c - n - 1 : short[i] = chunk[n + i]
  BY <1>1
<1>4. chunk[c] \in Runes
  BY <1>1
<1>5. Bytes(SubSeq(chunk, 1, c - 1)) < Limit
  BY DEF SplitInv, ChunkFits
<1>6. /\ Bytes(SubSeq(chunk, 1, c - 1)) = Bytes(SubSeq(chunk, 1, n)) + Bytes(short)
      /\ Bytes(SubSeq(chunk, 1, n)) >= n /\ Bytes(SubSeq(chunk, 1, n)) \in Nat /\ Bytes(short) \in Nat
  <2>1. c - 1 \in 0 .. Len(chunk) /\ n \in 0 .. c - 1
    BY <1>1
  <2> QED
    BY <1>1, <2>1, BytesBetween
<1>7. Bytes(short) + 1 < Limit
  <2> DEFINE all == Bytes(SubSeq(chunk, 1, c - 1))
             first == Bytes(SubSeq(chunk, 1, n))
             b == Bytes(short)
  <2>1. all = first + b /\ first >= n /\ first \in Nat /\ b \in Nat /\ all < Limit /\ n >= 1 /\ n \in Nat
    BY <1>1, <1>5, <1>6
  <2>2. Limit \in Nat
    BY RunesAssumption
  <2> HIDE DEF all, first, b
  <2>3. b + 1 < Limit
    BY <2>1, <2>2
  <2> QED
    BY <2>3 DEF b
<1> HIDE DEF after, short
<1>8. SubSeq(after, 1, c - n - 1) = short
  <2>0. c - n - 1 \in Nat /\ c - n - 1 <= Len(after)
    BY <1>1, <1>2
  <2>1. SubSeq(after, 1, c - n - 1) \in Seq(Runes) /\ Len(SubSeq(after, 1, c - n - 1)) = c - n - 1
    BY <1>2, <2>0
  <2>2. \A i \in 1 .. c - n - 1 : SubSeq(after, 1, c - n - 1)[i] = after[i]
    BY <1>2, <2>0
  <2>3. \A i \in 1 .. c - n - 1 : after[i] = chunk[n + i]
    BY <1>1, <1>2
  <2> QED
    BY <1>3, <2>1, <2>2, <2>3, SameElements
<1>9. after[c - n] = chunk[c]
  <2>1. c - n \in 1 .. c - n /\ n + (c - n) = c
    BY <1>1
  <2> QED
    BY <1>2, <2>1
<1>10. after = Append(short, chunk[c])
  <2>1. /\ Append(short, chunk[c]) \in Seq(Runes) /\ Len(Append(short, chunk[c])) = c - n
        /\ \A i \in 1 .. c - n - 1 : Append(short, chunk[c])[i] = short[i]
        /\ Append(short, chunk[c])[c - n] = chunk[c]
    <3>1. (c - n - 1) + 1 = c - n
      BY <1>1
    <3> QED
      BY <1>3, <1>4, <3>1, AppendPrefix
  <2>2. ASSUME NEW i \in 1 .. c - n PROVE after[i] = Append(short, chunk[c])[i]
    <3>1. i \in 1 .. c - n - 1 \/ i = c - n
      BY <1>1
    <3>2. i \in 1 .. c - n - 1 => after[i] = short[i]
      BY <1>2, <1>3, <2>2
    <3> QED
      BY <1>9, <2>1, <3>1, <3>2
  <2> QED
    BY <1>2, <2>1, <2>2, SameElements
<1>11. Bytes(after) = Bytes(short) + Width[chunk[c]]
  BY <1>3, <1>4, <1>10, BytesAppend
<1> QED
  BY <1>2, <1>4, <1>6, <1>7, <1>8, <1>9, <1>11 DEF after

LEMMA CutFits ==
    ASSUME SplitInv, NEW n \in 1 .. Len(chunk), Cuts(n)
    PROVE  ChunkFits'
<1>0. SplitTypes /\ rest # <<>> /\ CutAt(n)
  BY DEF SplitInv, Cuts
<1> DEFINE c == Len(chunk)
           after == SubSeq(chunk, n + 1, c)
<1>1. /\ Rune \in Runes /\ after \in Seq(Runes) /\ chunk' = Append(after, Rune)
      /\ chunk' \in Seq(Runes) /\ Len(chunk') = c - n + 1
      /\ chunk'[c - n + 1] = Rune
      /\ chunk \in Seq(Runes) /\ c \in Nat /\ n \in 1 .. c /\ Len(after) = c - n
  BY <1>0, CutChunk DEF SplitTypes
<1>2. newline' = 0 /\ Limit \in Nat \ {0} /\ Width[Rune] \in 1 .. 4
  BY <1>0, <1>1, RunesAssumption DEF CutAt
<1>3. Bytes(chunk') = Bytes(after) + Width[Rune]
  BY <1>1, BytesAppend
<1>4. Narrow(chunk') => Width[Rune] = 1
  <2>1. c - n + 1 \in DOMAIN chunk'
    BY <1>1
  <2> QED
    BY <1>1, <2>1 DEF Narrow
<1>5. CASE n = c
  <2>1. after = <<>> /\ Bytes(after) = 0
    <3> HIDE DEF after
    <3>1. after = <<>>
      BY <1>1, <1>5
    <3> QED
      BY <3>1, BytesNone
  <2>2. Len(chunk') - 2 <= 0 /\ Len(chunk') - 2 \in Int
    BY <1>1, <1>5
  <2>3. Bytes(SubSeq(chunk', 1, Len(chunk') - 2)) = 0
    BY <1>1, <2>2, NoBytes
  <2>4. Narrow(chunk') => Bytes(chunk') <= Limit
    BY <1>2, <1>3, <1>4, <2>1
  <2> QED
    BY <1>2, <2>3, <2>4 DEF ChunkFits, Narrow
<1>6. CASE n # c
  <2>1. n \in 1 .. c - 1 /\ newline # 0
    BY <1>1, <1>6 DEF Cuts
  <2> DEFINE b == Bytes(SubSeq(after, 1, c - n - 1))
  <2>2. /\ b \in Nat /\ b + 1 < Limit /\ Bytes(after) = b + Width[chunk[c]]
        /\ chunk[c] \in Runes /\ after[c - n] = chunk[c]
    BY <2>1, AfterCut
  <2>3. Bytes(SubSeq(chunk', 1, Len(chunk') - 2)) = b
    <3>1. Len(chunk') - 2 = c - n - 1 /\ c - n - 1 \in 0 .. Len(after)
      BY <1>1, <2>1
    <3> HIDE DEF after
    <3>2. SubSeq(chunk', 1, c - n - 1) = SubSeq(after, 1, c - n - 1)
      BY <1>1, <3>1, AppendPrefix
    <3> QED
      BY <3>1, <3>2
  <2>4. Narrow(chunk') => Width[chunk[c]] = 1
    <3>1. c - n \in DOMAIN chunk' /\ c - n \in 1 .. Len(after)
      BY <1>1, <2>1
    <3>2. chunk'[c - n] = chunk[c]
      BY <1>1, <2>2, <3>1, AppendPrefix
    <3> QED
      BY <3>1, <3>2 DEF Narrow
  <2>5. Width[chunk[c]] \in 1 .. 4
    BY <2>2, RunesAssumption
  <2>6. Narrow(chunk') => Bytes(chunk') <= Limit
    <3> DEFINE w == Width[chunk[c]]
               v == Width[Rune]
               a == Bytes(after)
               all == Bytes(chunk')
    <3>1. Narrow(chunk') => w = 1 /\ v = 1
      BY <1>4, <2>4
    <3>2. b \in Nat /\ b + 1 < Limit /\ a = b + w /\ all = a + v
      BY <1>3, <2>2
    <3> HIDE DEF b, w, v, a, all
    <3>3. Narrow(chunk') => all <= Limit
      BY <1>2, <3>1, <3>2
    <3> QED
      BY <3>3 DEF all
  <2>7. Bytes(SubSeq(chunk', 1, Len(chunk') - 2)) < Limit
    <3> HIDE DEF b
    <3>1. b < Limit
      BY <1>2, <2>2
    <3> QED
      BY <2>3, <3>1
  <2> QED
    BY <1>2, <2>6, <2>7 DEF ChunkFits, Narrow
<1> QED
  BY <1>5, <1>6

(* Named, for the provers to take as it is. *)
SameJoin(f, p, a, o, t) == ((f \o p) \o (a \o o)) \o t = (f \o (p \o a)) \o (o \o t)

LEMMA FiveParts ==
    ASSUME NEW f \in Seq(Runes), NEW p \in Seq(Runes), NEW a \in Seq(Runes), NEW o \in Seq(Runes),
           NEW t \in Seq(Runes)
    PROVE  SameJoin(f, p, a, o, t)
<1>1. /\ f \o p \in Seq(Runes) /\ a \o o \in Seq(Runes) /\ p \o a \in Seq(Runes)
      /\ (f \o p) \o a \in Seq(Runes)
  OBVIOUS
<1>2. (f \o p) \o (a \o o) = ((f \o p) \o a) \o o
  <2>1. \A g \in Seq(Runes) : g \o (a \o o) = (g \o a) \o o
    OBVIOUS
  <2> QED
    BY <1>1, <2>1
<1>3. (((f \o p) \o a) \o o) \o t = ((f \o p) \o a) \o (o \o t)
  <2>1. \A g \in Seq(Runes) : (g \o o) \o t = g \o (o \o t)
    OBVIOUS
  <2> QED
    BY <1>1, <2>1
<1>4. (f \o p) \o a = f \o (p \o a)
  OBVIOUS
<1> QED
  BY <1>2, <1>3, <1>4 DEF SameJoin

(* The first rune of s moves on. *)
Moved(f, p, a, s) == ((f \o p) \o Append(a, Head(s))) \o Tail(s) = (f \o (p \o a)) \o s

LEMMA Regroup ==
    ASSUME NEW f \in Seq(Runes), NEW p \in Seq(Runes), NEW a \in Seq(Runes),
           NEW s \in Seq(Runes), s # <<>>
    PROVE  Moved(f, p, a, s)
<1> DEFINE r == Head(s)
           t == Tail(s)
           one == <<r>>
<1>1. r \in Runes /\ t \in Seq(Runes) /\ one \in Seq(Runes)
  OBVIOUS
<1>2. s = one \o t
  <2>1. one \o t \in Seq(Runes) /\ Len(one \o t) = Len(s)
    OBVIOUS
  <2>2. \A i \in 1 .. Len(s) : s[i] = (one \o t)[i]
    OBVIOUS
  <2> QED
    BY <2>1, <2>2, SameElements
<1>3. Append(a, r) = a \o one
  OBVIOUS
<1> HIDE DEF r, t, one
<1>4. SameJoin(f, p, a, one, t)
  BY <1>1, FiveParts
<1>5. ((f \o p) \o (a \o one)) \o t = (f \o (p \o a)) \o (one \o t)
  BY <1>4 DEF SameJoin
<1>6. ((f \o p) \o Append(a, r)) \o t = (f \o (p \o a)) \o s
  BY <1>2, <1>3, <1>5
<1> QED
  BY <1>6 DEF r, t, Moved

LEMMA CutKeeps ==
    ASSUME SplitInv, NEW n \in 1 .. Len(chunk), Cuts(n)
    PROVE  SplitInv'
<1>0. SplitTypes /\ rest # <<>> /\ ~returned /\ CutAt(n)
  BY DEF SplitInv, Cuts
<1> DEFINE c == Len(chunk)
           p == SubSeq(chunk, 1, n)
           after == SubSeq(chunk, n + 1, c)
           more == Append(parts, p)
<1>1. /\ Rune \in Runes /\ Tail(rest) \in Seq(Runes)
      /\ after \in Seq(Runes) /\ chunk' = Append(after, Rune)
      /\ chunk' \in Seq(Runes) /\ Len(chunk') = c - n + 1
      /\ chunk \in Seq(Runes) /\ rest \in Seq(Runes) /\ c \in Nat /\ n \in 1 .. c
      /\ message \in Seq(Runes) /\ parts \in Seq(Seq(Runes))
  BY <1>0, CutChunk DEF SplitTypes
<1>2. /\ message' = message /\ returned' = returned /\ newline' = 0 /\ rest' = Tail(rest)
      /\ parts' = more
  BY <1>0 DEF CutAt
<1>3. p \in Seq(Runes) /\ Len(p) = n /\ p[1] = chunk[1] /\ p[n] = chunk[n] /\ chunk = p \o after
  <2>1. n \in 0 .. Len(chunk)
    BY <1>1
  <2>2. p \in Seq(Runes) /\ Len(p) = n /\ chunk = p \o after
    BY <1>1, <2>1, BytesSplit
  <2>3. p[1] = chunk[1] /\ p[n] = chunk[n]
    BY <1>1
  <2> QED
    BY <2>2, <2>3
<1> HIDE DEF p, after
<1>4. /\ more \in Seq(Seq(Runes)) /\ Len(more) = Len(parts) + 1 /\ Len(parts) \in Nat
      /\ more[Len(parts) + 1] = p /\ \A i \in 1 .. Len(parts) : more[i] = parts[i]
  BY <1>1, <1>3
<1> HIDE DEF more
<1>5. SplitTypes'
  <2>1. chunk' # <<>>
    BY <1>1
  <2> QED
    BY <1>0, <1>1, <1>2, <1>4, <2>1 DEF SplitTypes
<1>6. NewlineSeen'
  <2>1. \A i \in 1 .. Len(chunk') : chunk'[i] = Newline => i = 1
    BY DEF Cuts
  <2>2. Len(chunk') \in Nat
    BY <1>1
  <2> QED
    BY <1>2, <2>1, <2>2 DEF NewlineSeen
<1>7. ChunkFits'
  BY CutFits
<1>8. PartFits(p)
  <2>1. p # <<>>
    BY <1>1, <1>3
  <2>2. Len(p) <= Len(message)
    <3>1. c + Len(rest) <= Len(message)
      BY Unsplit
    <3> QED
      BY <1>1, <1>3, <3>1
  <2>3. ASSUME Bytes(p) > Limit PROVE ~Narrow(p) /\ Bytes(SubSeq(p, 1, Len(p) - 2)) < Limit
    <3>1. n = c
      BY <2>3 DEF Cuts, p
    <3>2. p = chunk
      BY <1>1, <3>1 DEF p
    <3>3. ~(Bytes(chunk) <= Limit)
      <4>1. Bytes(chunk) \in Nat /\ Limit \in Nat
        BY <1>1, BytesType, RunesAssumption
      <4> QED
        BY <2>3, <3>2, <4>1
    <3> QED
      BY <3>2, <3>3 DEF SplitInv, ChunkFits
  <2> QED
    BY <2>1, <2>2, <2>3 DEF PartFits
<1>9. (\A i \in 1 .. Len(parts) : PartFits(parts[i]))'
  <2>1. ASSUME NEW i \in 1 .. Len(more) PROVE PartFits(more[i])
    <3>1. i \in 1 .. Len(parts) \/ i = Len(parts) + 1
      BY <1>4
    <3>2. i \in 1 .. Len(parts) => PartFits(more[i])
      BY <1>4 DEF SplitInv
    <3> QED
      BY <1>4, <1>8, <3>1, <3>2
  <2> QED
    BY <1>2, <2>1 DEF PartFits, Narrow, Bytes
<1>10. LinesWhole'
  <2> SUFFICES ASSUME ShortLines(message)
               PROVE  /\ \A i \in 1 .. Len(more) - 1 : Last(more[i]) = Newline \/ more[i + 1][1] = Newline
                      /\ Last(more[Len(more)]) = Newline \/ chunk'[1] = Newline
    <3>1. chunk' # <<>> /\ Upcoming' = chunk'[1]
      BY <1>1 DEF Upcoming
    <3>2. ShortLines(message)' <=> ShortLines(message)
      BY <1>2 DEF ShortLines, Bytes
    <3> QED
      BY <1>2, <3>1, <3>2 DEF LinesWhole
  <2>1. Last(more[Len(more)]) = Newline \/ chunk'[1] = Newline
    <3>1. chunk[n] = Newline \/ chunk'[1] = Newline
      BY DEF Cuts
    <3>2. Last(p) = chunk[n]
      BY <1>3 DEF Last
    <3> QED
      BY <1>4, <3>1, <3>2
  <2>2. ASSUME NEW i \in 1 .. Len(more) - 1
        PROVE  Last(more[i]) = Newline \/ more[i + 1][1] = Newline
    <3>1. CASE i = Len(parts)
      <4>1. parts # <<>>
        BY <1>1, <1>4, <3>1
      <4>2. Last(parts[Len(parts)]) = Newline \/ Upcoming = Newline
        BY <1>0, <4>1 DEF SplitInv, LinesWhole
      <4>3. Upcoming = chunk[1]
        BY <1>1 DEF Upcoming
      <4>4. more[i] = parts[Len(parts)] /\ more[i + 1] = p
        BY <1>4, <3>1
      <4> QED
        BY <1>3, <4>2, <4>3, <4>4
    <3>2. CASE i # Len(parts)
      <4>1. i \in 1 .. Len(parts) - 1 /\ i \in 1 .. Len(parts) /\ i + 1 \in 1 .. Len(parts)
        BY <1>4, <3>2
      <4>2. Last(parts[i]) = Newline \/ parts[i + 1][1] = Newline
        BY <4>1 DEF SplitInv, LinesWhole
      <4> QED
        BY <1>4, <4>1, <4>2
    <3> QED
      BY <3>1, <3>2
  <2> QED
    BY <2>1, <2>2
<1>11. JoinsToMessage'
  <2> DEFINE f == FlattenSeq(parts)
  <2>1. f \in Seq(Runes)
    BY <1>1, FlattenType
  <2>2. FlattenSeq(more) = f \o p
    BY <1>1, <1>3, FlattenAppend DEF more
  <2>3. message = (f \o (p \o after)) \o rest
    BY <1>3 DEF SplitInv, JoinsToMessage
  <2> HIDE DEF f
  <2>4. Moved(f, p, after, rest)
    BY <1>0, <1>1, <1>3, <2>1, Regroup
  <2>5. ((f \o p) \o chunk') \o rest' = message'
    BY <1>1, <1>2, <2>3, <2>4 DEF Moved, Rune
  <2> QED
    BY <1>2, <2>2, <2>5 DEF JoinsToMessage
<1> QED
  BY <1>5, <1>6, <1>7, <1>9, <1>10, <1>11 DEF SplitInv

(* With the message and the parts as they were, the parts are as good. *)
LEMMA SameParts ==
    ASSUME message' = message, parts' = parts,
           \A i \in 1 .. Len(parts) : PartFits(parts[i])
    PROVE  /\ (\A i \in 1 .. Len(parts) : PartFits(parts[i]))'
           /\ ShortLines(message)' <=> ShortLines(message)
<1>1. \A i \in 1 .. Len(parts) : PartFits(parts[i])'
  BY DEF PartFits, Narrow, Bytes
<1>2. ShortLines(message)' <=> ShortLines(message)
  BY DEF ShortLines, Bytes
<1> QED
  BY <1>1, <1>2

LEMMA AdvanceKeeps ==
    ASSUME SplitInv, Advance
    PROVE  SplitInv'
<1> DEFINE c == Len(chunk)
           more == Append(chunk, Rune)
<1>1. /\ chunk \in Seq(Runes) /\ rest \in Seq(Runes) /\ c \in Nat
      /\ message \in Seq(Runes) /\ parts \in Seq(Seq(Runes))
      /\ rest # <<>> /\ ~returned
  BY DEF SplitInv, SplitTypes, Advance
<1>2. /\ message' = message /\ returned' = returned /\ newline' = LastNewline /\ rest' = Tail(rest)
      /\ parts' = parts /\ chunk' = more /\ ~(Bytes(chunk) >= Limit)
  BY DEF Advance, Full
<1>3. Rune \in Runes /\ Tail(rest) \in Seq(Runes) /\ Rune = rest[1]
  BY <1>1 DEF Rune
<1>4. /\ more \in Seq(Runes) /\ Len(more) = c + 1
      /\ \A i \in 1 .. c : more[i] = chunk[i]
      /\ more[c + 1] = Rune
      /\ \A n \in 0 .. c : SubSeq(more, 1, n) = SubSeq(chunk, 1, n)
  BY <1>1, <1>3, AppendPrefix
<1>5. /\ Bytes(more) = Bytes(chunk) + Width[Rune] /\ Bytes(chunk) \in Nat /\ Limit \in Nat \ {0}
      /\ Width[Rune] \in 1 .. 4 /\ Bytes(chunk) < Limit
  <2>1. Bytes(chunk) \in Nat /\ Limit \in Nat \ {0} /\ Width[Rune] \in 1 .. 4
    BY <1>1, <1>3, BytesType, RunesAssumption
  <2> QED
    BY <1>1, <1>2, <1>3, <2>1, BytesAppend
<1> HIDE DEF more
<1>6. SplitTypes'
  <2>1. chunk' # <<>> /\ chunk' \in Seq(Runes)
    BY <1>1, <1>2, <1>4
  <2>2. returned \in BOOLEAN
    BY DEF SplitInv, SplitTypes
  <2> QED
    BY <1>1, <1>2, <1>3, <2>1, <2>2 DEF SplitTypes
<1>7. NewlineSeen'
  <2>1. CASE Rune = Newline
    BY <1>1, <1>2, <1>4, <2>1 DEF NewlineSeen, LastNewline
  <2>2. CASE Rune # Newline
    <3>1. LastNewline = newline /\ newline \in 0 .. c /\ newline \in 0 .. c + 1
      BY <1>1, <2>2 DEF LastNewline, SplitInv, NewlineSeen
    <3>2. newline # 0 => more[newline] = Newline
      BY <1>4, <3>1 DEF SplitInv, NewlineSeen
    <3>3. ASSUME NEW i \in newline + 1 .. c + 1, more[i] = Newline
          PROVE  newline = 0 /\ i = 1
      <4>1. i # c + 1
        BY <1>4, <2>2, <3>3
      <4>2. i \in newline + 1 .. c /\ i \in 1 .. c
        BY <1>1, <3>1, <4>1
      <4> QED
        BY <1>4, <3>3, <4>2 DEF SplitInv, NewlineSeen
    <3> QED
      BY <1>2, <1>4, <3>1, <3>2, <3>3 DEF NewlineSeen
  <2> QED
    BY <2>1, <2>2
<1>8. ChunkFits'
  <2>1. Bytes(SubSeq(more, 1, Len(more) - 2)) < Limit
    <3>1. CASE c = 0
      <4>1. Len(more) - 2 \in Int /\ Len(more) - 2 <= 0
        BY <1>4, <3>1
      <4>2. Bytes(SubSeq(more, 1, Len(more) - 2)) = 0
        BY <1>4, <4>1, NoBytes
      <4> QED
        BY <1>5, <4>2
    <3>2. CASE c # 0
      <4>1. Len(more) - 2 = c - 1 /\ c - 1 \in 0 .. c /\ c \in 0 .. c /\ c - 1 \in 0 .. Len(chunk)
        BY <1>1, <1>4, <3>2
      <4>2. SubSeq(more, 1, Len(more) - 2) = SubSeq(chunk, 1, c - 1)
        BY <1>4, <4>1
      <4> DEFINE b == Bytes(SubSeq(chunk, 1, c - 1))
                 l == Bytes(SubSeq(chunk, c - 1 + 1, c))
      <4>3. Bytes(SubSeq(chunk, 1, c)) = b + l /\ b \in Nat /\ l \in Nat
        BY <1>1, <4>1, BytesBetween
      <4>4. SubSeq(chunk, 1, c) = chunk
        BY <1>1
      <4>5. b + l < Limit
        BY <1>5, <4>3, <4>4
      <4> HIDE DEF l, b
      <4>6. b < Limit
        BY <1>5, <4>3, <4>5
      <4> QED
        BY <4>2, <4>6 DEF b
    <3> QED
      BY <3>1, <3>2
  <2>2. Bytes(SubSeq(more, 1, Len(more) - 1)) < Limit
    <3>1. Len(more) - 1 = c /\ c \in 0 .. c
      BY <1>1, <1>4
    <3>2. SubSeq(more, 1, c) = SubSeq(chunk, 1, c) /\ SubSeq(chunk, 1, c) = chunk
      BY <1>1, <1>4, <3>1
    <3> QED
      BY <1>5, <3>1, <3>2
  <2>3. Narrow(more) => Bytes(more) <= Limit
    <3>1. Narrow(more) => Width[Rune] = 1
      <4>1. c + 1 \in DOMAIN more
        BY <1>1, <1>4
      <4> QED
        BY <1>4, <4>1 DEF Narrow
    <3> QED
      BY <1>5, <3>1
  <2> QED
    BY <1>2, <2>1, <2>2, <2>3 DEF ChunkFits, Narrow, Bytes
<1>9. /\ (\A i \in 1 .. Len(parts) : PartFits(parts[i]))'
      /\ ShortLines(message)' <=> ShortLines(message)
  BY <1>2, SameParts DEF SplitInv
<1>10. LinesWhole'
  <2>1. Upcoming' = Upcoming
    <3>1. more # <<>>
      BY <1>1, <1>4
    <3>2. chunk # <<>> => more[1] = chunk[1]
      BY <1>1, <1>4
    <3>3. chunk = <<>> => more[1] = rest[1]
      BY <1>3, <1>4
    <3> QED
      BY <1>2, <3>1, <3>2, <3>3 DEF Upcoming
  <2> QED
    BY <1>2, <1>9, <2>1 DEF SplitInv, LinesWhole
<1>11. JoinsToMessage'
  <2> DEFINE f == FlattenSeq(parts)
  <2>1. f \in Seq(Runes)
    BY <1>1, FlattenType
  <2>2. message = (f \o chunk) \o rest
    BY DEF SplitInv, JoinsToMessage
  <2> HIDE DEF f
  <2>3. Moved(f, <<>>, chunk, rest)
    <3>1. <<>> \in Seq(Runes)
      OBVIOUS
    <3> QED
      BY <1>1, <2>1, <3>1, Regroup
  <2>4. f \o <<>> = f /\ <<>> \o chunk = chunk
    BY <1>1, <2>1
  <2>5. (f \o chunk') \o rest' = message'
    BY <1>2, <2>2, <2>3, <2>4 DEF Moved, Rune, more
  <2> QED
    BY <1>2, <2>5 DEF JoinsToMessage, f
<1> QED
  BY <1>6, <1>7, <1>8, <1>9, <1>10, <1>11 DEF SplitInv

LEMMA EmptyChunk ==
    ASSUME chunk' = <<>>, newline' = 0
    PROVE  NewlineSeen' /\ ChunkFits'
<1>1. \A s \in Seq(Runes), n \in Int : n <= 0 => Bytes(SubSeq(s, 1, n)) = 0
  BY NoBytes
<1>2. <<>> \in Seq(Runes) /\ Len(<<>>) - 2 \in Int /\ Len(<<>>) - 2 <= 0
  OBVIOUS
<1>3. Bytes(SubSeq(<<>>, 1, Len(<<>>) - 2)) = 0
  BY <1>1, <1>2
<1>4. Limit \in Nat \ {0} /\ Bytes(<<>>) = 0
  BY BytesNone, RunesAssumption
<1>5. ChunkFits'
  BY <1>3, <1>4 DEF ChunkFits, Narrow, Bytes
<1>6. NewlineSeen'
  BY DEF NewlineSeen
<1> QED
  BY <1>5, <1>6

LEMMA ReturnKeeps ==
    ASSUME SplitInv, Return
    PROVE  SplitInv'
<1> DEFINE more == Append(parts, chunk)
<1>1. /\ chunk \in Seq(Runes) /\ chunk # <<>> /\ message \in Seq(Runes) /\ parts \in Seq(Seq(Runes))
      /\ rest = <<>> /\ ~returned /\ Len(chunk) \in Nat \ {0}
  BY DEF SplitInv, SplitTypes, Return
<1>2. /\ message' = message /\ returned' = TRUE /\ newline' = 0 /\ rest' = <<>>
      /\ parts' = more /\ chunk' = <<>> /\ Bytes(chunk) <= Limit
  BY <1>1 DEF Return
<1>3. /\ more \in Seq(Seq(Runes)) /\ Len(more) = Len(parts) + 1 /\ Len(parts) \in Nat
      /\ more[Len(parts) + 1] = chunk /\ \A i \in 1 .. Len(parts) : more[i] = parts[i]
  BY <1>1
<1> HIDE DEF more
<1>4. SplitTypes'
  <2>1. <<>> \in Seq(Runes)
    OBVIOUS
  <2> QED
    BY <1>1, <1>2, <1>3, <2>1 DEF SplitTypes
<1>5. NewlineSeen' /\ ChunkFits'
  BY <1>2, EmptyChunk
<1>6. PartFits(chunk)
  <2>1. Len(chunk) + Len(rest) <= Len(message)
    BY Unsplit
  <2>2. Len(chunk) <= Len(message)
    BY <1>1, <2>1
  <2>3. Bytes(chunk) \in Nat /\ Limit \in Nat
    BY <1>1, BytesType, RunesAssumption
  <2>4. ~(Bytes(chunk) > Limit)
    BY <1>2, <2>3
  <2> QED
    BY <1>1, <2>2, <2>4 DEF PartFits
<1>7. (\A i \in 1 .. Len(parts) : PartFits(parts[i]))'
  <2>1. ASSUME NEW i \in 1 .. Len(more) PROVE PartFits(more[i])
    <3>1. i \in 1 .. Len(parts) \/ i = Len(parts) + 1
      BY <1>3
    <3>2. i \in 1 .. Len(parts) => PartFits(more[i])
      BY <1>3 DEF SplitInv
    <3> QED
      BY <1>3, <1>6, <3>1, <3>2
  <2> QED
    BY <1>2, <2>1 DEF PartFits, Narrow, Bytes
<1>8. LinesWhole'
  <2> SUFFICES ASSUME ShortLines(message), NEW i \in 1 .. Len(more) - 1
               PROVE  Last(more[i]) = Newline \/ more[i + 1][1] = Newline
    <3>1. ShortLines(message)' <=> ShortLines(message)
      BY <1>2 DEF ShortLines, Bytes
    <3> QED
      BY <1>2, <3>1 DEF LinesWhole
  <2>1. CASE i = Len(parts)
    <3>1. parts # <<>>
      BY <1>1, <1>3, <2>1
    <3>2. Last(parts[Len(parts)]) = Newline \/ Upcoming = Newline
      BY <1>1, <3>1 DEF SplitInv, LinesWhole
    <3>3. Upcoming = chunk[1]
      BY <1>1 DEF Upcoming
    <3>4. more[i] = parts[Len(parts)] /\ more[i + 1] = chunk
      BY <1>3, <2>1
    <3> QED
      BY <3>2, <3>3, <3>4
  <2>2. CASE i # Len(parts)
    <3>1. i \in 1 .. Len(parts) - 1 /\ i \in 1 .. Len(parts) /\ i + 1 \in 1 .. Len(parts)
      BY <1>3, <2>2
    <3>2. Last(parts[i]) = Newline \/ parts[i + 1][1] = Newline
      BY <3>1 DEF SplitInv, LinesWhole
    <3> QED
      BY <1>3, <3>1, <3>2
  <2> QED
    BY <2>1, <2>2
<1>9. JoinsToMessage'
  <2> DEFINE f == FlattenSeq(parts)
  <2>1. f \in Seq(Runes)
    BY <1>1, FlattenType
  <2>2. FlattenSeq(more) = f \o chunk
    BY <1>1, FlattenAppend DEF more
  <2>3. message = (f \o chunk) \o <<>>
    BY <1>1 DEF SplitInv, JoinsToMessage
  <2> HIDE DEF f
  <2>4. ((f \o chunk) \o <<>>) \o <<>> = (f \o chunk) \o <<>>
    BY <1>1, <2>1
  <2> QED
    BY <1>2, <2>2, <2>3, <2>4 DEF JoinsToMessage
<1> QED
  BY <1>4, <1>5, <1>7, <1>8, <1>9 DEF SplitInv

LEMMA RecurseKeeps ==
    ASSUME SplitInv, Recurse
    PROVE  SplitInv'
<1>1. /\ chunk \in Seq(Runes) /\ chunk # <<>> /\ message \in Seq(Runes) /\ parts \in Seq(Seq(Runes))
      /\ rest = <<>> /\ ~returned
  BY DEF SplitInv, SplitTypes, Recurse
<1>2. /\ message' = message /\ returned' = returned /\ newline' = 0 /\ rest' = chunk
      /\ parts' = parts /\ chunk' = <<>>
  BY <1>1 DEF Recurse
<1>3. SplitTypes'
  <2>1. <<>> \in Seq(Runes) /\ returned \in BOOLEAN
    BY DEF SplitInv, SplitTypes
  <2> QED
    BY <1>1, <1>2, <2>1 DEF SplitTypes
<1>4. NewlineSeen' /\ ChunkFits'
  BY <1>2, EmptyChunk
<1>5. /\ (\A i \in 1 .. Len(parts) : PartFits(parts[i]))'
      /\ ShortLines(message)' <=> ShortLines(message)
  BY <1>2, SameParts DEF SplitInv
<1>6. LinesWhole'
  <2>1. Upcoming' = Upcoming
    BY <1>1, <1>2 DEF Upcoming
  <2> QED
    BY <1>2, <1>5, <2>1 DEF SplitInv, LinesWhole
<1>7. JoinsToMessage'
  <2> DEFINE f == FlattenSeq(parts)
  <2>1. f \in Seq(Runes)
    BY <1>1, FlattenType
  <2>2. message = (f \o chunk) \o <<>>
    BY <1>1 DEF SplitInv, JoinsToMessage
  <2> HIDE DEF f
  <2>3. (f \o <<>>) \o chunk = (f \o chunk) \o <<>>
    BY <1>1, <2>1
  <2>4. (f \o chunk') \o rest' = message'
    BY <1>2, <2>2, <2>3
  <2> QED
    BY <1>2, <2>4 DEF JoinsToMessage, f
<1> QED
  BY <1>3, <1>4, <1>5, <1>6, <1>7 DEF SplitInv

LEMMA FlattenOne ==
    ASSUME NEW s \in Seq(Runes)
    PROVE  FlattenSeq(<<s>>) = s
<1>1. <<>> \in Seq(Seq(Runes)) /\ Append(<<>>, s) = <<s>> /\ <<>> \o s = s
  OBVIOUS
<1>2. FlattenSeq(Append(<<>>, s)) = FlattenSeq(<<>>) \o s
  BY <1>1, FlattenAppend
<1> QED
  BY <1>1, <1>2, FlattenNone

LEMMA SplitBegins ==
    ASSUME NEW text \in Seq(Runes), Split(text)
    PROVE  SplitInv'
<1>1. message' = text /\ chunk' = <<>> /\ newline' = 0
  BY DEF Split
<1>2. NewlineSeen' /\ ChunkFits'
  BY <1>1, EmptyChunk
<1>3. Bytes(text) \in Nat /\ Limit \in Nat
  BY BytesType, RunesAssumption
<1>4. <<>> \in Seq(Runes) /\ <<>> \in Seq(Seq(Runes)) /\ Len(<<>>) = 0
  OBVIOUS
<1>5. CASE Bytes(text) <= Limit
  <2>1. parts' = <<text>> /\ rest' = <<>> /\ returned' = TRUE
    BY <1>5 DEF Split
  <2>2. <<text>> \in Seq(Seq(Runes)) /\ Len(<<text>>) = 1 /\ <<text>>[1] = text
    OBVIOUS
  <2>3. SplitTypes'
    BY <1>1, <1>4, <2>1, <2>2 DEF SplitTypes
  <2>4. PartFits(text)'
    <3>1. Len(text) \in Nat
      OBVIOUS
    <3>2. ~(Bytes(text) > Limit)
      BY <1>3, <1>5
    <3> QED
      BY <1>1, <3>1, <3>2 DEF PartFits, Bytes
  <2>5. (\A i \in 1 .. Len(parts) : PartFits(parts[i]))'
    <3>1. \A i \in 1 .. Len(<<text>>) : i = 1
      BY <2>2
    <3> QED
      BY <2>1, <2>2, <2>4, <3>1 DEF PartFits
  <2>6. LinesWhole'
    BY <2>1, <2>2 DEF LinesWhole
  <2>7. JoinsToMessage'
    <3>1. FlattenSeq(<<text>>) = text
      BY FlattenOne
    <3>2. (text \o <<>>) \o <<>> = text
      OBVIOUS
    <3> QED
      BY <1>1, <2>1, <3>1, <3>2 DEF JoinsToMessage
  <2> QED
    BY <1>2, <2>3, <2>5, <2>6, <2>7 DEF SplitInv
<1>6. CASE ~(Bytes(text) <= Limit)
  <2>1. parts' = <<>> /\ rest' = text /\ returned' = FALSE
    BY <1>6 DEF Split
  <2>2. text # <<>>
    BY <1>3, <1>6, BytesNone
  <2>3. SplitTypes'
    BY <1>1, <1>4, <2>1, <2>2 DEF SplitTypes
  <2>4. (\A i \in 1 .. Len(parts) : PartFits(parts[i]))'
    BY <1>4, <2>1
  <2>5. LinesWhole'
    BY <1>4, <2>1 DEF LinesWhole
  <2>6. JoinsToMessage'
    <3>1. (<<>> \o <<>>) \o text = text
      OBVIOUS
    <3> QED
      BY <1>1, <2>1, <3>1, FlattenNone DEF JoinsToMessage
  <2> QED
    BY <1>2, <2>3, <2>4, <2>5, <2>6 DEF SplitInv
<1> QED
  BY <1>5, <1>6

LEMMA SplitStutters ==
    ASSUME SplitInv, UNCHANGED splitVars
    PROVE  SplitInv'
<1>1. /\ message' = message /\ parts' = parts /\ chunk' = chunk /\ newline' = newline
      /\ rest' = rest /\ returned' = returned
  BY DEF splitVars
<1>2. SplitTypes' /\ NewlineSeen' /\ JoinsToMessage'
  BY <1>1 DEF SplitInv, SplitTypes, NewlineSeen, JoinsToMessage
<1>3. ChunkFits'
  BY <1>1 DEF SplitInv, ChunkFits, Narrow, Bytes
<1>4. /\ (\A i \in 1 .. Len(parts) : PartFits(parts[i]))'
      /\ ShortLines(message)' <=> ShortLines(message)
  BY <1>1, SameParts DEF SplitInv
<1>5. LinesWhole'
  BY <1>1, <1>4 DEF SplitInv, LinesWhole, Upcoming
<1> QED
  BY <1>2, <1>3, <1>4, <1>5 DEF SplitInv

LEMMA SplitStepKeeps ==
    ASSUME SplitInv, SplitStep
    PROVE  SplitInv'
<1>1. CASE Advance
  BY <1>1, AdvanceKeeps
<1>2. CASE CutAfterNewline
  BY <1>2, AfterNewlineCuts, CutKeeps
<1>3. CASE CutBeforeNewline
  BY <1>3, BeforeNewlineCuts, CutKeeps
<1>4. CASE CutHere
  BY <1>4, HereCuts, CutKeeps
<1>5. CASE Return
  BY <1>5, ReturnKeeps
<1>6. CASE Recurse
  BY <1>6, RecurseKeeps
<1> QED
  BY <1>1, <1>2, <1>3, <1>4, <1>5, <1>6 DEF SplitStep

-----------------------------------------------------------------------------
(* Sequences of any records *)
IsSequence(s) == \E S : s \in Seq(S)

LEMMA NothingSequence == IsSequence(<<>>)
<1>1. <<>> \in Seq({})
  OBVIOUS
<1> QED
  BY <1>1 DEF IsSequence

LEMMA Appended ==
    ASSUME NEW s, IsSequence(s), NEW x
    PROVE  /\ IsSequence(Append(s, x))
           /\ Len(Append(s, x)) = Len(s) + 1
           /\ Len(s) \in Nat
           /\ Append(s, x)[Len(s) + 1] = x
           /\ \A i \in 1 .. Len(s) : Append(s, x)[i] = s[i]
<1>1. PICK S : s \in Seq(S)
  BY DEF IsSequence
<1>2. s \in Seq(S \union {x})
  BY <1>1
<1>3. Append(s, x) \in Seq(S \union {x})
  BY <1>2
<1> QED
  BY <1>1, <1>2, <1>3 DEF IsSequence

LEMMA Tailed ==
    ASSUME NEW s, IsSequence(s), s # <<>>
    PROVE  /\ IsSequence(Tail(s))
           /\ Len(s) \in Nat \ {0} /\ Len(Tail(s)) = Len(s) - 1
           /\ Head(s) = s[1]
           /\ \A i \in 1 .. Len(Tail(s)) : Tail(s)[i] = s[i + 1]
<1>1. PICK S : s \in Seq(S)
  BY DEF IsSequence
<1> QED
  BY <1>1 DEF IsSequence

LEMMA Concatenated ==
    ASSUME NEW s, IsSequence(s), NEW t, IsSequence(t)
    PROVE  /\ IsSequence(s \o t)
           /\ Len(s) \in Nat /\ Len(t) \in Nat /\ Len(s \o t) = Len(s) + Len(t)
           /\ \A i \in 1 .. Len(s) : (s \o t)[i] = s[i]
           /\ \A i \in 1 .. Len(t) : (s \o t)[Len(s) + i] = t[i]
<1>1. PICK S : s \in Seq(S)
  BY DEF IsSequence
<1>2. PICK T : t \in Seq(T)
  BY DEF IsSequence
<1>3. s \in Seq(S \union T) /\ t \in Seq(S \union T)
  BY <1>1, <1>2
<1>4. s \o t \in Seq(S \union T)
  BY <1>3
<1> QED
  BY <1>3, <1>4 DEF IsSequence

-----------------------------------------------------------------------------
(* How a request is routed, and its interaction. *)
Public(e) == e.command = "search" \/ (e.command = "sell" /\ ~e.blank)

Route ==
    /\ event \in Events \union {NoEvent}
    /\ step = "idle" <=> event = NoEvent
    /\ via = "telegram" <=> event.by \in {"telegram", "none"}
    /\ via \in {"telegram", "channel", "followup", "response"}
    /\ via \in {"followup", "response"} => Interaction(event)
    /\ interaction \in {"none", "open", "public", "private", "answered", "deleted"}
    /\ interaction = "none" <=> ~Interaction(event)
    /\ via = "followup" => Defers(event)
    /\ step = "open" => OpensModal(event)
    /\ step \in {"defer", "delete"} => via = "followup"
    /\ step \in {"run", "next", "split", "send", "delete", "bulk"} => ~OpensModal(event)
    /\ step \in {"open", "defer", "run"} /\ Interaction(event) => via # "channel"
    /\ step = "run" /\ ReachesStorage(event) => interaction # "open"
    /\ Placeholder => /\ via = "followup"
                      /\ event.command \in {"search", "sell", "deckbox"}
                      /\ interaction = "private" <=> event.command = "deckbox"
    /\ work \/ step = "bulk" => event.command = "suggestdeckbox" /\ via # "followup"

LEMMA InitRoute == Init => Route
BY DEF Init, Route, NoEvent, Interaction, Placeholder

LEMMA NextRoute == Route /\ [Next]_vars => Route'
<1> SUFFICES ASSUME Route, [Next]_vars PROVE Route'
  OBVIOUS
<1>1. ASSUME NEW e \in Events, Receive(e) PROVE Route'
  <2>1. /\ e.by \in {"telegram", "message", "slash", "modal"} /\ e.command \in Commands
        /\ e # NoEvent
    BY DEF Events, NoEvent
  <2>2. event' = e /\ step = "idle" /\ UNCHANGED work /\ ~work
    BY <1>1 DEF Receive, Route, NoEvent
  <2>3. interaction' = IF Interaction(e) THEN "open" ELSE "none"
    BY <1>1 DEF Receive
  <2>4. via' = CASE e.by = "telegram" -> "telegram"
                 [] e.by = "message"  -> "channel"
                 [] OTHER             -> IF Defers(e) THEN "followup" ELSE "response"
    BY <1>1 DEF Receive
  <2>5. step' = CASE OpensModal(e) -> "open" [] Defers(e) -> "defer" [] OTHER -> "run"
    BY <1>1 DEF Receive
  <2>6. Interaction(e) <=> e.by \notin {"telegram", "message"}
    BY <2>1 DEF Interaction
  <2>7. Defers(e) => Interaction(e) /\ ~OpensModal(e)
    BY DEF Defers, Interaction, OpensModal
  <2>8. Interaction(e) /\ ReachesStorage(e) => Defers(e) \/ OpensModal(e)
    BY <2>1 DEF Events, Interaction, ReachesStorage, Defers
  <2>9. OpensModal(e) => Interaction(e)
    BY DEF OpensModal, Interaction
  <2> HIDE <1>1
  <2>10. step' \in {"open", "defer", "run"} /\ (step' = "open" <=> OpensModal(e)) /\ (step' = "defer" <=> Defers(e))
    BY <2>5, <2>7
  <2>11. via' \in {"telegram", "channel", "followup", "response"}
         /\ (via' = "telegram" <=> e.by = "telegram")
         /\ (via' = "channel" <=> e.by = "message")
         /\ (via' \in {"followup", "response"} => Interaction(e))
         /\ (Defers(e) <=> via' = "followup")
    BY <2>1, <2>4, <2>6, <2>7
  <2> QED
    BY <2>1, <2>2, <2>3, <2>6, <2>8, <2>9, <2>10, <2>11 DEF Route, Placeholder, NoEvent
<1>2. ASSUME OpenModal \/ Defer \/ DeletePlaceholder PROVE Route'
  <2>1. event # NoEvent /\ UNCHANGED <<event, via, work>>
    BY <1>2 DEF OpenModal, Defer, DeletePlaceholder, Route
  <2>2. CASE OpenModal
    BY <2>1, <2>2 DEF OpenModal, Route, Placeholder, OpensModal, Interaction
  <2>3. CASE Defer
    <3>1. Defers(event) /\ via = "followup" /\ step' = "run"
          /\ interaction' = IF event.command = "deckbox" THEN "private" ELSE "public"
      BY <2>3 DEF Defer, Route
    <3>2. event.command \in {"search", "sell", "deckbox"} /\ ~OpensModal(event) /\ Interaction(event)
      BY <3>1 DEF Defers, OpensModal, Interaction
    <3>3. UNCHANGED work
      BY <2>3 DEF Defer
    <3> QED
      BY <2>1, <3>1, <3>2, <3>3 DEF Route, Placeholder
  <2>4. CASE DeletePlaceholder
    BY <2>1, <2>4 DEF DeletePlaceholder, Route, Placeholder
  <2> QED
    BY <1>2, <2>2, <2>3, <2>4
<1>3. ASSUME Run PROVE Route'
  BY <1>3 DEF Run, Route, Placeholder, Defers, Suggests
<1>4. ASSUME RunSuggested PROVE Route'
  BY <1>4 DEF RunSuggested, Route, Placeholder
<1>5. ASSUME SendInteraction PROVE Route'
  BY <1>5 DEF SendInteraction, Route, Placeholder
<1>6. ASSUME /\ UNCHANGED <<event, via, interaction, work>>
             /\ step # "idle" /\ step' \notin {"idle", "defer", "run"}
             /\ step' \in {"next", "split", "send", "delete"} =>
                    step \in {"next", "split", "send", "delete", "bulk"}
             /\ step' = "open" => step = "open"
             /\ step' = "delete" => step = "delete" \/ via = "followup"
             /\ step' = "bulk" => step = "bulk" \/ work
             /\ step' = "bulk" => step \in {"next", "split", "send", "delete", "bulk"}
      PROVE  Route'
  BY <1>6 DEF Route, Placeholder
<1>7. ASSUME AcknowledgeFails \/ DeleteFails \/ SkipEmpty \/ TakeReply \/ Cut \/ TakeParts \/ AllTaken
      PROVE  Route'
  BY <1>6, <1>7 DEF AcknowledgeFails, DeleteFails, SkipEmpty, TakeReply, Cut, TakeParts, AllTaken, delivery
<1>8. ASSUME \/ SendTelegram \/ SendTelegramFails \/ SendChannel \/ SendDiscordFails
             \/ NextReply \/ Answered \/ Crash
      PROVE  Route'
  BY <1>6, <1>8 DEF SendTelegram, SendTelegramFails, SendChannel, SendDiscordFails, NextReply, Answered, Crash
<1>9. ASSUME vars' = vars PROVE Route'
  BY <1>9 DEF vars, delivery, Route, Placeholder
<1> QED
  BY <1>1, <1>2, <1>3, <1>4, <1>5, <1>7, <1>8, <1>9 DEF Next, Serve, Ended
-----------------------------------------------------------------------------
(* SplitMessage returns at least one part. *)
PartsCut ==
    /\ IsSequence(parts)
    /\ returned => rest = <<>>
    /\ step = "split" /\ returned => parts # <<>>

LEMMA InitPartsCut == Init => PartsCut
BY DEF Init, PartsCut, IsSequence

LEMMA NextPartsCut == PartsCut /\ [Next]_vars => PartsCut'
<1> SUFFICES ASSUME PartsCut, [Next]_vars PROVE PartsCut'
  OBVIOUS
<1>1. ASSUME TakeReply PROVE PartsCut'
  <2>1. \A text : IsSequence(<<text>>) /\ <<text>> # <<>> /\ IsSequence(<<>>)
    <3> TAKE text
    <3>1. <<text>> \in Seq({text}) /\ <<>> \in Seq({text})
      OBVIOUS
    <3> QED
      BY <3>1 DEF IsSequence
  <2> QED
    BY <1>1, <2>1 DEF TakeReply, Split, PartsCut
<1>2. ASSUME Cut PROVE PartsCut'
  <2>1. step = "split" /\ step' = step
    BY <1>2 DEF Cut, delivery
  <2>2. ASSUME Advance \/ Recurse PROVE PartsCut'
    BY <2>1, <2>2 DEF Advance, Recurse, PartsCut
  <2>3. ASSUME CutAfterNewline \/ CutBeforeNewline \/ CutHere PROVE PartsCut'
    <3>1. ~returned /\ returned' = returned /\ \E x : parts' = Append(parts, x)
      BY <2>3 DEF CutAfterNewline, CutBeforeNewline, CutHere, CutAt, PartsCut
    <3> QED
      BY <3>1, Appended DEF PartsCut
  <2>4. ASSUME Return PROVE PartsCut'
    <3>1. rest' = <<>> /\ parts' = Append(parts, chunk)
      BY <2>4 DEF Return
    <3>2. Len(parts') > 0 /\ IsSequence(parts')
      BY <3>1, Appended DEF PartsCut
    <3> QED
      BY <3>1, <3>2 DEF PartsCut
  <2> QED
    BY <1>2, <2>2, <2>3, <2>4 DEF Cut, SplitStep
<1>3. ASSUME UNCHANGED splitVars, step' = "split" => step = "split"
      PROVE  PartsCut'
  BY <1>3 DEF splitVars, PartsCut
<1>4. ASSUME NEW e \in Events, Receive(e) PROVE PartsCut'
  BY <1>3, <1>4 DEF Receive
<1>5. ASSUME OpenModal \/ Defer \/ AcknowledgeFails \/ Run \/ RunSuggested \/ SkipEmpty \/ TakeParts \/ AllTaken
      PROVE  PartsCut'
  BY <1>3, <1>5 DEF OpenModal, Defer, AcknowledgeFails, Run, RunSuggested, SkipEmpty, TakeParts, AllTaken
<1>6. ASSUME \/ SendTelegram \/ SendTelegramFails \/ SendChannel \/ SendInteraction \/ SendDiscordFails
             \/ DeletePlaceholder \/ DeleteFails \/ NextReply \/ Answered \/ Crash
      PROVE  PartsCut'
  BY <1>3, <1>6 DEF SendTelegram, SendTelegramFails, SendChannel, SendInteraction, SendDiscordFails,
     DeletePlaceholder, DeleteFails, NextReply, Answered, Crash
<1>7. ASSUME vars' = vars PROVE PartsCut'
  BY <1>3, <1>7 DEF vars, delivery
<1> QED
  BY <1>1, <1>2, <1>4, <1>5, <1>6, <1>7 DEF Next, Serve, Ended

-----------------------------------------------------------------------------
(* What is left of the replies is the end of what the commands said. *)
Remaining ==
    /\ said \in Seq(Replies) /\ replies \in Seq(Replies)
    /\ Len(replies) <= Len(said)
    /\ \A i \in 1 .. Len(replies) : replies[i] = said[Len(said) - Len(replies) + i]
    /\ step \in {"idle", "open", "defer", "run"} => said = <<>>
    /\ step \in {"bulk", "delete"} => replies = <<>>
    /\ step = "split" => replies # <<>>

LEMMA ReplyFields ==
    ASSUME NEW text \in Seq(Runes), NEW private \in BOOLEAN, NEW quotes \in BOOLEAN
    PROVE  /\ Reply(text, private, quotes) \in Replies
           /\ Reply(text, private, quotes).private = private
           /\ Reply(text, private, quotes).text = text
BY DEF Reply, Replies

LEMMA OutcomesAreReplies ==
    ASSUME NEW e, NEW result \in Outcomes(e)
    PROVE  /\ result \in Seq(Replies)
           /\ \A i \in 1 .. Len(result) : result[i].private <=> ~Public(e)
           /\ ~Public(e) => \A i \in 1 .. Len(result) : result[i].text # <<>>
           /\ e.command = "suggestdeckbox" => result # <<>> /\ Len(result) = 1
<1>1. ASSUME NEW first \in Replies, NEW second \in Replies
      PROVE  /\ <<first>> \in Seq(Replies) /\ <<first, second>> \in Seq(Replies)
             /\ \A i \in 1 .. Len(<<first>>) : <<first>>[i] = first
             /\ \A i \in 1 .. Len(<<first, second>>) : <<first, second>>[i] \in {first, second}
             /\ <<first>> # <<>> /\ Len(<<first>>) = 1
  OBVIOUS
<1>2. ASSUME result \in Noted
      PROVE  /\ result \in Seq(Replies) /\ result # <<>> /\ Len(result) = 1
             /\ \A i \in 1 .. Len(result) : result[i].private = TRUE /\ result[i].text # <<>>
  <2>1. PICK text \in Notices : result = <<Reply(text, TRUE, FALSE)>>
    BY <1>2 DEF Noted
  <2> DEFINE notice == Reply(text, TRUE, FALSE)
  <2>2. notice \in Replies /\ notice.private = TRUE /\ notice.text # <<>>
    BY ReplyFields, NoticesAssumption
  <2>3. result = <<notice>>
    BY <2>1
  <2> HIDE DEF notice
  <2> QED
    BY <1>1, <2>2, <2>3
<1>3. ASSUME result \in Results
      PROVE  result \in Seq(Replies) /\ \A i \in 1 .. Len(result) : result[i].private = FALSE
  <2>1. CASE result = <<>>
    BY <2>1
  <2>2. ASSUME NEW main \in Texts, result = <<Reply(main, FALSE, TRUE)>>
        PROVE  result \in Seq(Replies) /\ \A i \in 1 .. Len(result) : result[i].private = FALSE
    <3> DEFINE first == Reply(main, FALSE, TRUE)
    <3>1. first \in Replies /\ first.private = FALSE
      BY ReplyFields, TextsAssumption
    <3>2. result = <<first>>
      BY <2>2
    <3> HIDE DEF first
    <3> QED
      BY <1>1, <3>1, <3>2
  <2>3. ASSUME NEW main \in Texts, NEW notFound \in Notices,
               result = <<Reply(main, FALSE, TRUE), Reply(notFound, FALSE, TRUE)>>
        PROVE  result \in Seq(Replies) /\ \A i \in 1 .. Len(result) : result[i].private = FALSE
    <3> DEFINE first  == Reply(main, FALSE, TRUE)
               second == Reply(notFound, FALSE, TRUE)
    <3>1. /\ first \in Replies /\ first.private = FALSE
          /\ second \in Replies /\ second.private = FALSE
      BY ReplyFields, TextsAssumption, NoticesAssumption
    <3>2. result = <<first, second>>
      BY <2>3
    <3> HIDE DEF first, second
    <3>3. \A i \in 1 .. Len(result) : result[i] \in {first, second}
      BY <1>1, <3>1, <3>2
    <3> QED
      BY <1>1, <3>1, <3>2, <3>3
  <2>4. \/ result = <<>>
        \/ \E main \in Texts : result = <<Reply(main, FALSE, TRUE)>>
        \/ \E main \in Texts, notFound \in Notices :
              result = <<Reply(main, FALSE, TRUE), Reply(notFound, FALSE, TRUE)>>
    BY <1>3 DEF Results, Reply
  <2> QED
    BY <2>1, <2>2, <2>3, <2>4
<1>4. CASE e.command = "search" /\ e.blank
  BY <1>4 DEF Outcomes, Public
<1>5. CASE e.command \in {"search", "sell"} /\ ~e.blank
  BY <1>3, <1>5 DEF Outcomes, Public
<1>6. CASE e.command \notin {"search", "sell"} \/ (e.command = "sell" /\ e.blank)
  BY <1>2, <1>6 DEF Outcomes, Public
<1> QED
  BY <1>4, <1>5, <1>6

LEMMA InitRemaining == Init => Remaining
BY DEF Init, Remaining

LEMMA DropReply ==
    ASSUME Remaining, replies # <<>>, replies' = Tail(replies), said' = said,
           step' \notin {"idle", "open", "defer", "run", "split", "bulk", "delete"}
    PROVE  Remaining'
<1>1. /\ Tail(replies) \in Seq(Replies)
      /\ Len(Tail(replies)) = Len(replies) - 1 /\ Len(replies) \in Nat \ {0} /\ Len(said) \in Nat
      /\ \A i \in 1 .. Len(Tail(replies)) : Tail(replies)[i] = replies[i + 1]
  BY DEF Remaining
<1>2. ASSUME NEW i \in 1 .. Len(Tail(replies))
      PROVE  Tail(replies)[i] = said[Len(said) - Len(Tail(replies)) + i]
  <2>1. i + 1 \in 1 .. Len(replies)
    BY <1>1
  <2>2. Len(said) - Len(replies) + (i + 1) = Len(said) - Len(Tail(replies)) + i
    BY <1>1
  <2> QED
    BY <1>1, <2>1, <2>2 DEF Remaining
<1> QED
  BY <1>1, <1>2 DEF Remaining

LEMMA NextRemaining == Remaining /\ [Next]_vars => Remaining'
<1> SUFFICES ASSUME Remaining, [Next]_vars PROVE Remaining'
  OBVIOUS
<1>1. ASSUME Run PROVE Remaining'
  <2>1. PICK result \in Outcomes(event) : replies' = result /\ said' = result
    BY <1>1 DEF Run
  <2> QED
    BY <1>1, <2>1, OutcomesAreReplies DEF Run, Remaining
<1>2. ASSUME RunSuggested PROVE Remaining'
  <2>1. PICK text \in Notices :
          /\ replies' = <<Reply(IF via = "telegram" THEN text ELSE Mention \o text, FALSE, TRUE)>>
          /\ said' = said \o replies'
    BY <1>2 DEF RunSuggested
  <2> DEFINE full    == IF via = "telegram" THEN text ELSE Mention \o text
               summary == Reply(full, FALSE, TRUE)
  <2>2. full \in Seq(Runes)
    BY NoticesAssumption, MentionAssumption
  <2> HIDE DEF full
  <2>3. summary \in Replies
    BY <2>2, ReplyFields
  <2>4. replies' = <<summary>> /\ said' = said \o <<summary>>
    BY <2>1 DEF full
  <2> HIDE DEF summary
  <2>5. said \in Seq(Replies) /\ Len(said) \in Nat
    BY DEF Remaining
  <2>6. /\ <<summary>> \in Seq(Replies) /\ Len(<<summary>>) = 1 /\ <<summary>>[1] = summary
    BY <2>3
  <2>7. /\ said \o <<summary>> \in Seq(Replies)
        /\ Len(said \o <<summary>>) = Len(said) + 1
        /\ (said \o <<summary>>)[Len(said) + 1] = summary
    BY <2>3, <2>5, <2>6
  <2>8. ASSUME NEW i \in 1 .. Len(replies')
        PROVE  replies'[i] = said'[Len(said') - Len(replies') + i]
    BY <2>4, <2>5, <2>6, <2>7
  <2>9. step' = "next"
    BY <1>2 DEF RunSuggested
  <2>10. /\ said' \in Seq(Replies) /\ replies' \in Seq(Replies)
         /\ Len(replies') <= Len(said')
    BY <2>4, <2>5, <2>6, <2>7
  <2> HIDE <2>1, <2>4
  <2> QED
    BY <2>8, <2>9, <2>10 DEF Remaining
<1>3. ASSUME SkipEmpty \/ TakeParts PROVE Remaining'
  BY <1>3, DropReply DEF SkipEmpty, TakeParts, Remaining
<1>4. ASSUME SendDiscordFails PROVE Remaining'
  BY <1>4 DEF SendDiscordFails, Remaining
<1>5. ASSUME UNCHANGED <<said, replies>>,
             step' \in {"idle", "open", "defer", "run"} => step \in {"idle", "open", "defer", "run"},
             step' \in {"bulk", "delete"} => replies = <<>>,
             step' = "split" => replies # <<>>
      PROVE  Remaining'
  BY <1>5 DEF Remaining
<1>6. ASSUME NEW e \in Events, Receive(e) PROVE Remaining'
  BY <1>5, <1>6 DEF Receive
<1>7. ASSUME OpenModal \/ Defer \/ AcknowledgeFails \/ TakeReply \/ Cut \/ AllTaken
      PROVE  Remaining'
  BY <1>5, <1>7 DEF OpenModal, Defer, AcknowledgeFails, TakeReply, Cut, AllTaken, Remaining, delivery
<1>8. ASSUME \/ SendTelegram \/ SendTelegramFails \/ SendChannel \/ SendInteraction
             \/ DeletePlaceholder \/ DeleteFails \/ NextReply \/ Answered \/ Crash
      PROVE  Remaining'
  BY <1>5, <1>8 DEF SendTelegram, SendTelegramFails, SendChannel, SendInteraction,
     DeletePlaceholder, DeleteFails, NextReply, Answered, Crash
<1>9. ASSUME vars' = vars PROVE Remaining'
  BY <1>5, <1>9 DEF vars, delivery, Remaining
<1> QED
  BY <1>1, <1>2, <1>3, <1>4, <1>6, <1>7, <1>8, <1>9 DEF Next, Serve, Ended

-----------------------------------------------------------------------------
(* The parts still to be sent, and those that were, are of what was said. *)
Pending ==
    /\ IsSequence(outgoing)
    /\ \A i \in 1 .. Len(outgoing) :
        /\ outgoing[i].reply \in 1 .. Len(said)
        /\ outgoing[i].private = said[outgoing[i].reply].private
    /\ step \in {"idle", "open", "defer", "run", "bulk", "delete"} => outgoing = <<>>
    /\ IsSequence(shown)
    /\ \A i \in 1 .. Len(shown) : shown[i].reply \in 1 .. Len(said)

(* TakeParts queues the parts of the first remaining reply. *)
LEMMA Taken ==
    ASSUME Remaining, PartsCut, Pending, TakeParts
    PROVE  /\ Current \in 1 .. Len(said)
           /\ IsSequence(outgoing')
           /\ Len(outgoing) \in Nat /\ Len(parts) \in Nat \ {0}
           /\ Len(outgoing') = Len(outgoing) + Len(parts)
           /\ \A i \in 1 .. Len(outgoing) : outgoing'[i] = outgoing[i]
           /\ \A i \in 1 .. Len(parts) :
                /\ outgoing'[Len(outgoing) + i].reply = Current
                /\ outgoing'[Len(outgoing) + i].private = said[Current].private
                /\ outgoing'[Len(outgoing) + i].first = (i = 1)
           /\ replyTo' = IF said[Current].replyTo THEN 1 ELSE 0
<1> DEFINE Part(i) == [reply |-> Current, part |-> parts[i], private |-> Head(replies).private,
                       first |-> i = 1, quotes |-> Head(replies).replyTo]
           taken == [i \in DOMAIN parts |-> Part(i)]
<1>1. /\ Len(said) \in Nat /\ Len(replies) \in Nat /\ Len(replies) <= Len(said) /\ replies # <<>>
      /\ Head(replies) = replies[1] /\ Len(replies) # 0
  BY DEF Remaining, TakeParts
<1>2. Current \in 1 .. Len(said) /\ Head(replies) = said[Current]
  <2>1. replies[1] = said[Len(said) - Len(replies) + 1]
    BY <1>1 DEF Remaining
  <2> QED
    BY <1>1, <2>1 DEF Current
<1>3. DOMAIN parts = 1 .. Len(parts) /\ Len(parts) \in Nat \ {0}
  <2>1. PICK S : parts \in Seq(S)
    BY DEF PartsCut, IsSequence
  <2> QED
    BY <2>1 DEF PartsCut, TakeParts
<1>4. \A i \in 1 .. Len(parts) :
        /\ Part(i).reply = Current /\ Part(i).private = said[Current].private /\ Part(i).first = (i = 1)
  BY <1>2
<1>5. outgoing' = outgoing \o taken /\ replyTo' = IF said[Current].replyTo THEN 1 ELSE 0
  BY <1>2 DEF TakeParts
<1> HIDE DEF Part
<1>6. IsSequence(taken) /\ Len(taken) = Len(parts) /\ \A i \in 1 .. Len(parts) : taken[i] = Part(i)
  <2> DEFINE Made == {Part(i) : i \in 1 .. Len(parts)}
  <2>1. \A i \in 1 .. Len(parts) : Part(i) \in Made
    OBVIOUS
  <2> HIDE DEF Made
  <2>2. taken \in [1 .. Len(parts) -> Made]
    BY <1>3, <2>1
  <2>3. taken \in Seq(Made) /\ Len(taken) = Len(parts)
    BY <1>3, <2>2
  <2> QED
    BY <1>3, <2>3 DEF IsSequence
<1> HIDE DEF taken
<1>7. /\ IsSequence(outgoing')
      /\ Len(outgoing) \in Nat /\ Len(outgoing') = Len(outgoing) + Len(taken)
      /\ \A i \in 1 .. Len(outgoing) : outgoing'[i] = outgoing[i]
      /\ \A i \in 1 .. Len(taken) : outgoing'[Len(outgoing) + i] = taken[i]
  <2>1. IsSequence(outgoing) /\ IsSequence(taken)
    BY <1>6 DEF Pending
  <2> HIDE DEF IsSequence
  <2>2. /\ IsSequence(outgoing \o taken)
        /\ Len(outgoing) \in Nat /\ Len(outgoing \o taken) = Len(outgoing) + Len(taken)
        /\ \A i \in 1 .. Len(outgoing) : (outgoing \o taken)[i] = outgoing[i]
        /\ \A i \in 1 .. Len(taken) : (outgoing \o taken)[Len(outgoing) + i] = taken[i]
    BY <2>1, Concatenated
  <2> QED
    BY <1>5, <2>2
<1>8. ASSUME NEW i \in 1 .. Len(parts) PROVE outgoing'[Len(outgoing) + i] = Part(i)
  BY <1>6, <1>7
<1> QED
  BY <1>2, <1>3, <1>4, <1>5, <1>6, <1>7, <1>8

(* A send takes the first part to be sent for the last one shown. *)
LEMMA Sent ==
    ASSUME Pending, outgoing # <<>>, outgoing' = Tail(outgoing),
           NEW ephemeral, NEW quote, Show(ephemeral, quote)
    PROVE  /\ IsSequence(outgoing') /\ IsSequence(shown')
           /\ Len(outgoing) \in Nat \ {0} /\ Len(outgoing') = Len(outgoing) - 1
           /\ \A i \in 1 .. Len(outgoing') : outgoing'[i] = outgoing[i + 1]
           /\ Len(shown) \in Nat /\ Len(shown') = Len(shown) + 1
           /\ \A i \in 1 .. Len(shown) : shown'[i] = shown[i]
           /\ shown'[Len(shown) + 1].reply = outgoing[1].reply
           /\ shown'[Len(shown) + 1].first = outgoing[1].first
           /\ shown'[Len(shown) + 1].ephemeral = ephemeral
           /\ shown'[Len(shown) + 1].quote = quote
<1> DEFINE new == [reply |-> Head(outgoing).reply, part |-> Head(outgoing).part,
                   first |-> Head(outgoing).first, ephemeral |-> ephemeral, quote |-> quote]
<1>1. shown' = Append(shown, new)
  BY DEF Show
<1>2. /\ new.reply = Head(outgoing).reply /\ new.first = Head(outgoing).first
      /\ new.ephemeral = ephemeral /\ new.quote = quote
  OBVIOUS
<1> HIDE DEF new
<1> QED
  BY <1>1, <1>2, Appended, Tailed DEF Pending

(* What was said stays, when the summary of a Suggest is added. *)
LEMMA SaidGrows ==
    ASSUME Remaining, RunSuggested
    PROVE  /\ Len(said) \in Nat /\ Len(said') = Len(said) + 1
           /\ \A i \in 1 .. Len(said) : said'[i] = said[i]
           /\ Len(replies') = 1 /\ replies'[1].private = FALSE /\ replies'[1].text # <<>>
<1>1. PICK text \in Notices :
        /\ replies' = <<Reply(IF via = "telegram" THEN text ELSE Mention \o text, FALSE, TRUE)>>
        /\ said' = said \o replies'
  BY DEF RunSuggested
<1> DEFINE full    == IF via = "telegram" THEN text ELSE Mention \o text
           summary == Reply(full, FALSE, TRUE)
<1>2. full \in Seq(Runes) /\ full # <<>>
  BY NoticesAssumption, MentionAssumption
<1> HIDE DEF full
<1>3. summary \in Replies /\ summary.private = FALSE /\ summary.text # <<>>
  BY <1>2, ReplyFields
<1>4. replies' = <<summary>> /\ said' = said \o <<summary>>
  BY <1>1 DEF full
<1> HIDE DEF summary
<1>5. said \in Seq(Replies) /\ Len(said) \in Nat
  BY DEF Remaining
<1>6. Len(<<summary>>) = 1 /\ <<summary>>[1] = summary /\ <<summary>> \in Seq(Replies)
  BY <1>3
<1>7. /\ Len(said \o <<summary>>) = Len(said) + 1
      /\ \A i \in 1 .. Len(said) : (said \o <<summary>>)[i] = said[i]
  BY <1>3, <1>5, <1>6
<1> QED
  BY <1>3, <1>4, <1>5, <1>6, <1>7

LEMMA InitPending == Init => Pending
BY NothingSequence DEF Init, Pending

LEMMA SendKeepsPending ==
    ASSUME Pending, step = "send", step' = step, said' = said, outgoing # <<>>, outgoing' = Tail(outgoing),
           NEW ephemeral, NEW quote, Show(ephemeral, quote)
    PROVE  Pending'
<1> DEFINE n == Len(shown)
<1>1. /\ IsSequence(outgoing') /\ IsSequence(shown')
      /\ Len(outgoing) \in Nat \ {0} /\ Len(outgoing') = Len(outgoing) - 1
      /\ \A i \in 1 .. Len(outgoing') : outgoing'[i] = outgoing[i + 1]
      /\ n \in Nat /\ Len(shown') = n + 1
      /\ \A i \in 1 .. n : shown'[i] = shown[i]
      /\ shown'[n + 1].reply = outgoing[1].reply
  BY Sent
<1>2. ASSUME NEW i \in 1 .. Len(outgoing')
      PROVE  /\ outgoing'[i].reply \in 1 .. Len(said')
             /\ outgoing'[i].private = said'[outgoing'[i].reply].private
  BY <1>1 DEF Pending
<1>3. ASSUME NEW i \in 1 .. Len(shown')
      PROVE  shown'[i].reply \in 1 .. Len(said')
  <2>1. CASE i = n + 1
    <3>1. 1 \in 1 .. Len(outgoing)
      BY <1>1
    <3> QED
      BY <1>1, <2>1, <3>1 DEF Pending
  <2>2. CASE i # n + 1
    <3>1. i \in 1 .. n
      BY <1>1, <2>2
    <3> QED
      BY <1>1, <3>1 DEF Pending
  <2> QED
    BY <2>1, <2>2
<1> QED
  BY <1>1, <1>2, <1>3 DEF Pending

LEMMA NextPending == Remaining /\ PartsCut /\ Pending /\ [Next]_vars => Pending'
<1> SUFFICES ASSUME Remaining, PartsCut, Pending, [Next]_vars PROVE Pending'
  OBVIOUS
<1>1. ASSUME Run PROVE Pending'
  <2>1. said = <<>> /\ outgoing = <<>>
    BY <1>1 DEF Run, Remaining, Pending
  <2>2. shown = <<>>
    <3>1. ASSUME shown # <<>> PROVE FALSE
      <4>1. PICK S : shown \in Seq(S)
        BY DEF Pending, IsSequence
      <4>2. 1 \in 1 .. Len(shown)
        BY <3>1, <4>1
      <4> QED
        BY <2>1, <4>2 DEF Pending
    <3> QED
      BY <3>1
  <2> QED
    BY <1>1, <2>1, <2>2 DEF Run, Pending
<1>2. ASSUME RunSuggested PROVE Pending'
  <2>1. outgoing = <<>>
    BY <1>2 DEF RunSuggested, Pending
  <2>2. \A i \in 1 .. Len(shown) : shown[i].reply \in 1 .. Len(said')
    BY <1>2, SaidGrows DEF Pending
  <2> QED
    BY <1>2, <2>1, <2>2 DEF RunSuggested, Pending
<1>3. ASSUME TakeParts PROVE Pending'
  <2>1. UNCHANGED <<said, shown>> /\ step' \in {"send", "next"}
    BY <1>3 DEF TakeParts
  <2> DEFINE n == Len(outgoing)
  <2>2. /\ IsSequence(outgoing') /\ n \in Nat /\ Len(parts) \in Nat
        /\ Len(outgoing') = n + Len(parts)
        /\ \A i \in 1 .. n : outgoing'[i] = outgoing[i]
        /\ \A i \in 1 .. Len(parts) : /\ outgoing'[n + i].reply = Current
                                     /\ outgoing'[n + i].private = said[Current].private
        /\ Current \in 1 .. Len(said)
    BY <1>3, Taken
  <2>3. ASSUME NEW i \in 1 .. Len(outgoing')
        PROVE  /\ outgoing'[i].reply \in 1 .. Len(said)
               /\ outgoing'[i].private = said[outgoing'[i].reply].private
    <3>1. CASE i \in 1 .. n
      BY <2>2, <3>1 DEF Pending
    <3>2. CASE i \notin 1 .. n
      <4>1. i - n \in 1 .. Len(parts) /\ i = n + (i - n)
        BY <2>2, <3>2
      <4> QED
        BY <2>2, <4>1
    <3> QED
      BY <3>1, <3>2
  <2> QED
    BY <2>1, <2>2, <2>3 DEF Pending
<1>4. ASSUME SendTelegram PROVE Pending'
  BY <1>4, SendKeepsPending DEF SendTelegram
<1>5. ASSUME SendChannel PROVE Pending'
  BY <1>5, SendKeepsPending DEF SendChannel
<1>6. ASSUME SendInteraction PROVE Pending'
  BY <1>6, SendKeepsPending DEF SendInteraction
<1>7. ASSUME SendTelegramFails \/ SendDiscordFails PROVE Pending'
  BY <1>7, NothingSequence DEF SendTelegramFails, SendDiscordFails, Pending
<1>8. ASSUME UNCHANGED <<said, outgoing, shown>>,
             step' \in {"idle", "open", "defer", "run", "bulk", "delete"} =>
                \/ step \in {"idle", "open", "defer", "run", "bulk", "delete"}
                \/ outgoing = <<>>
      PROVE  Pending'
  BY <1>8 DEF Pending
<1>9. ASSUME NEW e \in Events, Receive(e) PROVE Pending'
  BY <1>8, <1>9 DEF Receive
<1>10. ASSUME OpenModal \/ Defer \/ AcknowledgeFails \/ SkipEmpty \/ TakeReply \/ Cut \/ AllTaken
       PROVE  Pending'
  BY <1>8, <1>10 DEF OpenModal, Defer, AcknowledgeFails, SkipEmpty, TakeReply, Cut, AllTaken, delivery
<1>11. ASSUME DeletePlaceholder \/ DeleteFails \/ NextReply \/ Answered \/ Crash
       PROVE  Pending'
  BY <1>8, <1>11 DEF DeletePlaceholder, DeleteFails, NextReply, Answered, Crash
<1>12. ASSUME vars' = vars PROVE Pending'
  BY <1>8, <1>12 DEF vars, delivery
<1> QED
  BY <1>1, <1>2, <1>3, <1>4, <1>5, <1>6, <1>7, <1>9, <1>10, <1>11, <1>12 DEF Next, Serve, Ended

-----------------------------------------------------------------------------
(* What an interaction may show to all, and the visibility of what it has. *)
Privacy ==
    /\ via \in {"followup", "response"} => \A i \in 1 .. Len(said) : said[i].private <=> ~Public(event)
    /\ Interaction(event) /\ via = "channel" =>
        /\ \A i \in 1 .. Len(replies) : ~replies[i].private
        /\ \A i \in 1 .. Len(outgoing) : ~outgoing[i].private

Visible ==
    Interaction(event) =>
        /\ Placeholder => Len(shown) = 0
        /\ \A i \in 1 .. Len(shown) :
            shown[i].ephemeral = said[shown[i].reply].private \/ (BlankSell /\ i = 1)

LEMMA InitPrivacy == Init => Privacy /\ Visible
BY DEF Init, Privacy, Visible, NoEvent, Interaction

LEMMA SendKeepsPrivacy ==
    ASSUME Pending, Privacy, UNCHANGED <<event, via, replies, said>>,
           outgoing # <<>>, outgoing' = Tail(outgoing), NEW ephemeral, NEW quote, Show(ephemeral, quote)
    PROVE  Privacy'
<1>1. /\ Len(outgoing) \in Nat \ {0} /\ Len(outgoing') = Len(outgoing) - 1
      /\ \A i \in 1 .. Len(outgoing') : outgoing'[i] = outgoing[i + 1]
  BY Sent
<1>2. ASSUME NEW i \in 1 .. Len(outgoing'), \A j \in 1 .. Len(outgoing) : ~outgoing[j].private
      PROVE  ~outgoing'[i].private
  BY <1>1, <1>2
<1> QED
  BY <1>2 DEF Privacy

LEMMA NextPrivacy == Route /\ Remaining /\ PartsCut /\ Pending /\ Privacy /\ [Next]_vars => Privacy'
<1> SUFFICES ASSUME Route, Remaining, PartsCut, Pending, Privacy, [Next]_vars PROVE Privacy'
  OBVIOUS
<1>1. ASSUME Run PROVE Privacy'
  <2>1. PICK result \in Outcomes(event) : replies' = result /\ said' = result
    BY <1>1 DEF Run
  <2>2. UNCHANGED <<event, via, outgoing>> /\ outgoing = <<>>
    BY <1>1 DEF Run, Pending
  <2>3. \A i \in 1 .. Len(said') : said'[i].private <=> ~Public(event)
    BY <2>1, OutcomesAreReplies
  <2>4. ~(Interaction(event) /\ via = "channel")
    BY <1>1 DEF Run, Route
  <2> QED
    BY <2>2, <2>3, <2>4 DEF Privacy
<1>2. ASSUME RunSuggested PROVE Privacy'
  <2>1. outgoing = <<>> /\ outgoing' = outgoing /\ event' = event /\ via' \in {"telegram", "channel"}
    BY <1>2 DEF RunSuggested, Pending
  <2>2. Len(replies') = 1 /\ replies'[1].private = FALSE
    BY <1>2, SaidGrows
  <2>3. \A i \in 1 .. Len(replies') : ~replies'[i].private
    BY <2>2
  <2> QED
    BY <2>1, <2>3 DEF Privacy
<1>3. ASSUME TakeParts PROVE Privacy'
  <2>1. UNCHANGED <<event, via, said>>
    BY <1>3 DEF TakeParts
  <2>2. ASSUME Interaction(event), via = "channel"
        PROVE  /\ \A i \in 1 .. Len(replies') : ~replies'[i].private
               /\ \A i \in 1 .. Len(outgoing') : ~outgoing'[i].private
    <3>1. /\ Len(replies) \in Nat \ {0} /\ Len(replies') = Len(replies) - 1
          /\ replies[1] = said[Current] /\ replies[1].private = FALSE
          /\ \A i \in 1 .. Len(replies') : replies'[i] = replies[i + 1]
      <4>1. replies \in Seq(Replies) /\ replies # <<>> /\ replies' = Tail(replies)
        BY <1>3 DEF TakeParts, Remaining
      <4>2. Len(replies) \in Nat \ {0} /\ replies[1] \in Replies
        BY <4>1
      <4>3. replies[1] = said[Current]
        BY <4>2 DEF Remaining, Current
      <4>4. replies[1].private = FALSE
        BY <2>2, <4>2 DEF Privacy, Replies
      <4> QED
        BY <4>1, <4>2, <4>3, <4>4
    <3>2. \A i \in 1 .. Len(replies') : ~replies'[i].private
      BY <2>2, <3>1 DEF Privacy
    <3> DEFINE n == Len(outgoing)
    <3>3. /\ n \in Nat /\ Len(parts) \in Nat /\ Len(outgoing') = n + Len(parts)
          /\ \A i \in 1 .. n : outgoing'[i] = outgoing[i]
          /\ \A i \in 1 .. Len(parts) : outgoing'[n + i].private = said[Current].private
      BY <1>3, Taken
    <3>4. ASSUME NEW i \in 1 .. Len(outgoing') PROVE ~outgoing'[i].private
      <4>1. CASE i \in 1 .. n
        BY <2>2, <3>3, <4>1 DEF Privacy
      <4>2. CASE i \notin 1 .. n
        <5>1. i - n \in 1 .. Len(parts) /\ i = n + (i - n)
          BY <3>3, <4>2
        <5> QED
          BY <3>1, <3>3, <5>1
      <4> QED
        BY <4>1, <4>2
    <3> QED
      BY <3>2, <3>4
  <2> QED
    BY <2>1, <2>2 DEF Privacy
<1>4. ASSUME SkipEmpty PROVE Privacy'
  <2>1. replies \in Seq(Replies) /\ replies # <<>> /\ replies' = Tail(replies)
    BY <1>4 DEF SkipEmpty, Remaining
  <2>2. /\ Len(replies) \in Nat \ {0} /\ Len(replies') = Len(replies) - 1
        /\ \A i \in 1 .. Len(replies') : replies'[i] = replies[i + 1]
    BY <2>1
  <2> QED
    BY <1>4, <2>2 DEF SkipEmpty, Privacy
<1>5. ASSUME SendTelegram \/ SendChannel PROVE Privacy'
  BY <1>5, SendKeepsPrivacy DEF SendTelegram, SendChannel
<1>6. ASSUME SendInteraction PROVE Privacy'
  BY <1>6, SendKeepsPrivacy DEF SendInteraction
<1>7. ASSUME SendTelegramFails \/ SendDiscordFails PROVE Privacy'
  BY <1>7 DEF SendTelegramFails, SendDiscordFails, Privacy
<1>8. ASSUME UNCHANGED <<event, via, replies, outgoing, said>> PROVE Privacy'
  BY <1>8 DEF Privacy
<1>9. ASSUME NEW e \in Events, Receive(e) PROVE Privacy'
  <2>1. said = <<>> /\ replies = <<>> /\ outgoing = <<>> /\ UNCHANGED <<said, replies, outgoing>>
    BY <1>9 DEF Receive, Remaining, Pending
  <2> QED
    BY <2>1 DEF Privacy
<1>10. ASSUME OpenModal \/ Defer \/ AcknowledgeFails \/ TakeReply \/ Cut \/ AllTaken
       PROVE  Privacy'
  BY <1>8, <1>10 DEF OpenModal, Defer, AcknowledgeFails, TakeReply, Cut, AllTaken, delivery
<1>11. ASSUME DeletePlaceholder \/ DeleteFails \/ NextReply \/ Answered \/ Crash
       PROVE  Privacy'
  BY <1>8, <1>11 DEF DeletePlaceholder, DeleteFails, NextReply, Answered, Crash
<1>12. ASSUME vars' = vars PROVE Privacy'
  BY <1>8, <1>12 DEF vars, delivery
<1> QED
  BY <1>1, <1>2, <1>3, <1>4, <1>5, <1>6, <1>7, <1>9, <1>10, <1>11, <1>12 DEF Next, Serve, Ended

(* A part that is shown with the visibility its reply was meant to have.    *)
LEMMA SendKeepsVisible ==
    ASSUME Pending, Visible, UNCHANGED <<event, said>>,
           outgoing # <<>>, outgoing' = Tail(outgoing), NEW ephemeral, NEW quote, Show(ephemeral, quote),
           Interaction(event) =>
               /\ ~Placeholder'
               /\ ephemeral = outgoing[1].private \/ (BlankSell /\ Len(shown) = 0)
    PROVE  Visible'
<1> SUFFICES ASSUME Interaction(event), NEW i \in 1 .. Len(shown')
             PROVE  shown'[i].ephemeral = said[shown'[i].reply].private \/ (BlankSell /\ i = 1)
  BY DEF Visible, BlankSell
<1> DEFINE n == Len(shown)
<1>1. /\ Len(outgoing) \in Nat \ {0} /\ n \in Nat /\ Len(shown') = n + 1
      /\ \A j \in 1 .. n : shown'[j] = shown[j]
      /\ shown'[n + 1].reply = outgoing[1].reply
      /\ shown'[n + 1].ephemeral = ephemeral
  BY Sent
<1>2. outgoing[1].private = said[outgoing[1].reply].private
  BY <1>1 DEF Pending
<1>3. CASE i = n + 1
  BY <1>1, <1>2, <1>3
<1>4. CASE i # n + 1
  BY <1>1, <1>4 DEF Visible
<1> QED
  BY <1>3, <1>4

LEMMA FirstPart ==
    ASSUME Remaining, Pending, outgoing # <<>>
    PROVE  outgoing[1].private \in BOOLEAN
<1>1. 1 \in 1 .. Len(outgoing)
  BY Tailed DEF Pending
<1>2. /\ outgoing[1].reply \in 1 .. Len(said)
      /\ outgoing[1].private = said[outgoing[1].reply].private
  BY <1>1 DEF Pending
<1>3. said[outgoing[1].reply] \in Replies
  BY <1>2 DEF Remaining
<1>4. said[outgoing[1].reply].private \in BOOLEAN
  BY <1>3 DEF Replies
<1> QED
  BY <1>2, <1>4

LEMMA NextVisible ==
    Route /\ Remaining /\ Pending /\ Privacy /\ Visible /\ [Next]_vars => Visible'
<1> SUFFICES ASSUME Route, Remaining, Pending, Privacy, Visible, [Next]_vars PROVE Visible'
  OBVIOUS
<1>1. ASSUME said = <<>>, UNCHANGED shown PROVE Visible'
  <2>1. ASSUME NEW i \in 1 .. Len(shown) PROVE FALSE
    <3>1. 1 .. Len(said) = {}
      BY <1>1
    <3> QED
      BY <3>1 DEF Pending
  <2>2. Len(shown) \in Nat
    <3>1. PICK S : shown \in Seq(S)
      BY DEF Pending, IsSequence
    <3> QED
      BY <3>1
  <2>3. Len(shown) = 0
    BY <2>1, <2>2
  <2> QED
    BY <1>1, <2>1, <2>3 DEF Visible
<1>2. ASSUME Run \/ Defer \/ \E e \in Events : Receive(e) PROVE Visible'
  BY <1>1, <1>2 DEF Run, Defer, Receive, Remaining
<1>3. ASSUME RunSuggested PROVE Visible'
  BY <1>3, SaidGrows DEF RunSuggested, Visible, Pending, BlankSell, Placeholder
<1>4. ASSUME SendTelegram PROVE Visible'
  <2>1. ~Interaction(event)
    BY <1>4 DEF SendTelegram, Route, Interaction
  <2> QED
    BY <1>4, <2>1, SendKeepsVisible DEF SendTelegram
<1>5. ASSUME SendChannel PROVE Visible'
  <2>1. PICK quote : Show(FALSE, quote)
    BY <1>5 DEF SendChannel
  <2>2. outgoing # <<>> /\ outgoing' = Tail(outgoing) /\ via = "channel" /\ UNCHANGED <<event, said>>
    BY <1>5 DEF SendChannel
  <2>3. 1 \in 1 .. Len(outgoing)
    BY <2>2, Tailed DEF Pending
  <2>4. Interaction(event) => outgoing[1].private = FALSE
    <3>1. outgoing[1].private \in BOOLEAN
      BY <2>2, FirstPart
    <3> QED
      BY <2>2, <2>3, <3>1 DEF Privacy
  <2>5. ~Placeholder'
    BY <1>5 DEF SendChannel, Route, Placeholder
  <2> QED
    BY <2>1, <2>2, <2>4, <2>5, SendKeepsVisible
<1>6. ASSUME SendInteraction PROVE Visible'
  <2> DEFINE ephemeral == IF Placeholder THEN interaction = "private" ELSE Head(outgoing).private
  <2>1. /\ Show(ephemeral, 0) /\ step = "send"
        /\ outgoing # <<>> /\ outgoing' = Tail(outgoing) /\ UNCHANGED <<event, said>>
        /\ ~Placeholder'
    BY <1>6 DEF SendInteraction, Placeholder
  <2>2. 1 \in 1 .. Len(outgoing) /\ Head(outgoing) = outgoing[1]
    BY <2>1, Tailed DEF Pending
  <2>3. outgoing[1].private \in BOOLEAN
    BY <2>1, FirstPart
  <2>4. CASE ~Placeholder
    BY <2>1, <2>2, <2>4, SendKeepsVisible
  <2>5. CASE Placeholder
    <3>1. /\ event.command \in {"search", "sell", "deckbox"} /\ via = "followup"
          /\ interaction = "private" <=> event.command = "deckbox"
      BY <2>5 DEF Route
    <3>2. outgoing[1].private <=> ~Public(event)
      BY <2>2, <3>1 DEF Privacy, Pending
    <3>3. event.command = "sell" /\ event.blank => BlankSell
      <4>1. ~OpensModal(event) /\ Interaction(event)
        BY <2>1, <3>1 DEF Route
      <4> QED
        BY <4>1 DEF OpensModal, Interaction, BlankSell
    <3>4. Interaction(event) => Len(shown) = 0
      BY <2>5 DEF Visible
    <3>5. Interaction(event) => ephemeral = outgoing[1].private \/ (BlankSell /\ Len(shown) = 0)
      BY <2>3, <2>5, <3>1, <3>2, <3>3, <3>4 DEF Public
    <3> HIDE DEF ephemeral
    <3> QED
      BY <2>1, <3>5, SendKeepsVisible
  <2> QED
    BY <2>4, <2>5
<1>7. ASSUME UNCHANGED <<event, shown, said>>, Placeholder' => Placeholder PROVE Visible'
  BY <1>7 DEF Visible, BlankSell
<1>8. ASSUME OpenModal \/ AcknowledgeFails \/ SkipEmpty \/ TakeReply \/ Cut \/ TakeParts \/ AllTaken
      PROVE  Visible'
  <2>1. Placeholder' => Placeholder
    BY <1>8 DEF OpenModal, AcknowledgeFails, SkipEmpty, TakeReply, Cut, TakeParts, AllTaken, delivery,
                Placeholder
  <2> QED
    BY <1>7, <1>8, <2>1 DEF OpenModal, AcknowledgeFails, SkipEmpty, TakeReply, Cut, TakeParts, AllTaken,
                            delivery
<1>9. ASSUME \/ SendTelegramFails \/ SendDiscordFails
             \/ DeletePlaceholder \/ DeleteFails \/ NextReply \/ Answered \/ Crash
      PROVE  Visible'
  <2>1. Placeholder' => Placeholder
    BY <1>9 DEF SendTelegramFails, SendDiscordFails, DeletePlaceholder, DeleteFails, NextReply, Answered,
                Crash, Placeholder
  <2> QED
    BY <1>7, <1>9, <2>1 DEF SendTelegramFails, SendDiscordFails, DeletePlaceholder, DeleteFails, NextReply,
                            Answered, Crash
<1>10. ASSUME vars' = vars PROVE Visible'
  BY <1>7, <1>10 DEF vars, delivery, Placeholder
<1> QED
  BY <1>2, <1>3, <1>4, <1>5, <1>6, <1>8, <1>9, <1>10 DEF Next, Serve, Ended

(* Nobody but the requester sees on Discord what a command meant for them   *)
(* alone, and everybody sees the rest, whatever fails on the way; but the   *)
(* first message that answers a blank form for sell is shown to everybody.  *)
THEOREM OnlyTheRightPeopleSee == DeliverySpec => []VisibleToWhomItMay
<1>1. Pending /\ Visible => VisibleToWhomItMay
  <2> SUFFICES ASSUME Pending, Visible PROVE VisibleToWhomItMay
    OBVIOUS
  <2>1. DOMAIN shown = 1 .. Len(shown)
    <3>1. PICK S : shown \in Seq(S)
      BY DEF Pending, IsSequence
    <3> QED
      BY <3>1
  <2> QED
    BY <2>1 DEF Visible, VisibleToWhomItMay
<1> QED
  BY <1>1, InitRoute, NextRoute, InitPartsCut, NextPartsCut, InitRemaining, NextRemaining,
     InitPending, NextPending, InitPrivacy, NextPrivacy, NextVisible, PTL DEF DeliverySpec

-----------------------------------------------------------------------------
(* Why there is always something to acknowledge an interaction with. *)
Acknowledging ==
    /\ work => /\ Interaction(event) => via = "response"
               /\ \A i \in 1 .. Len(replies) : replies[i].text # <<>>
    /\ work /\ interaction = "open" /\ ~failed =>
        /\ step = "next" => replies # <<>> \/ outgoing # <<>>
        /\ step = "send" => outgoing # <<>>
    /\ step = "bulk" => interaction # "open" \/ failed
    /\ step = "send" /\ Placeholder /\ ~failed => outgoing # <<>>
    /\ step = "done" /\ Placeholder => failed

LEMMA InitAcknowledging == Init => Acknowledging
BY DEF Init, Acknowledging, Placeholder

LEMMA NextAcknowledging ==
    Route /\ Remaining /\ PartsCut /\ Pending /\ Acknowledging /\ [Next]_vars => Acknowledging'
<1> SUFFICES ASSUME Route, Remaining, PartsCut, Pending, Acknowledging, [Next]_vars
             PROVE  Acknowledging'
  OBVIOUS
<1>1. ASSUME NEW e \in Events, Receive(e) PROVE Acknowledging'
  <2>1. ~work /\ work' = work
    BY <1>1 DEF Receive, Route, NoEvent
  <2>2. step' \in {"open", "defer", "run"}
    BY <1>1 DEF Receive
  <2> QED
    BY <2>1, <2>2 DEF Acknowledging
<1>2. ASSUME OpenModal \/ Defer \/ AcknowledgeFails \/ DeletePlaceholder \/ DeleteFails PROVE Acknowledging'
  <2>1. UNCHANGED <<event, via, work, replies>> /\ step' \in {"run", "done"}
    BY <1>2 DEF OpenModal, Defer, AcknowledgeFails, DeletePlaceholder, DeleteFails
  <2>2. step' = "done" => failed' \/ interaction' \in {"answered", "deleted"}
    BY <1>2 DEF OpenModal, Defer, AcknowledgeFails, DeletePlaceholder, DeleteFails
  <2> QED
    BY <2>1, <2>2 DEF Acknowledging, Placeholder
<1>3. ASSUME Run PROVE Acknowledging'
  <2>1. PICK result \in Outcomes(event) : replies' = result
    BY <1>3 DEF Run
  <2>2. step = "run" /\ step' = "next" /\ UNCHANGED <<event, via, interaction>>
        /\ (work' => event.command = "suggestdeckbox")
    BY <1>3 DEF Run, Suggests
  <2>3. work' => result # <<>> /\ \A i \in 1 .. Len(result) : result[i].text # <<>>
    BY <2>2, OutcomesAreReplies DEF Public
  <2>4. work' /\ Interaction(event) => via = "response"
    BY <2>2 DEF Route, Defers, Interaction
  <2> QED
    BY <2>1, <2>2, <2>3, <2>4 DEF Acknowledging
<1>4. ASSUME RunSuggested PROVE Acknowledging'
  BY <1>4 DEF RunSuggested, Acknowledging
<1>5. ASSUME SkipEmpty PROVE Acknowledging'
  <2>1. replies \in Seq(Replies) /\ replies # <<>> /\ Head(replies).text = <<>>
    BY <1>5 DEF SkipEmpty, Remaining
  <2>2. 1 \in 1 .. Len(replies) /\ Head(replies) = replies[1]
    BY <2>1
  <2>3. ~work
    BY <2>1, <2>2 DEF Acknowledging
  <2> QED
    BY <1>5, <2>3 DEF SkipEmpty, Acknowledging, Placeholder
<1>6. ASSUME TakeParts PROVE Acknowledging'
  <2>1. outgoing' # <<>>
    <3>1. Len(outgoing') # 0
      BY <1>6, Taken
    <3> QED
      BY <3>1
  <2>2. \A i \in 1 .. Len(replies') : i + 1 \in 1 .. Len(replies) /\ replies'[i] = replies[i + 1]
    <3>1. replies \in Seq(Replies) /\ replies # <<>> /\ replies' = Tail(replies)
      BY <1>6 DEF TakeParts, Remaining
    <3> QED
      BY <3>1
  <2>3. UNCHANGED <<event, interaction, via, work, failed>> /\ step' \in {"send", "next"}
    BY <1>6 DEF TakeParts
  <2> QED
    BY <2>1, <2>2, <2>3 DEF Acknowledging
<1>7. ASSUME AllTaken PROVE Acknowledging'
  BY <1>7 DEF AllTaken, Acknowledging, Route, Placeholder
<1>8. ASSUME SendTelegram \/ SendTelegramFails PROVE Acknowledging'
  <2>1. ~Interaction(event) /\ interaction = "none"
    BY <1>8 DEF SendTelegram, SendTelegramFails, Route, Interaction
  <2>2. UNCHANGED <<event, via, interaction, replies, work>> /\ step = "send" /\ step' = "send"
    BY <1>8 DEF SendTelegram, SendTelegramFails
  <2> QED
    BY <2>1, <2>2 DEF Acknowledging, Placeholder
<1>9. ASSUME SendChannel PROVE Acknowledging'
  <2>1. ~Placeholder
    BY <1>9 DEF SendChannel, Route
  <2>2. work => interaction = "none"
    BY <1>9 DEF SendChannel, Route, Acknowledging
  <2> QED
    BY <1>9, <2>1, <2>2 DEF SendChannel, Acknowledging, Placeholder
<1>10. ASSUME SendInteraction PROVE Acknowledging'
  BY <1>10 DEF SendInteraction, Acknowledging, Placeholder
<1>11. ASSUME SendDiscordFails PROVE Acknowledging'
  BY <1>11 DEF SendDiscordFails, Acknowledging, Placeholder
<1>12. ASSUME Answered PROVE Acknowledging'
  BY <1>12 DEF Answered, Acknowledging, Placeholder
<1>13. ASSUME NextReply \/ Crash \/ TakeReply \/ Cut PROVE Acknowledging'
  BY <1>13 DEF NextReply, Crash, TakeReply, Cut, delivery, Acknowledging, Placeholder
<1>14. ASSUME vars' = vars PROVE Acknowledging'
  BY <1>14 DEF vars, delivery, Acknowledging, Placeholder
<1> QED
  BY <1>1, <1>2, <1>3, <1>4, <1>5, <1>6, <1>7, <1>8, <1>9, <1>10, <1>11, <1>12, <1>13, <1>14
     DEF Next, Serve, Ended

(* Discord has its acknowledgement before a search, a write or the bulk     *)
(* Refresh of a Suggest begins, whatever texts the commands return.         *)
THEOREM AcknowledgedInTime == DeliverySpec => []AcknowledgedFirst
<1>1. Route /\ Acknowledging => AcknowledgedFirst
  BY DEF Route, Acknowledging, AcknowledgedFirst
<1> QED
  BY <1>1, InitRoute, NextRoute, InitPartsCut, NextPartsCut, InitRemaining, NextRemaining,
     InitPending, NextPending, InitAcknowledging, NextAcknowledging, PTL DEF DeliverySpec

(* A placeholder is left only by a call of Discord that failed.             *)
THEOREM PlaceholdersGo == DeliverySpec => []NoPlaceholderLeft
<1>1. Acknowledging => NoPlaceholderLeft
  BY DEF Acknowledging, NoPlaceholderLeft
<1> QED
  BY <1>1, InitRoute, NextRoute, InitPartsCut, NextPartsCut, InitRemaining, NextRemaining,
     InitPending, NextPending, InitAcknowledging, NextAcknowledging, PTL DEF DeliverySpec

-----------------------------------------------------------------------------
(* What a part that is shown on Telegram quotes, and what the next one will. *)
Opening(r) == IF said[r].replyTo THEN 1 ELSE 0

Threaded(i) ==
    IF shown[i].first
      THEN shown[i].quote = Opening(shown[i].reply)
      ELSE i > 1 /\ shown[i - 1].reply = shown[i].reply /\ shown[i].quote = i

Follows ==
    IF outgoing[1].first
      THEN replyTo = Opening(outgoing[1].reply)
      ELSE /\ Len(shown) > 0 /\ shown[Len(shown)].reply = outgoing[1].reply
           /\ replyTo = Len(shown) + 1

Thread ==
    via = "telegram" =>
        /\ step \in {"next", "split"} => outgoing = <<>>
        /\ \A i \in 2 .. Len(outgoing) : ~outgoing[i].first /\ outgoing[i].reply = outgoing[1].reply
        /\ outgoing # <<>> => Follows
        /\ \A i \in 1 .. Len(shown) : Threaded(i)

LEMMA InitThread == Init => Thread
BY DEF Init, Thread

LEMMA NextThread ==
    Route /\ Remaining /\ PartsCut /\ Pending /\ Thread /\ [Next]_vars => Thread'
<1> SUFFICES ASSUME Route, Remaining, PartsCut, Pending, Thread, [Next]_vars, via' = "telegram"
             PROVE  Thread'
  BY DEF Thread
<1>1. ASSUME said = <<>>, outgoing = <<>>, UNCHANGED <<shown, outgoing>> PROVE Thread'
  <2>1. ASSUME NEW i \in 1 .. Len(shown) PROVE FALSE
    <3>1. 1 .. Len(said) = {}
      BY <1>1
    <3> QED
      BY <3>1 DEF Pending
  <2>2. 2 .. Len(outgoing) = {}
    BY <1>1
  <2> QED
    BY <1>1, <2>1, <2>2 DEF Thread
<1>2. ASSUME Run \/ \E e \in Events : Receive(e) PROVE Thread'
  BY <1>1, <1>2 DEF Run, Receive, Remaining, Pending
<1>3. ASSUME UNCHANGED <<via, outgoing, replyTo, shown, said>>, step' \in {"next", "split"} => outgoing = <<>>
      PROVE  Thread'
  BY <1>3 DEF Thread, Threaded, Follows, Opening
<1>4. ASSUME RunSuggested PROVE Thread'
  <2>1. outgoing = <<>> /\ UNCHANGED <<outgoing, shown>> /\ via = "telegram"
    BY <1>4 DEF RunSuggested, Pending
  <2>2. \A i \in 1 .. Len(shown) : Threaded(i)'
    BY <1>4, <2>1, SaidGrows DEF Thread, Threaded, Opening, Pending
  <2>3. 2 .. Len(outgoing) = {}
    BY <2>1
  <2> QED
    BY <2>1, <2>2, <2>3 DEF Thread
<1>5. ASSUME TakeParts PROVE Thread'
  <2>1. /\ UNCHANGED <<said, shown, via>> /\ step = "split" /\ outgoing = <<>> /\ via = "telegram"
        /\ step' = "send"
    BY <1>5 DEF TakeParts, Thread
  <2>2. /\ Len(parts) \in Nat \ {0} /\ Len(outgoing') = Len(parts)
        /\ \A i \in 1 .. Len(parts) : outgoing'[i].reply = Current /\ outgoing'[i].first = (i = 1)
        /\ replyTo' = Opening(Current)
    <3>1. Len(outgoing) = 0
      BY <2>1
    <3>2. /\ Len(parts) \in Nat \ {0} /\ Len(outgoing') = Len(outgoing) + Len(parts)
          /\ \A i \in 1 .. Len(parts) :
                /\ outgoing'[Len(outgoing) + i].reply = Current
                /\ outgoing'[Len(outgoing) + i].first = (i = 1)
          /\ replyTo' = IF said[Current].replyTo THEN 1 ELSE 0
      BY <1>5, Taken
    <3> QED
      BY <3>1, <3>2 DEF Opening
  <2>3. /\ outgoing'[1].first = TRUE /\ outgoing'[1].reply = Current
        /\ \A i \in 2 .. Len(outgoing') : outgoing'[i].first = FALSE /\ outgoing'[i].reply = Current
    <3>1. 1 \in 1 .. Len(parts) /\ (1 = 1) = TRUE
      BY <2>2
    <3>2. \A i \in 2 .. Len(outgoing') : i \in 1 .. Len(parts) /\ (i = 1) = FALSE
      BY <2>2
    <3> QED
      BY <2>2, <3>1, <3>2
  <2>4. Follows'
    BY <2>1, <2>2, <2>3 DEF Follows, Opening
  <2>5. \A i \in 1 .. Len(shown') : Threaded(i)'
    BY <2>1 DEF Thread, Threaded, Opening
  <2> QED
    BY <2>1, <2>3, <2>4, <2>5 DEF Thread
<1>6. ASSUME SendTelegram PROVE Thread'
  <2> DEFINE n == Len(shown)
  <2>1. /\ UNCHANGED <<said, via>> /\ step = "send" /\ step' = step /\ via = "telegram" /\ outgoing # <<>>
        /\ replyTo' = n + 2
    BY <1>6 DEF SendTelegram
  <2>2. /\ Len(outgoing) \in Nat \ {0} /\ Len(outgoing') = Len(outgoing) - 1
        /\ \A i \in 1 .. Len(outgoing') : outgoing'[i] = outgoing[i + 1]
        /\ n \in Nat /\ Len(shown') = n + 1
        /\ \A i \in 1 .. n : shown'[i] = shown[i]
        /\ shown'[n + 1].reply = outgoing[1].reply
        /\ shown'[n + 1].first = outgoing[1].first
        /\ shown'[n + 1].quote = replyTo
        /\ IsSequence(outgoing')
    BY <1>6, Sent DEF SendTelegram
  <2>3. Follows /\ \A i \in 1 .. n : Threaded(i)
    BY <2>1 DEF Thread
  <2>4. ASSUME NEW i \in 1 .. Len(shown') PROVE Threaded(i)'
    <3>1. CASE i = n + 1
      BY <2>1, <2>2, <2>3, <3>1 DEF Follows, Threaded, Opening
    <3>2. CASE i # n + 1
      <4>1. i \in 1 .. n /\ (i > 1 => i - 1 \in 1 .. n)
        BY <2>2, <3>2
      <4> QED
        BY <2>1, <2>2, <2>3, <4>1 DEF Threaded, Opening
    <3> QED
      BY <3>1, <3>2
  <2>5. ASSUME NEW i \in 1 .. Len(outgoing')
        PROVE  ~outgoing'[i].first /\ outgoing'[i].reply = outgoing[1].reply
    <3>1. i + 1 \in 2 .. Len(outgoing) /\ outgoing'[i] = outgoing[i + 1]
      BY <2>2
    <3> QED
      BY <2>1, <3>1 DEF Thread
  <2>6. ASSUME outgoing' # <<>> PROVE Follows'
    <3>1. 1 \in 1 .. Len(outgoing')
      BY <2>2, <2>6, Tailed
    <3> QED
      BY <2>1, <2>2, <2>5, <3>1 DEF Follows, Opening
  <2>7. \A i \in 2 .. Len(outgoing') : ~outgoing'[i].first /\ outgoing'[i].reply = outgoing'[1].reply
    <3> TAKE i \in 2 .. Len(outgoing')
    <3>1. i \in 1 .. Len(outgoing') /\ 1 \in 1 .. Len(outgoing')
      BY <2>2
    <3> QED
      BY <2>5, <3>1
  <2> QED
    BY <2>1, <2>4, <2>6, <2>7 DEF Thread
<1>7. ASSUME SendTelegramFails PROVE Thread'
  <2>1. outgoing' = <<>> /\ UNCHANGED <<via, shown, said>>
    BY <1>7 DEF SendTelegramFails
  <2>2. 2 .. Len(outgoing') = {}
    BY <2>1
  <2> QED
    BY <2>1, <2>2 DEF Thread, Threaded, Opening
<1>8. ASSUME SendChannel \/ SendInteraction \/ SendDiscordFails PROVE Thread'
  BY <1>8 DEF SendChannel, SendInteraction, SendDiscordFails
<1>9. ASSUME OpenModal \/ Defer \/ AcknowledgeFails \/ SkipEmpty \/ TakeReply \/ Cut \/ AllTaken
      PROVE  Thread'
  BY <1>3, <1>9 DEF OpenModal, Defer, AcknowledgeFails, SkipEmpty, TakeReply, Cut, AllTaken, delivery, Thread
<1>10. ASSUME DeletePlaceholder \/ DeleteFails \/ NextReply \/ Answered \/ Crash PROVE Thread'
  BY <1>3, <1>10 DEF DeletePlaceholder, DeleteFails, NextReply, Answered, Crash
<1>11. ASSUME vars' = vars PROVE Thread'
  BY <1>3, <1>11 DEF vars, delivery, Thread
<1> QED
  BY <1>2, <1>4, <1>5, <1>6, <1>7, <1>8, <1>9, <1>10, <1>11 DEF Next, Serve, Ended

(* On Telegram every part quotes the one before it, and the first one of a  *)
(* reply the request or nothing, wherever a reply before it broke off.      *)
THEOREM LongAnswersAreThreads == DeliverySpec => []ReadsAsOneThread
<1>1. Route /\ Pending /\ Thread => ReadsAsOneThread
  <2> SUFFICES ASSUME Route, Pending, Thread, event.by = "telegram" PROVE ReadsAsOneThread
    BY DEF ReadsAsOneThread
  <2>1. DOMAIN shown = 1 .. Len(shown)
    <3>1. PICK S : shown \in Seq(S)
      BY DEF Pending, IsSequence
    <3> QED
      BY <3>1
  <2>2. via = "telegram"
    BY DEF Route
  <2> QED
    BY <2>1, <2>2 DEF Thread, Threaded, Opening, ReadsAsOneThread
<1> QED
  BY <1>1, InitRoute, NextRoute, InitPartsCut, NextPartsCut, InitRemaining, NextRemaining,
     InitPending, NextPending, InitThread, NextThread, PTL DEF DeliverySpec

-----------------------------------------------------------------------------
(* Splitting within a delivery *)

LEMMA InitSplit == Init => SplitInv
<1> SUFFICES ASSUME Init PROVE SplitInv
  OBVIOUS
<1>1. /\ message = <<>> /\ parts = <<>> /\ chunk = <<>> /\ newline = 0 /\ rest = <<>> /\ returned = TRUE
  BY DEF Init
<1>2. <<>> \in Seq(Runes) /\ <<>> \in Seq(Seq(Runes)) /\ Len(<<>>) = 0
      /\ Len(<<>>) - 2 \in Int /\ Len(<<>>) - 2 <= 0
  OBVIOUS
<1>3. SplitTypes /\ NewlineSeen /\ LinesWhole
  BY <1>1, <1>2 DEF SplitTypes, NewlineSeen, LinesWhole
<1>4. ChunkFits
  <2>1. Bytes(SubSeq(<<>>, 1, Len(<<>>) - 2)) = 0
    <3>1. \A s \in Seq(Runes), n \in Int : n <= 0 => Bytes(SubSeq(s, 1, n)) = 0
      BY NoBytes
    <3> QED
      BY <1>2, <3>1
  <2>2. Limit \in Nat \ {0} /\ Bytes(<<>>) = 0
    BY BytesNone, RunesAssumption
  <2> QED
    BY <1>1, <2>1, <2>2 DEF ChunkFits
<1>5. \A i \in 1 .. Len(parts) : PartFits(parts[i])
  BY <1>1, <1>2
<1>6. JoinsToMessage
  <2>1. (<<>> \o <<>>) \o <<>> = <<>>
    OBVIOUS
  <2> QED
    BY <1>1, <2>1, FlattenNone DEF JoinsToMessage
<1> QED
  BY <1>3, <1>4, <1>5, <1>6 DEF SplitInv

LEMMA NextSplit == Remaining /\ SplitInv /\ [Next]_vars => SplitInv'
<1> SUFFICES ASSUME Remaining, SplitInv, [Next]_vars PROVE SplitInv'
  OBVIOUS
<1>1. ASSUME TakeReply PROVE SplitInv'
  <2>1. replies \in Seq(Replies) /\ replies # <<>> /\ Split(Head(replies).text)
    BY <1>1 DEF TakeReply, Remaining
  <2>2. Head(replies) \in Replies
    BY <2>1
  <2>3. Head(replies).text \in Seq(Runes)
    BY <2>2 DEF Replies
  <2> QED
    BY <2>1, <2>3, SplitBegins
<1>2. ASSUME Cut PROVE SplitInv'
  BY <1>2, SplitStepKeeps DEF Cut
<1>3. ASSUME NEW e \in Events, Receive(e) PROVE SplitInv'
  BY <1>3, SplitStutters DEF Receive
<1>4. ASSUME OpenModal \/ Defer \/ AcknowledgeFails \/ Run \/ RunSuggested \/ SkipEmpty \/ TakeParts \/ AllTaken
      PROVE  SplitInv'
  BY <1>4, SplitStutters DEF OpenModal, Defer, AcknowledgeFails, Run, RunSuggested, SkipEmpty, TakeParts, AllTaken
<1>5. ASSUME \/ SendTelegram \/ SendTelegramFails \/ SendChannel \/ SendInteraction \/ SendDiscordFails
             \/ DeletePlaceholder \/ DeleteFails \/ NextReply \/ Answered \/ Crash
      PROVE  SplitInv'
  BY <1>5, SplitStutters DEF SendTelegram, SendTelegramFails, SendChannel, SendInteraction, SendDiscordFails,
     DeletePlaceholder, DeleteFails, NextReply, Answered, Crash
<1>6. ASSUME vars' = vars PROVE SplitInv'
  BY <1>6, SplitStutters DEF vars
<1> QED
  BY <1>1, <1>2, <1>3, <1>4, <1>5, <1>6 DEF Next, Serve, Ended

LEMMA PartsDomain == SplitInv => DOMAIN parts = 1 .. Len(parts) /\ Len(parts) \in Nat
<1> SUFFICES ASSUME SplitInv PROVE DOMAIN parts = 1 .. Len(parts) /\ Len(parts) \in Nat
  OBVIOUS
<1>1. parts \in Seq(Seq(Runes))
  BY DEF SplitInv, SplitTypes
<1> QED
  BY <1>1

(* Whatever a reply's text, limit and runes, the parts that are cut, what   *)
(* is being cut and what is left are the text, at every step of the loop.   *)
THEOREM NoRuneIsLost == DeliverySpec => []JoinsToMessage
<1>1. SplitInv => JoinsToMessage
  BY DEF SplitInv
<1> QED
  BY <1>1, InitRemaining, NextRemaining, InitSplit, NextSplit, PTL DEF DeliverySpec

(* No part is empty, unless the text was.                                   *)
THEOREM PartsHaveRunes == DeliverySpec => []NoEmptyPart
<1>1. SplitInv => NoEmptyPart
  BY PartsDomain DEF SplitInv, PartFits, NoEmptyPart
<1> QED
  BY <1>1, InitRemaining, NextRemaining, InitSplit, NextSplit, PTL DEF DeliverySpec

(* A text whose lines are all below the limit is cut at newlines only, in   *)
(* each of the three cuts and after the recursive call.                     *)
THEOREM ShortLinesAreWhole == DeliverySpec => []LinesKeptWhole
<1>1. SplitInv => LinesKeptWhole
  BY DEF SplitInv, LinesWhole, LinesKeptWhole
<1> QED
  BY <1>1, InitRemaining, NextRemaining, InitSplit, NextSplit, PTL DEF DeliverySpec

(* A part of one-byte runes keeps to the limit; another one outgrows it by  *)
(* its last two runes at most.                                              *)
THEOREM PartsAlmostFit == DeliverySpec => []TooLongByTwoRunes
<1>1. SplitInv => TooLongByTwoRunes
  BY PartsDomain DEF SplitInv, PartFits, TooLongByTwoRunes
<1> QED
  BY <1>1, InitRemaining, NextRemaining, InitSplit, NextSplit, PTL DEF DeliverySpec

-----------------------------------------------------------------------------
(* The records of what is sent. *)
Typed ==
    /\ outgoing \in Seq(Parts) /\ shown \in Seq(Shown)
    /\ replyTo \in 0 .. Len(shown) + 1
    /\ work \in BOOLEAN /\ failed \in BOOLEAN
    /\ step \in {"idle", "open", "defer", "run", "next", "split", "send", "delete", "bulk", "done", "gone"}

(* TakeParts queues the parts, as records of the first remaining reply. *)
LEMMA TakenParts ==
    ASSUME Remaining, SplitInv, Typed, TakeParts
    PROVE  /\ Current \in 1 .. Len(said) /\ Len(said) \in Nat /\ Head(replies) = said[Current]
           /\ \E taken \in Seq(Parts) :
                /\ outgoing' = outgoing \o taken
                /\ Len(taken) = Len(parts)
                /\ \A i \in 1 .. Len(parts) : taken[i].reply = Current /\ taken[i].part = parts[i]
<1> DEFINE Part(i) == [reply |-> Current, part |-> parts[i], private |-> Head(replies).private,
                       first |-> i = 1, quotes |-> Head(replies).replyTo]
           taken == [i \in DOMAIN parts |-> Part(i)]
<1>1. /\ Len(said) \in Nat /\ Len(replies) \in Nat /\ Len(replies) <= Len(said) /\ replies # <<>>
      /\ Head(replies) = replies[1] /\ Len(replies) # 0 /\ replies[1] \in Replies
  BY DEF Remaining, TakeParts
<1>2. Current \in 1 .. Len(said) /\ Current \in Nat /\ Head(replies) = said[Current]
  <2>1. replies[1] = said[Len(said) - Len(replies) + 1]
    BY <1>1 DEF Remaining
  <2> QED
    BY <1>1, <2>1 DEF Current
<1>3. Head(replies).private \in BOOLEAN /\ Head(replies).replyTo \in BOOLEAN
  BY <1>1 DEF Replies
<1>4. DOMAIN parts = 1 .. Len(parts) /\ Len(parts) \in Nat /\ \A i \in 1 .. Len(parts) : parts[i] \in Seq(Runes)
  <2>1. parts \in Seq(Seq(Runes))
    BY DEF SplitInv, SplitTypes
  <2> QED
    BY <2>1
<1>5. \A i \in 1 .. Len(parts) :
        Part(i) \in Parts /\ Part(i).reply = Current /\ Part(i).part = parts[i]
  BY <1>2, <1>3, <1>4 DEF Parts
<1>6. outgoing' = outgoing \o taken
  BY DEF TakeParts
<1> HIDE DEF Part
<1>7. taken \in Seq(Parts) /\ Len(taken) = Len(parts) /\ \A i \in 1 .. Len(parts) : taken[i] = Part(i)
  <2>1. taken \in [1 .. Len(parts) -> Parts]
    BY <1>4, <1>5
  <2> QED
    BY <1>4, <2>1
<1> HIDE DEF taken
<1> QED
  BY <1>1, <1>2, <1>5, <1>6, <1>7

(* What is sent is the first part queued. *)
LEMMA SentPart ==
    ASSUME Typed, outgoing # <<>>, NEW ephemeral \in BOOLEAN, NEW quote \in Nat, Show(ephemeral, quote)
    PROVE  /\ Head(outgoing) \in Parts /\ Tail(outgoing) \in Seq(Parts)
           /\ \E new \in Shown :
                /\ shown' = Append(shown, new)
                /\ new.reply = Head(outgoing).reply /\ new.part = Head(outgoing).part
<1>1. Head(outgoing) \in Parts /\ Tail(outgoing) \in Seq(Parts)
  BY DEF Typed
<1> DEFINE new == [reply |-> Head(outgoing).reply, part |-> Head(outgoing).part,
                   first |-> Head(outgoing).first, ephemeral |-> ephemeral, quote |-> quote]
<1>2. new \in Shown /\ new.reply = Head(outgoing).reply /\ new.part = Head(outgoing).part
  BY <1>1 DEF Parts, Shown
<1>3. shown' = Append(shown, new)
  BY DEF Show
<1> HIDE DEF new
<1> QED
  BY <1>1, <1>2, <1>3

(* The three sends. *)
LEMMA Sends ==
    ASSUME Typed, SendTelegram \/ SendChannel \/ SendInteraction
    PROVE  /\ outgoing # <<>> /\ outgoing' = Tail(outgoing) /\ UNCHANGED <<replies, said, failed, step, work>>
           /\ Head(outgoing) \in Parts /\ Tail(outgoing) \in Seq(Parts)
           /\ replyTo' = replyTo \/ replyTo' = Len(shown) + 2
           /\ \E new \in Shown :
                /\ shown' = Append(shown, new)
                /\ new.reply = Head(outgoing).reply /\ new.part = Head(outgoing).part
<1>1. CASE SendTelegram
  <2>1. replyTo \in Nat /\ FALSE \in BOOLEAN
    BY DEF Typed
  <2>2. Show(FALSE, replyTo) /\ outgoing # <<>>
    BY <1>1 DEF SendTelegram
  <2> QED
    BY <1>1, <2>1, <2>2, SentPart DEF SendTelegram
<1>2. CASE SendChannel
  <2> DEFINE quote == IF Head(outgoing).quotes /\ event.by = "message" THEN 1 ELSE 0
  <2>1. quote \in Nat /\ Show(FALSE, quote) /\ outgoing # <<>>
    BY <1>2 DEF SendChannel
  <2> HIDE DEF quote
  <2> QED
    BY <1>2, <2>1, SentPart DEF SendChannel
<1>3. CASE SendInteraction
  <2> DEFINE ephemeral == IF Placeholder THEN interaction = "private" ELSE Head(outgoing).private
  <2>1. Show(ephemeral, 0) /\ outgoing # <<>>
    BY <1>3 DEF SendInteraction
  <2>2. Head(outgoing).private \in BOOLEAN
    <3>1. Head(outgoing) \in Parts
      BY <2>1 DEF Typed
    <3> QED
      BY <3>1 DEF Parts
  <2>3. ephemeral \in BOOLEAN
    BY <2>2
  <2> HIDE DEF ephemeral
  <2> QED
    BY <1>3, <2>1, <2>3, SentPart DEF SendInteraction
<1> QED
  BY <1>1, <1>2, <1>3

LEMMA InitTyped == Init => Typed
<1> SUFFICES ASSUME Init PROVE Typed
  OBVIOUS
<1>1. /\ outgoing = <<>> /\ shown = <<>> /\ replyTo = 0
      /\ work = FALSE /\ failed = FALSE /\ step = "idle"
  BY DEF Init
<1>2. outgoing \in Seq(Parts)
  BY <1>1
<1>3. shown \in Seq(Shown) /\ Len(shown) = 0
  BY <1>1
<1>4. replyTo \in 0 .. Len(shown) + 1
  BY <1>1, <1>3
<1>5. /\ work \in BOOLEAN /\ failed \in BOOLEAN
      /\ step \in {"idle", "open", "defer", "run", "next", "split", "send", "delete", "bulk", "done", "gone"}
  BY <1>1
<1> QED
  BY <1>2, <1>3, <1>4, <1>5 DEF Typed

LEMMA NextTyped == Remaining /\ SplitInv /\ Typed /\ [Next]_vars => Typed'
<1> SUFFICES ASSUME Remaining, SplitInv, Typed, [Next]_vars PROVE Typed'
  OBVIOUS
<1>1. ASSUME UNCHANGED <<outgoing, replyTo, shown>>, work' \in BOOLEAN, failed' \in BOOLEAN,
             step' \in {"idle", "open", "defer", "run", "next", "split", "send", "delete", "bulk", "done", "gone"}
      PROVE  Typed'
  BY <1>1 DEF Typed
<1>2. ASSUME NEW e \in Events, Receive(e) PROVE Typed'
  BY <1>1, <1>2 DEF Receive, Typed
<1>3. ASSUME OpenModal \/ Defer \/ AcknowledgeFails \/ Run \/ RunSuggested \/ SkipEmpty \/ TakeReply \/ Cut \/ AllTaken
      PROVE  Typed'
  BY <1>1, <1>3 DEF OpenModal, Defer, AcknowledgeFails, Run, RunSuggested, SkipEmpty, TakeReply, Cut, AllTaken, Suggests,
     delivery, Typed
<1>4. ASSUME DeletePlaceholder \/ DeleteFails \/ NextReply \/ Answered \/ Crash
      PROVE  Typed'
  BY <1>1, <1>4 DEF DeletePlaceholder, DeleteFails, NextReply, Answered, Crash, Typed
<1>5. ASSUME vars' = vars PROVE Typed'
  BY <1>1, <1>5 DEF vars, delivery, Typed
<1>6. ASSUME TakeParts PROVE Typed'
  <2>1. PICK taken \in Seq(Parts) : outgoing' = outgoing \o taken
    BY <1>6, TakenParts
  <2>2. outgoing' \in Seq(Parts)
    BY <2>1 DEF Typed
  <2>3. replyTo' \in 0 .. Len(shown) + 1
    <3>1. replyTo' \in {0, 1} /\ Len(shown) \in Nat
      BY <1>6 DEF TakeParts, Typed
    <3> QED
      BY <3>1
  <2> QED
    BY <1>6, <2>2, <2>3 DEF TakeParts, Typed
<1>7. ASSUME SendTelegram \/ SendChannel \/ SendInteraction PROVE Typed'
  <2>1. /\ outgoing' \in Seq(Parts) /\ UNCHANGED <<failed, step, work>>
        /\ replyTo' = replyTo \/ replyTo' = Len(shown) + 2
    BY <1>7, Sends
  <2>2. PICK new \in Shown : shown' = Append(shown, new)
    BY <1>7, Sends
  <2>3. shown' \in Seq(Shown) /\ Len(shown') = Len(shown) + 1 /\ Len(shown) \in Nat
    BY <2>2 DEF Typed
  <2>4. replyTo' \in 0 .. Len(shown') + 1
    BY <2>1, <2>3 DEF Typed
  <2> QED
    BY <2>1, <2>3, <2>4 DEF Typed
<1>8. ASSUME SendTelegramFails \/ SendDiscordFails PROVE Typed'
  <2>1. <<>> \in Seq(Parts)
    OBVIOUS
  <2> QED
    BY <1>8, <2>1 DEF SendTelegramFails, SendDiscordFails, Typed
<1> QED
  BY <1>2, <1>3, <1>4, <1>5, <1>6, <1>7, <1>8 DEF Next, Serve, Ended

LEMMA Bounded ==
    ASSUME NEW n \in Nat, NEW s \in Seq(Runes), Len(s) <= n
    PROVE  s \in BoundedSeq(Runes, n)
<1>1. Len(s) \in 0 .. n /\ s \in [1 .. Len(s) -> Runes]
  OBVIOUS
<1> QED
  BY <1>1 DEF BoundedSeq, SeqOf

(* Chunks, parts and what is left of a text are its pieces, never longer,   *)
(* and the records of what is queued and shown are whole.                   *)
THEOREM Typing == DeliverySpec => []TypeOK
<1>1. Route /\ Remaining /\ SplitInv /\ Typed => TypeOK
  <2> SUFFICES ASSUME Route, Remaining, SplitInv, Typed PROVE TypeOK
    OBVIOUS
  <2>1. SplitTypeOK
    <3>1. /\ message \in Seq(Runes) /\ chunk \in Seq(Runes) /\ rest \in Seq(Runes)
          /\ returned \in BOOLEAN /\ parts \in Seq(Seq(Runes))
      BY DEF SplitInv, SplitTypes
    <3>2. Len(message) \in Nat /\ Len(chunk) <= Len(message) /\ Len(rest) <= Len(message)
      <4>1. Len(chunk) + Len(rest) <= Len(message)
        BY Unsplit
      <4>2. Len(message) \in Nat /\ Len(chunk) \in Nat /\ Len(rest) \in Nat
        BY <3>1
      <4> QED
        BY <4>1, <4>2
    <3>3. chunk \in BoundedSeq(Runes, Len(message)) /\ rest \in BoundedSeq(Runes, Len(message))
      BY <3>1, <3>2, Bounded
    <3>4. ASSUME NEW i \in DOMAIN parts PROVE parts[i] \in BoundedSeq(Runes, Len(message))
      <4>1. parts[i] \in Seq(Runes) /\ i \in 1 .. Len(parts)
        BY <3>1
      <4>2. Len(parts[i]) <= Len(message)
        BY <4>1 DEF SplitInv, PartFits
      <4> QED
        BY <3>2, <4>1, <4>2, Bounded
    <3>5. newline \in 0 .. Len(chunk) /\ (newline # 0 => chunk[newline] = Newline)
      BY DEF SplitInv, NewlineSeen
    <3> QED
      BY <3>1, <3>3, <3>4, <3>5 DEF SplitTypeOK
  <2>2. \A i \in DOMAIN replies : replies[i] \in Replies
    BY DEF Remaining
  <2>3. \A i \in DOMAIN said : said[i] \in Replies
    BY DEF Remaining
  <2>4. (\A i \in DOMAIN outgoing : outgoing[i] \in Parts) /\ (\A i \in DOMAIN shown : shown[i] \in Shown)
    BY DEF Typed
  <2> QED
    BY <2>1, <2>2, <2>3, <2>4 DEF Route, Typed, TypeOK
<1> QED
  BY <1>1, InitRoute, NextRoute, InitRemaining, NextRemaining, InitSplit, NextSplit,
     InitTyped, NextTyped, PTL DEF DeliverySpec

-----------------------------------------------------------------------------
(* What a sequence of sent or queued parts holds of a reply. *)
Piece(x, r) == IF x.reply = r THEN x.part ELSE <<>>
PartsOf(s, r) == FlattenSeq([i \in DOMAIN s |-> Piece(s[i], r)])

LEMMA PieceType ==
    ASSUME NEW x, x \in Parts \/ x \in Shown, NEW r
    PROVE  Piece(x, r) \in Seq(Runes)
<1>1. x.part \in Seq(Runes) /\ <<>> \in Seq(Runes)
  BY DEF Parts, Shown
<1> QED
  BY <1>1 DEF Piece

LEMMA Projects ==
    ASSUME NEW S, S = Parts \/ S = Shown, NEW s \in Seq(S), NEW r
    PROVE  /\ [i \in DOMAIN s |-> Piece(s[i], r)] \in Seq(Seq(Runes))
           /\ Len([i \in DOMAIN s |-> Piece(s[i], r)]) = Len(s)
           /\ \A i \in 1 .. Len(s) : [j \in DOMAIN s |-> Piece(s[j], r)][i] = Piece(s[i], r)
<1> DEFINE f == [i \in DOMAIN s |-> Piece(s[i], r)]
<1>1. DOMAIN s = 1 .. Len(s) /\ Len(s) \in Nat /\ \A i \in 1 .. Len(s) : s[i] \in S
  OBVIOUS
<1>2. \A i \in 1 .. Len(s) : Piece(s[i], r) \in Seq(Runes)
  BY <1>1, PieceType
<1>3. f \in [1 .. Len(s) -> Seq(Runes)]
  BY <1>1, <1>2
<1>4. f \in Seq(Seq(Runes)) /\ Len(f) = Len(s)
  BY <1>1, <1>3
<1>5. \A i \in 1 .. Len(s) : f[i] = Piece(s[i], r)
  BY <1>1
<1> QED
  BY <1>4, <1>5

LEMMA PartsOfType ==
    ASSUME NEW S, S = Parts \/ S = Shown, NEW s \in Seq(S), NEW r
    PROVE  PartsOf(s, r) \in Seq(Runes)
BY Projects, FlattenType DEF PartsOf

LEMMA PartsOfAppend ==
    ASSUME NEW S, S = Parts \/ S = Shown, NEW s \in Seq(S), NEW x \in S, NEW r
    PROVE  PartsOf(Append(s, x), r) = PartsOf(s, r) \o Piece(x, r)
<1> DEFINE f == [i \in DOMAIN s |-> Piece(s[i], r)]
           more == Append(s, x)
           g == [i \in DOMAIN more |-> Piece(more[i], r)]
           p == Piece(x, r)
<1>1. /\ more \in Seq(S) /\ Len(more) = Len(s) + 1 /\ Len(s) \in Nat
      /\ more[Len(s) + 1] = x /\ \A i \in 1 .. Len(s) : more[i] = s[i]
  OBVIOUS
<1>2. f \in Seq(Seq(Runes)) /\ Len(f) = Len(s) /\ \A i \in 1 .. Len(s) : f[i] = Piece(s[i], r)
  BY Projects
<1>3. g \in Seq(Seq(Runes)) /\ Len(g) = Len(more) /\ \A i \in 1 .. Len(more) : g[i] = Piece(more[i], r)
  <2> HIDE DEF more
  <2> QED
    BY <1>1, Projects
<1>4. p \in Seq(Runes)
  BY PieceType
<1> HIDE DEF f, g, more
<1>5. g = Append(f, p)
  <2>1. Append(f, p) \in Seq(Seq(Runes)) /\ Len(Append(f, p)) = Len(s) + 1
        /\ Append(f, p)[Len(s) + 1] = p /\ \A i \in 1 .. Len(s) : Append(f, p)[i] = f[i]
    <3> HIDE DEF p
    <3> QED
      BY <1>1, <1>2, <1>4
  <2>2. ASSUME NEW i \in 1 .. Len(s) + 1 PROVE g[i] = Append(f, p)[i]
    <3>1. CASE i = Len(s) + 1
      BY <1>1, <1>3, <2>1, <3>1
    <3>2. CASE i # Len(s) + 1
      <4>1. i \in 1 .. Len(s) /\ i \in 1 .. Len(more)
        BY <1>1, <3>2
      <4> QED
        BY <1>1, <1>2, <1>3, <2>1, <4>1
    <3> QED
      BY <3>1, <3>2
  <2> QED
    BY <1>1, <1>3, <2>1, <2>2, SameElements
<1>6. FlattenSeq(Append(f, p)) = FlattenSeq(f) \o p
  BY <1>2, <1>4, FlattenAppend
<1> QED
  BY <1>5, <1>6 DEF PartsOf, f, g, more

LEMMA PartsOfConcat ==
    ASSUME NEW s \in Seq(Parts), NEW t \in Seq(Parts), NEW r
    PROVE  PartsOf(s \o t, r) = PartsOf(s, r) \o PartsOf(t, r)
<1> DEFINE f == [i \in DOMAIN s |-> Piece(s[i], r)]
           g == [i \in DOMAIN t |-> Piece(t[i], r)]
           all == s \o t
           h == [i \in DOMAIN all |-> Piece(all[i], r)]
<1>1. /\ all \in Seq(Parts) /\ Len(all) = Len(s) + Len(t) /\ Len(s) \in Nat /\ Len(t) \in Nat
      /\ \A i \in 1 .. Len(s) : all[i] = s[i]
      /\ \A i \in 1 .. Len(t) : all[Len(s) + i] = t[i]
  OBVIOUS
<1>2. f \in Seq(Seq(Runes)) /\ Len(f) = Len(s) /\ \A i \in 1 .. Len(s) : f[i] = Piece(s[i], r)
  BY Projects
<1>3. g \in Seq(Seq(Runes)) /\ Len(g) = Len(t) /\ \A i \in 1 .. Len(t) : g[i] = Piece(t[i], r)
  BY Projects
<1>4. h \in Seq(Seq(Runes)) /\ Len(h) = Len(all) /\ \A i \in 1 .. Len(all) : h[i] = Piece(all[i], r)
  <2> HIDE DEF all
  <2> QED
    BY <1>1, Projects
<1> HIDE DEF f, g, h, all
<1>5. h = f \o g
  <2>1. /\ f \o g \in Seq(Seq(Runes)) /\ Len(f \o g) = Len(s) + Len(t)
        /\ \A i \in 1 .. Len(s) : (f \o g)[i] = f[i]
        /\ \A i \in 1 .. Len(t) : (f \o g)[Len(s) + i] = g[i]
    <3>1. IsSequence(f) /\ IsSequence(g)
      BY <1>2, <1>3 DEF IsSequence
    <3>2. /\ Len(f \o g) = Len(f) + Len(g)
          /\ \A i \in 1 .. Len(f) : (f \o g)[i] = f[i]
          /\ \A i \in 1 .. Len(g) : (f \o g)[Len(f) + i] = g[i]
      BY <3>1, Concatenated
    <3>3. f \o g \in Seq(Seq(Runes))
      BY <1>2, <1>3
    <3> QED
      BY <1>2, <1>3, <3>2, <3>3
  <2>2. ASSUME NEW i \in 1 .. Len(s) + Len(t) PROVE h[i] = (f \o g)[i]
    <3>0. i \in 1 .. Len(all)
      BY <1>1
    <3>1. CASE i \in 1 .. Len(s)
      BY <1>1, <1>2, <1>4, <2>1, <3>0, <3>1
    <3>2. CASE i \notin 1 .. Len(s)
      <4> DEFINE j == i - Len(s)
      <4>1. j \in 1 .. Len(t) /\ i = Len(s) + j
        BY <1>1, <3>2
      <4> HIDE DEF j
      <4>2. all[i] = t[j] /\ (f \o g)[i] = g[j]
        BY <1>1, <2>1, <4>1
      <4> QED
        BY <1>3, <1>4, <3>0, <4>1, <4>2
    <3> QED
      BY <3>1, <3>2
  <2> QED
    BY <1>1, <1>4, <2>1, <2>2, SameElements
<1>6. FlattenSeq(f \o g) = FlattenSeq(f) \o FlattenSeq(g)
  BY <1>2, <1>3, FlattenConcat
<1> QED
  BY <1>5, <1>6 DEF PartsOf, f, g, h, all

LEMMA PartsOfOthers ==
    ASSUME NEW S, S = Parts \/ S = Shown, NEW s \in Seq(S), NEW r,
           \A i \in 1 .. Len(s) : s[i].reply # r
    PROVE  PartsOf(s, r) = <<>>
<1> DEFINE f == [i \in DOMAIN s |-> Piece(s[i], r)]
<1>1. f \in Seq(Seq(Runes)) /\ Len(f) = Len(s) /\ \A i \in 1 .. Len(s) : f[i] = Piece(s[i], r)
  BY Projects
<1> HIDE DEF f
<1>2. \A i \in 1 .. Len(f) : f[i] = <<>>
  BY <1>1 DEF Piece
<1>3. FlattenSeq(f) = <<>>
  BY <1>1, <1>2, FlattenSilence
<1> QED
  BY <1>3 DEF PartsOf, f

LEMMA PartsOfNone == \A r : PartsOf(<<>>, r) = <<>>
<1> TAKE r
<1>1. <<>> \in Seq(Parts) /\ Len(<<>>) = 0
  OBVIOUS
<1>2. \A i \in 1 .. Len(<<>>) : <<>>[i].reply # r
  BY <1>1
<1> QED
  BY <1>1, <1>2, PartsOfOthers

LEMMA PartsOfHead ==
    ASSUME NEW s \in Seq(Parts), s # <<>>, NEW r
    PROVE  PartsOf(s, r) = Piece(Head(s), r) \o PartsOf(Tail(s), r)
<1> DEFINE x == Head(s)
           t == Tail(s)
<1>1. x \in Parts /\ t \in Seq(Parts) /\ <<x>> \in Seq(Parts) /\ <<>> \in Seq(Parts)
  OBVIOUS
<1>2. s = <<x>> \o t
  <2>1. <<x>> \o t \in Seq(Parts) /\ Len(<<x>> \o t) = Len(s)
    OBVIOUS
  <2>2. \A i \in 1 .. Len(s) : s[i] = (<<x>> \o t)[i]
    OBVIOUS
  <2> QED
    BY <2>1, <2>2, SameElements
<1>3. <<x>> = Append(<<>>, x)
  OBVIOUS
<1> HIDE DEF x, t
<1>4. PartsOf(<<x>>, r) = <<>> \o Piece(x, r)
  <2>1. PartsOf(Append(<<>>, x), r) = PartsOf(<<>>, r) \o Piece(x, r)
    BY <1>1, PartsOfAppend
  <2> QED
    BY <1>3, <2>1, PartsOfNone
<1>5. PartsOf(<<x>>, r) = Piece(x, r)
  <2>1. Piece(x, r) \in Seq(Runes)
    BY <1>1, PieceType
  <2> QED
    BY <1>4, <2>1
<1>6. PartsOf(<<x>> \o t, r) = PartsOf(<<x>>, r) \o PartsOf(t, r)
  BY <1>1, PartsOfConcat
<1>7. PartsOf(s, r) = Piece(x, r) \o PartsOf(t, r)
  BY <1>2, <1>5, <1>6
<1> QED
  BY <1>7 DEF x, t

(* Every part of one reply, in their order. *)
LEMMA PartsOfOne ==
    ASSUME NEW s \in Seq(Parts), NEW cuts \in Seq(Seq(Runes)), NEW r, Len(s) = Len(cuts),
           \A i \in 1 .. Len(cuts) : s[i].reply = r /\ s[i].part = cuts[i]
    PROVE  PartsOf(s, r) = FlattenSeq(cuts)
<1> DEFINE f == [i \in DOMAIN s |-> Piece(s[i], r)]
<1>1. f \in Seq(Seq(Runes)) /\ Len(f) = Len(s) /\ \A i \in 1 .. Len(s) : f[i] = Piece(s[i], r)
  BY Projects
<1> HIDE DEF f
<1>2. \A i \in 1 .. Len(cuts) : f[i] = cuts[i]
  BY <1>1 DEF Piece
<1>3. f = cuts
  BY <1>1, <1>2, SameElements
<1> QED
  BY <1>3 DEF PartsOf, f

-----------------------------------------------------------------------------
(* Replies are taken, queued and shown in their order. *)
Taking == Len(said) - Len(replies)

Order ==
    /\ \A i, j \in 1 .. Len(shown) : i <= j => shown[i].reply <= shown[j].reply
    /\ \A i, j \in 1 .. Len(outgoing) : i <= j => outgoing[i].reply <= outgoing[j].reply
    /\ \A i \in 1 .. Len(shown), j \in 1 .. Len(outgoing) : shown[i].reply <= outgoing[j].reply
    /\ \A i \in 1 .. Len(shown) : shown[i].reply <= Taking
    /\ \A i \in 1 .. Len(outgoing) : outgoing[i].reply <= Taking

LEMMA TakingType == Remaining => Taking \in Nat /\ Taking <= Len(said) /\ Len(said) \in Nat
<1> SUFFICES ASSUME Remaining PROVE Taking \in Nat /\ Taking <= Len(said) /\ Len(said) \in Nat
  OBVIOUS
<1>1. Len(said) \in Nat /\ Len(replies) \in Nat /\ Len(replies) <= Len(said)
  BY DEF Remaining
<1> QED
  BY <1>1 DEF Taking

LEMMA HeadIs ==
    ASSUME Remaining, replies # <<>>
    PROVE  /\ Current = Taking + 1 /\ Current \in 1 .. Len(said) /\ Taking \in Nat
           /\ Head(replies) = said[Current] /\ Head(replies) \in Replies
           /\ Len(Tail(replies)) = Len(replies) - 1 /\ Len(replies) \in Nat /\ Len(said) \in Nat
<1>1. /\ Len(said) \in Nat /\ Len(replies) \in Nat /\ Len(replies) <= Len(said)
      /\ Head(replies) = replies[1] /\ Len(replies) # 0 /\ replies[1] \in Replies
      /\ Len(Tail(replies)) = Len(replies) - 1
  BY DEF Remaining
<1>2. replies[1] = said[Len(said) - Len(replies) + 1]
  BY <1>1 DEF Remaining
<1> QED
  BY <1>1, <1>2 DEF Current, Taking

(* What has not been taken is neither queued nor shown. *)
LEMMA NotYet ==
    ASSUME Remaining, Typed, Order, NEW r \in Nat, r > Taking
    PROVE  PartsOf(shown, r) = <<>> /\ PartsOf(outgoing, r) = <<>>
<1>1. \A i \in 1 .. Len(shown) : shown[i].reply # r
  BY TakingType DEF Order, Typed, Shown
<1>2. \A i \in 1 .. Len(outgoing) : outgoing[i].reply # r
  BY TakingType DEF Order, Typed, Parts
<1> QED
  BY <1>1, <1>2, PartsOfOthers DEF Typed

LEMMA InitOrder == Init => Order
BY DEF Init, Order

LEMMA NextTaking ==
    ASSUME Remaining, [Next]_vars
    PROVE  /\ Taking' = Taking \/ (Taking' = Taking + 1 /\ (SkipEmpty \/ TakeParts))
              \/ (Taking' = Len(said) /\ SendDiscordFails)
           /\ Taking \in Nat /\ Taking' \in Nat /\ Taking' >= Taking
<1>1. Taking \in Nat /\ Taking' \in Nat /\ Taking <= Len(said) /\ Len(said) \in Nat
  <2>1. Taking \in Nat /\ Taking <= Len(said) /\ Len(said) \in Nat
    BY TakingType
  <2>2. Remaining'
    BY NextRemaining
  <2>3. Len(said') \in Nat /\ Len(replies') \in Nat /\ Len(replies') <= Len(said')
    BY <2>2 DEF Remaining
  <2>4. Taking' \in Nat
    BY <2>3 DEF Taking
  <2> QED
    BY <2>1, <2>4
<1> SUFFICES \/ Taking' = Taking
             \/ Taking' = Taking + 1 /\ (SkipEmpty \/ TakeParts)
             \/ Taking' = Len(said) /\ SendDiscordFails
  BY <1>1
<1>2. ASSUME UNCHANGED <<said, replies>> PROVE Taking' = Taking
  BY <1>2 DEF Taking
<1>3. ASSUME Run PROVE Taking' = Taking
  <2>1. said' = replies' /\ said = <<>> /\ Len(said') \in Nat
    BY <1>3, NextRemaining DEF Run, Remaining
  <2>2. Len(replies) = 0
    BY <2>1 DEF Remaining
  <2> QED
    BY <2>1, <2>2 DEF Taking
<1>4. ASSUME RunSuggested PROVE Taking' = Taking
  <2>1. Len(said) \in Nat /\ Len(said') = Len(said) + 1 /\ Len(replies') = 1
    BY <1>4, SaidGrows
  <2>2. Len(replies) = 0
    BY <1>4 DEF RunSuggested, Remaining
  <2> QED
    BY <2>1, <2>2 DEF Taking
<1>5. ASSUME SkipEmpty \/ TakeParts PROVE Taking' = Taking + 1
  <2>1. said' = said /\ replies' = Tail(replies) /\ replies # <<>>
    BY <1>5 DEF SkipEmpty, TakeParts, Remaining
  <2>2. Len(replies') = Len(replies) - 1 /\ Len(replies) \in Nat /\ Len(said) \in Nat
    BY <2>1, HeadIs
  <2> QED
    BY <2>1, <2>2 DEF Taking
<1>6. ASSUME SendDiscordFails PROVE Taking' = Len(said)
  BY <1>1, <1>6 DEF SendDiscordFails, Taking
<1>7. ASSUME NEW e \in Events, Receive(e) PROVE Taking' = Taking
  BY <1>2, <1>7 DEF Receive
<1>8. ASSUME OpenModal \/ Defer \/ AcknowledgeFails \/ TakeReply \/ Cut \/ AllTaken PROVE Taking' = Taking
  BY <1>2, <1>8 DEF OpenModal, Defer, AcknowledgeFails, TakeReply, Cut, AllTaken, delivery
<1>9. ASSUME \/ SendTelegram \/ SendTelegramFails \/ SendChannel \/ SendInteraction
             \/ DeletePlaceholder \/ DeleteFails \/ NextReply \/ Answered \/ Crash
      PROVE  Taking' = Taking
  BY <1>2, <1>9 DEF SendTelegram, SendTelegramFails, SendChannel, SendInteraction,
     DeletePlaceholder, DeleteFails, NextReply, Answered, Crash
<1>10. ASSUME vars' = vars PROVE Taking' = Taking
  BY <1>2, <1>10 DEF vars, delivery
<1> QED
  BY <1>3, <1>4, <1>5, <1>6, <1>7, <1>8, <1>9, <1>10 DEF Next, Serve, Ended

LEMMA NextOrder == Remaining /\ SplitInv /\ Typed /\ Order /\ [Next]_vars => Order'
<1> SUFFICES ASSUME Remaining, SplitInv, Typed, Order, [Next]_vars PROVE Order'
  OBVIOUS
<1>0. Taking \in Nat /\ Taking' \in Nat /\ Taking' >= Taking
  BY NextTaking
<1>1. /\ outgoing \in Seq(Parts) /\ shown \in Seq(Shown) /\ Len(outgoing) \in Nat /\ Len(shown) \in Nat
      /\ \A i \in 1 .. Len(outgoing) : outgoing[i].reply \in Nat
      /\ \A i \in 1 .. Len(shown) : shown[i].reply \in Nat
  <2>1. /\ outgoing \in Seq(Parts) /\ shown \in Seq(Shown)
        /\ Len(outgoing) \in Nat /\ Len(shown) \in Nat
        /\ \A i \in 1 .. Len(outgoing) : outgoing[i] \in Parts
        /\ \A i \in 1 .. Len(shown) : shown[i] \in Shown
    BY DEF Typed
  <2>2. (\A x \in Parts : x.reply \in Nat) /\ (\A x \in Shown : x.reply \in Nat)
    BY DEF Parts, Shown
  <2> QED
    BY <2>1, <2>2
<1>2. ASSUME shown' = shown, outgoing' = outgoing \/ outgoing' = <<>>
      PROVE  Order'
  <2>1. \A i \in 1 .. Len(shown) : shown[i].reply <= Taking'
    BY <1>0, <1>1 DEF Order
  <2>2. \A i \in 1 .. Len(outgoing) : outgoing[i].reply <= Taking'
    BY <1>0, <1>1 DEF Order
  <2>3. CASE outgoing' = outgoing
    BY <1>2, <2>1, <2>2, <2>3 DEF Order
  <2>4. CASE outgoing' = <<>>
    BY <1>2, <2>1, <2>4 DEF Order
  <2> QED
    BY <1>2, <2>3, <2>4
<1>3. ASSUME TakeParts PROVE Order'
  <2>1. PICK taken \in Seq(Parts) :
          /\ outgoing' = outgoing \o taken
          /\ Len(taken) = Len(parts)
          /\ \A i \in 1 .. Len(parts) : taken[i].reply = Current /\ taken[i].part = parts[i]
    BY <1>3, TakenParts
  <2>2. shown' = shown /\ Current = Taking + 1 /\ Taking' = Taking + 1
    <3>1. shown' = shown /\ replies # <<>> /\ said' = said /\ replies' = Tail(replies)
      BY <1>3 DEF TakeParts, Remaining
    <3>2. /\ Current = Taking + 1 /\ Len(Tail(replies)) = Len(replies) - 1
          /\ Len(replies) \in Nat /\ Len(said) \in Nat
      BY <3>1, HeadIs
    <3> QED
      BY <3>1, <3>2 DEF Taking
  <2> DEFINE n == Len(outgoing)
             all == outgoing \o taken
  <2>3. /\ Len(all) = n + Len(taken) /\ Len(taken) \in Nat /\ n \in Nat
        /\ \A i \in 1 .. n : all[i] = outgoing[i]
        /\ \A i \in 1 .. Len(taken) : all[n + i] = taken[i]
    <3>1. IsSequence(outgoing) /\ IsSequence(taken)
      BY <1>1 DEF IsSequence
    <3> QED
      BY <3>1, Concatenated
  <2> HIDE DEF all
  <2>4. ASSUME NEW i \in 1 .. Len(all)
        PROVE  IF i \in 1 .. n THEN all[i] = outgoing[i] ELSE all[i].reply = Taking + 1
    <3>1. CASE i \in 1 .. n
      BY <2>3, <3>1
    <3>2. CASE i \notin 1 .. n
      <4> DEFINE j == i - n
      <4>1. j \in 1 .. Len(taken) /\ i = n + j
        BY <2>3, <3>2
      <4> HIDE DEF j, n
      <4>2. all[i] = taken[j] /\ taken[j].reply = Taking + 1
        BY <2>1, <2>2, <2>3, <4>1
      <4> QED
        BY <3>2, <4>2
    <3> QED
      BY <3>1, <3>2
  <2> HIDE DEF n
  <2>5. ASSUME NEW i \in 1 .. Len(all) PROVE all[i].reply <= Taking + 1 /\ all[i].reply \in Nat
    <3>1. i \in 1 .. n => outgoing[i].reply <= Taking /\ outgoing[i].reply \in Nat
      BY <1>1 DEF Order, n
    <3> QED
      BY <1>0, <2>4, <3>1
  <2>6. ASSUME NEW i \in 1 .. Len(all), NEW j \in 1 .. Len(all), i <= j
        PROVE  all[i].reply <= all[j].reply
    <3>1. CASE j \in 1 .. n
      <4>1. i \in 1 .. n
        BY <2>3, <2>6, <3>1
      <4>2. outgoing[i].reply <= outgoing[j].reply
        BY <2>6, <3>1, <4>1 DEF Order, n
      <4> QED
        BY <2>4, <3>1, <4>1, <4>2
    <3>2. CASE j \notin 1 .. n
      BY <2>4, <2>5, <3>2
    <3> QED
      BY <3>1, <3>2
  <2>7. ASSUME NEW i \in 1 .. Len(shown), NEW j \in 1 .. Len(all)
        PROVE  shown[i].reply <= all[j].reply
    <3>1. CASE j \in 1 .. n
      BY <2>4, <3>1 DEF Order, n
    <3>2. CASE j \notin 1 .. n
      <4>1. shown[i].reply <= Taking /\ shown[i].reply \in Nat /\ all[j].reply = Taking + 1
        BY <1>1, <2>4, <3>2 DEF Order
      <4> QED
        BY <1>0, <4>1
    <3> QED
      BY <3>1, <3>2
  <2>8. ASSUME NEW i \in 1 .. Len(shown) PROVE shown[i].reply <= Taking + 1
    BY <1>0, <1>1 DEF Order
  <2>9. outgoing' = all
    BY <2>1 DEF all
  <2>10. \A i, j \in 1 .. Len(shown) : i <= j => shown[i].reply <= shown[j].reply
    BY DEF Order
  <2> QED
    BY <2>2, <2>5, <2>6, <2>7, <2>8, <2>9, <2>10 DEF Order
<1>4. ASSUME SendTelegram \/ SendChannel \/ SendInteraction PROVE Order'
  <2>1. outgoing # <<>> /\ outgoing' = Tail(outgoing) /\ UNCHANGED <<replies, said>>
    BY <1>4, Sends
  <2>2. PICK new \in Shown : shown' = Append(shown, new) /\ new.reply = Head(outgoing).reply
    BY <1>4, Sends
  <2>3. Taking' = Taking
    BY <2>1 DEF Taking
  <2> DEFINE n == Len(shown)
             m == Len(outgoing)
  <2>4. /\ n \in Nat /\ Len(shown') = n + 1 /\ shown'[n + 1] = new
        /\ \A i \in 1 .. n : shown'[i] = shown[i]
    BY <1>1, <2>2
  <2>5. /\ m \in Nat \ {0} /\ Len(outgoing') = m - 1 /\ Head(outgoing) = outgoing[1]
        /\ \A i \in 1 .. m - 1 : outgoing'[i] = outgoing[i + 1]
    BY <1>1, <2>1
  <2>6. new.reply = outgoing[1].reply /\ new.reply \in Nat
    BY <1>1, <2>2, <2>5
  <2>7. ASSUME NEW i \in 1 .. Len(shown')
        PROVE  \/ i \in 1 .. n /\ shown'[i] = shown[i]
               \/ i = n + 1 /\ shown'[i].reply = outgoing[1].reply
    BY <2>4, <2>6
  <2>8. ASSUME NEW i \in 1 .. Len(outgoing')
        PROVE  outgoing'[i] = outgoing[i + 1] /\ i + 1 \in 1 .. m /\ 1 \in 1 .. m /\ 1 <= i + 1
    BY <2>5
  <2>9. 1 \in 1 .. m
    BY <2>5
  <2>10. ASSUME NEW i \in 1 .. Len(shown'), NEW j \in 1 .. Len(shown'), i <= j
         PROVE  shown'[i].reply <= shown'[j].reply
    <3>1. CASE j \in 1 .. n
      <4>1. i \in 1 .. n
        BY <2>4, <2>10, <3>1
      <4> QED
        BY <2>4, <2>10, <3>1, <4>1 DEF Order
    <3>2. CASE j \notin 1 .. n
      <4>1. shown'[j].reply = outgoing[1].reply /\ outgoing[1].reply \in Nat
        BY <1>1, <2>7, <2>9, <3>2
      <4>2. CASE i \in 1 .. n
        BY <2>4, <2>9, <4>1, <4>2 DEF Order
      <4>3. CASE i \notin 1 .. n
        BY <2>7, <4>1, <4>3
      <4> QED
        BY <4>2, <4>3
    <3> QED
      BY <3>1, <3>2
  <2>11. \A i, j \in 1 .. Len(outgoing') : i <= j => outgoing'[i].reply <= outgoing'[j].reply
    <3> TAKE i, j \in 1 .. Len(outgoing')
    <3> HAVE i <= j
    <3>1. i + 1 \in 1 .. m /\ j + 1 \in 1 .. m /\ i + 1 <= j + 1
      BY <2>5
    <3>2. outgoing[i + 1].reply <= outgoing[j + 1].reply
      BY <3>1 DEF Order
    <3> QED
      BY <2>8, <3>2
  <2>12. ASSUME NEW i \in 1 .. Len(shown'), NEW j \in 1 .. Len(outgoing')
         PROVE  shown'[i].reply <= outgoing'[j].reply
    <3>1. outgoing'[j] = outgoing[j + 1] /\ j + 1 \in 1 .. m /\ 1 <= j + 1
      BY <2>8
    <3>2. outgoing[1].reply <= outgoing[j + 1].reply
      BY <2>9, <3>1 DEF Order
    <3>3. CASE i \in 1 .. n
      BY <2>4, <3>1, <3>3 DEF Order
    <3>4. CASE i \notin 1 .. n
      BY <2>7, <3>1, <3>2, <3>4
    <3> QED
      BY <3>3, <3>4
  <2>13. ASSUME NEW i \in 1 .. Len(shown') PROVE shown'[i].reply <= Taking
    BY <2>7, <2>9 DEF Order
  <2>14. ASSUME NEW i \in 1 .. Len(outgoing') PROVE outgoing'[i].reply <= Taking
    BY <2>8 DEF Order
  <2> QED
    BY <2>3, <2>10, <2>11, <2>12, <2>13, <2>14 DEF Order
<1>5. ASSUME NEW e \in Events, Receive(e) PROVE Order'
  BY <1>2, <1>5 DEF Receive
<1>6. ASSUME OpenModal \/ Defer \/ AcknowledgeFails \/ Run \/ RunSuggested \/ SkipEmpty \/ TakeReply \/ Cut \/ AllTaken
      PROVE  Order'
  BY <1>2, <1>6 DEF OpenModal, Defer, AcknowledgeFails, Run, RunSuggested, SkipEmpty, TakeReply, Cut, AllTaken,
     delivery
<1>7. ASSUME \/ SendTelegramFails \/ SendDiscordFails
             \/ DeletePlaceholder \/ DeleteFails \/ NextReply \/ Answered \/ Crash
      PROVE  Order'
  BY <1>2, <1>7 DEF SendTelegramFails, SendDiscordFails, DeletePlaceholder, DeleteFails, NextReply, Answered, Crash
<1>8. ASSUME vars' = vars PROVE Order'
  BY <1>2, <1>8 DEF vars, delivery
<1> QED
  BY <1>3, <1>4, <1>5, <1>6, <1>7, <1>8 DEF Next, Serve, Ended

-----------------------------------------------------------------------------
(* What is shown and queued of a reply that was taken is a beginning of it, *)
(* and all of it as long as nothing failed.                                 *)
Reported(r) ==
    \E left \in Seq(Runes) :
        /\ (PartsOf(shown, r) \o PartsOf(outgoing, r)) \o left = said[r].text
        /\ failed \/ left = <<>>

Progress ==
    /\ \A r \in 1 .. Taking : Reported(r)
    /\ step = "split" => message = Head(replies).text
    /\ step = "done" /\ ~failed => replies = <<>> /\ outgoing = <<>>

(* Named, for the provers to take as it is. *)
Shift(s, t, u) == (s \o t) \o u = s \o (t \o u)

LEMMA Shifts ==
    ASSUME NEW s \in Seq(Runes), NEW t \in Seq(Runes), NEW u \in Seq(Runes)
    PROVE  Shift(s, t, u)
BY DEF Shift

LEMMA TextTypes ==
    ASSUME Remaining, Typed
    PROVE  /\ \A r \in 1 .. Taking : r \in 1 .. Len(said) /\ r \in Nat
           /\ \A r \in 1 .. Len(said) : said[r].text \in Seq(Runes)
           /\ \A r : PartsOf(shown, r) \in Seq(Runes) /\ PartsOf(outgoing, r) \in Seq(Runes)
<1>1. \A r \in 1 .. Taking : r \in 1 .. Len(said) /\ r \in Nat
  BY TakingType
<1>2. ASSUME NEW r \in 1 .. Len(said) PROVE said[r].text \in Seq(Runes)
  <2>1. said[r] \in Replies
    BY DEF Remaining
  <2> QED
    BY <2>1 DEF Replies
<1>3. ASSUME NEW r PROVE PartsOf(shown, r) \in Seq(Runes) /\ PartsOf(outgoing, r) \in Seq(Runes)
  BY PartsOfType DEF Typed
<1> QED
  BY <1>1, <1>2, <1>3

LEMMA InitProgress == Init => Progress
<1> SUFFICES ASSUME Init PROVE Progress
  OBVIOUS
<1>1. said = <<>> /\ replies = <<>> /\ step = "idle"
  BY DEF Init
<1>2. Taking = 0
  BY <1>1 DEF Taking
<1> QED
  BY <1>1, <1>2 DEF Progress

(* A part that is sent moves from what is queued to what is shown. *)
LEMMA SendReports ==
    ASSUME Remaining, Typed, SendTelegram \/ SendChannel \/ SendInteraction,
           NEW r \in 1 .. Taking, Reported(r)
    PROVE  Reported(r)'
<1>1. /\ outgoing # <<>> /\ outgoing' = Tail(outgoing) /\ UNCHANGED <<said, failed>>
      /\ Head(outgoing) \in Parts /\ Tail(outgoing) \in Seq(Parts)
  BY Sends
<1>2. PICK new \in Shown :
        /\ shown' = Append(shown, new)
        /\ new.reply = Head(outgoing).reply /\ new.part = Head(outgoing).part
  BY Sends
<1>3. PICK left \in Seq(Runes) :
        /\ (PartsOf(shown, r) \o PartsOf(outgoing, r)) \o left = said[r].text
        /\ failed \/ left = <<>>
  BY DEF Reported
<1> DEFINE a == PartsOf(shown, r)
           x == Piece(new, r)
           b == PartsOf(outgoing', r)
<1>4. x = Piece(Head(outgoing), r) /\ x \in Seq(Runes)
  BY <1>2, PieceType DEF Piece
<1>5. PartsOf(outgoing, r) = x \o b
  BY <1>1, <1>4, PartsOfHead DEF Typed
<1>6. PartsOf(shown', r) = a \o x
  BY <1>2, PartsOfAppend DEF Typed
<1>7. a \in Seq(Runes) /\ b \in Seq(Runes)
  BY <1>1, PartsOfType DEF Typed
<1> HIDE DEF x
<1>8. Shift(a, x, b)
  BY <1>4, <1>7, Shifts
<1>9. (PartsOf(shown', r) \o b) \o left = said'[r].text
  BY <1>1, <1>3, <1>5, <1>6, <1>8 DEF Shift
<1>10. failed' \/ left = <<>>
  BY <1>1, <1>3
<1> QED
  BY <1>9, <1>10 DEF Reported

(* What is not sent after a failure is left. *)
LEMMA DropReports ==
    ASSUME Remaining, Typed, NEW r \in 1 .. Taking, Reported(r),
           outgoing' = <<>>, failed' = TRUE, UNCHANGED <<shown, said>>
    PROVE  Reported(r)'
<1>1. PICK left \in Seq(Runes) :
        (PartsOf(shown, r) \o PartsOf(outgoing, r)) \o left = said[r].text
  BY DEF Reported
<1> DEFINE a == PartsOf(shown, r)
           b == PartsOf(outgoing, r)
           more == b \o left
<1>2. a \in Seq(Runes) /\ b \in Seq(Runes)
  BY TextTypes
<1>3. Shift(a, b, left)
  BY <1>2, Shifts
<1> HIDE DEF a, b
<1>4. a \o <<>> = a /\ more \in Seq(Runes)
  BY <1>2
<1>5. (a \o <<>>) \o more = said[r].text
  BY <1>1, <1>3, <1>4 DEF Shift, a, b
<1>6. PartsOf(outgoing', r) = <<>> /\ PartsOf(shown', r) = a
  BY PartsOfNone DEF a
<1> HIDE DEF more
<1>7. (PartsOf(shown', r) \o PartsOf(outgoing', r)) \o more = said'[r].text
  BY <1>5, <1>6
<1> QED
  BY <1>4, <1>7 DEF Reported

(* The parts of a reply, when they are queued, are all of it. *)
LEMMA TakeReports ==
    ASSUME Remaining, SplitInv, Typed, Order, Progress, TakeParts, NEW r \in 1 .. Taking + 1
    PROVE  Reported(r)'
<1>1. PICK taken \in Seq(Parts) :
        /\ outgoing' = outgoing \o taken
        /\ Len(taken) = Len(parts)
        /\ \A i \in 1 .. Len(parts) : taken[i].reply = Current /\ taken[i].part = parts[i]
  BY TakenParts
<1>2. /\ UNCHANGED <<said, shown, failed>> /\ replies # <<>> /\ step = "split" /\ returned
  BY DEF TakeParts, Remaining
<1>3. Current = Taking + 1 /\ Current \in 1 .. Len(said) /\ Taking \in Nat /\ Head(replies) = said[Current]
  BY <1>2, HeadIs
<1>4. outgoing \in Seq(Parts) /\ parts \in Seq(Seq(Runes))
  BY DEF Typed, SplitInv, SplitTypes
<1>5. PartsOf(outgoing', r) = PartsOf(outgoing, r) \o PartsOf(taken, r)
  BY <1>1, <1>4, PartsOfConcat
<1>6. CASE r \in 1 .. Taking
  <2>1. r # Current
    BY <1>3, <1>6
  <2>2. PartsOf(taken, r) = <<>>
    BY <1>1, <2>1, PartsOfOthers
  <2>3. PartsOf(outgoing', r) = PartsOf(outgoing, r)
    <3>1. PartsOf(outgoing, r) \in Seq(Runes)
      BY TextTypes
    <3> QED
      BY <1>5, <2>2, <3>1
  <2>4. Reported(r)
    BY <1>6 DEF Progress
  <2> QED
    BY <1>2, <2>3, <2>4 DEF Reported
<1>7. CASE r \notin 1 .. Taking
  <2>1. r = Current /\ r \in Nat /\ r > Taking
    BY <1>3, <1>7
  <2>2. PartsOf(shown, r) = <<>> /\ PartsOf(outgoing, r) = <<>>
    BY <2>1, NotYet
  <2>3. PartsOf(taken, r) = FlattenSeq(parts)
    BY <1>1, <1>4, <2>1, PartsOfOne
  <2> DEFINE f == FlattenSeq(parts)
  <2>4. f \in Seq(Runes)
    BY <1>4, FlattenType
  <2>5. message = (f \o <<>>) \o <<>>
    BY <1>2 DEF SplitInv, SplitTypes, JoinsToMessage
  <2> HIDE DEF f
  <2>6. message = f /\ <<>> \o f = f /\ (<<>> \o f) \o <<>> = f
    BY <2>4, <2>5
  <2>7. f = said[r].text
    BY <1>2, <1>3, <2>1, <2>6 DEF Progress
  <2>8. (PartsOf(shown', r) \o PartsOf(outgoing', r)) \o <<>> = said'[r].text
    BY <1>2, <1>5, <2>2, <2>3, <2>6, <2>7 DEF f
  <2>9. <<>> \in Seq(Runes)
    OBVIOUS
  <2> QED
    BY <2>8, <2>9 DEF Reported
<1> QED
  BY <1>6, <1>7

(* An empty reply is shown as a whole by showing nothing. *)
LEMMA SkipReports ==
    ASSUME Remaining, Typed, Order, Progress, SkipEmpty, NEW r \in 1 .. Taking + 1
    PROVE  Reported(r)'
<1>1. /\ UNCHANGED <<said, shown, outgoing, failed>> /\ replies # <<>> /\ Head(replies).text = <<>>
  BY DEF SkipEmpty
<1>2. Current = Taking + 1 /\ Taking \in Nat /\ Head(replies) = said[Current]
  BY <1>1, HeadIs
<1>3. CASE r \in 1 .. Taking
  <2>1. Reported(r)
    BY <1>3 DEF Progress
  <2> QED
    BY <1>1, <2>1 DEF Reported
<1>4. CASE r \notin 1 .. Taking
  <2>1. r = Current /\ r \in Nat /\ r > Taking
    BY <1>2, <1>4
  <2>2. PartsOf(shown, r) = <<>> /\ PartsOf(outgoing, r) = <<>>
    BY <2>1, NotYet
  <2>3. <<>> \in Seq(Runes) /\ (<<>> \o <<>>) \o <<>> = <<>>
    OBVIOUS
  <2>4. (PartsOf(shown', r) \o PartsOf(outgoing', r)) \o <<>> = said'[r].text
    BY <1>1, <1>2, <2>1, <2>2, <2>3
  <2> QED
    BY <2>3, <2>4 DEF Reported
<1> QED
  BY <1>3, <1>4

LEMMA NextProgress ==
    Remaining /\ Pending /\ SplitInv /\ Typed /\ Order /\ Progress /\ [Next]_vars => Progress'
<1> SUFFICES ASSUME Remaining, Pending, SplitInv, Typed, Order, Progress, [Next]_vars PROVE Progress'
  OBVIOUS
<1>1. Taking \in Nat /\ Taking' \in Nat
  BY NextTaking
<1>2. ASSUME Taking' = Taking, UNCHANGED <<shown, outgoing>>, failed' = failed \/ failed' = TRUE,
             \A r \in 1 .. Taking : said'[r] = said[r],
             step' = "split" => message' = Head(replies').text,
             step' = "done" /\ ~failed' => replies' = <<>> /\ outgoing = <<>>
      PROVE  Progress'
  <2>1. ASSUME NEW r \in 1 .. Taking PROVE Reported(r)'
    <3>1. Reported(r)
      BY DEF Progress
    <3> QED
      BY <1>2, <3>1 DEF Reported
  <2> QED
    BY <1>2, <2>1 DEF Progress
<1>3. ASSUME UNCHANGED <<shown, outgoing, said, replies>>, failed' = failed \/ failed' = TRUE,
             step' = "split" => message' = Head(replies').text,
             step' = "done" /\ ~failed' => replies' = <<>> /\ outgoing = <<>>
      PROVE  Progress'
  <2>1. Taking' = Taking
    BY <1>3 DEF Taking
  <2> QED
    BY <1>2, <1>3, <2>1
<1>4. ASSUME NEW e \in Events, Receive(e) PROVE Progress'
  BY <1>3, <1>4 DEF Receive
<1>5. ASSUME OpenModal PROVE Progress'
  <2>1. replies = <<>> /\ outgoing = <<>>
    BY <1>5 DEF OpenModal, Remaining, Pending
  <2> QED
    BY <1>3, <1>5, <2>1 DEF OpenModal
<1>6. ASSUME Defer \/ AcknowledgeFails PROVE Progress'
  BY <1>3, <1>6 DEF Defer, AcknowledgeFails
<1>7. ASSUME Run PROVE Progress'
  <2>1. said = <<>>
    BY <1>7 DEF Run, Remaining
  <2>2. Len(replies) = 0
    BY <2>1 DEF Remaining
  <2>3. Taking = 0
    BY <2>1, <2>2 DEF Taking
  <2>4. Taking' = Taking
    <3>1. said' = replies' /\ Len(said') \in Nat
      BY <1>7, NextRemaining DEF Run, Remaining
    <3> QED
      BY <2>3, <3>1 DEF Taking
  <2>5. \A r \in 1 .. Taking : said'[r] = said[r]
    BY <2>3
  <2> QED
    BY <1>2, <1>7, <2>4, <2>5 DEF Run
<1>8. ASSUME RunSuggested PROVE Progress'
  <2>1. Taking' = Taking
    <3>1. ~(SkipEmpty \/ TakeParts \/ SendDiscordFails)
      BY <1>8 DEF RunSuggested, SkipEmpty, TakeParts, SendDiscordFails
    <3> QED
      BY <3>1, NextTaking
  <2>2. \A r \in 1 .. Taking : said'[r] = said[r]
    <3>1. \A r \in 1 .. Len(said) : said'[r] = said[r]
      BY <1>8, SaidGrows
    <3> QED
      BY <3>1, TakingType
  <2> QED
    BY <1>2, <1>8, <2>1, <2>2 DEF RunSuggested
<1>9. ASSUME SkipEmpty PROVE Progress'
  <2>1. Taking' = Taking + 1
    <3>1. said' = said /\ replies' = Tail(replies) /\ replies # <<>>
      BY <1>9 DEF SkipEmpty
    <3>2. Len(replies') = Len(replies) - 1 /\ Len(replies) \in Nat /\ Len(said) \in Nat
      BY <3>1, HeadIs
    <3> QED
      BY <3>1, <3>2 DEF Taking
  <2>2. \A r \in 1 .. Taking + 1 : Reported(r)'
    BY <1>9, SkipReports
  <2>3. step' = "next"
    BY <1>9 DEF SkipEmpty
  <2> QED
    BY <2>1, <2>2, <2>3 DEF Progress
<1>10. ASSUME TakeReply PROVE Progress'
  <2>1. step' = "split" /\ message' = Head(replies').text /\ UNCHANGED <<shown, outgoing, said, replies, failed>>
    BY <1>10 DEF TakeReply, Split
  <2> QED
    BY <1>3, <2>1
<1>11. ASSUME Cut PROVE Progress'
  <2>1. message' = message
    BY <1>11 DEF Cut, SplitStep, Advance, CutAfterNewline, CutBeforeNewline, CutHere, CutAt, Return, Recurse
  <2>2. step = "split" /\ UNCHANGED <<step, shown, outgoing, said, replies, failed>>
    BY <1>11 DEF Cut, delivery
  <2>3. message = Head(replies).text
    BY <2>2 DEF Progress
  <2> QED
    BY <1>3, <2>1, <2>2, <2>3
<1>12. ASSUME TakeParts PROVE Progress'
  <2>1. Taking' = Taking + 1
    <3>1. said' = said /\ replies' = Tail(replies) /\ replies # <<>>
      BY <1>12 DEF TakeParts, Remaining
    <3>2. Len(replies') = Len(replies) - 1 /\ Len(replies) \in Nat /\ Len(said) \in Nat
      BY <3>1, HeadIs
    <3> QED
      BY <3>1, <3>2 DEF Taking
  <2>2. \A r \in 1 .. Taking + 1 : Reported(r)'
    BY <1>12, TakeReports
  <2>3. step' \in {"send", "next"}
    BY <1>12 DEF TakeParts
  <2> QED
    BY <2>1, <2>2, <2>3 DEF Progress
<1>13. ASSUME AllTaken \/ NextReply PROVE Progress'
  BY <1>3, <1>13 DEF AllTaken, NextReply
<1>14. ASSUME SendTelegram \/ SendChannel \/ SendInteraction PROVE Progress'
  <2>1. UNCHANGED <<replies, said, step, failed>> /\ step = "send"
    BY <1>14 DEF SendTelegram, SendChannel, SendInteraction
  <2>2. Taking' = Taking
    BY <2>1 DEF Taking
  <2>3. \A r \in 1 .. Taking : Reported(r)'
    BY <1>14, SendReports DEF Progress
  <2> QED
    BY <2>1, <2>2, <2>3 DEF Progress
<1>15. ASSUME SendTelegramFails PROVE Progress'
  <2>1. UNCHANGED <<replies, said, step, shown>> /\ step = "send" /\ outgoing' = <<>> /\ failed' = TRUE
    BY <1>15 DEF SendTelegramFails
  <2>2. Taking' = Taking
    BY <2>1 DEF Taking
  <2>3. \A r \in 1 .. Taking : Reported(r)'
    BY <2>1, DropReports DEF Progress
  <2> QED
    BY <2>1, <2>2, <2>3 DEF Progress
<1>16. ASSUME SendDiscordFails PROVE Progress'
  <2>1. /\ UNCHANGED <<said, step, shown>> /\ step = "send"
        /\ outgoing' = <<>> /\ replies' = <<>> /\ failed' = TRUE
    BY <1>16 DEF SendDiscordFails
  <2>2. Taking' = Len(said)
    BY <2>1, TakingType DEF Taking
  <2>3. ASSUME NEW r \in 1 .. Len(said) PROVE Reported(r)'
    <3>1. CASE r \in 1 .. Taking
      BY <2>1, <3>1, DropReports DEF Progress
    <3>2. CASE r \notin 1 .. Taking
      <4>1. r \in Nat /\ r > Taking
        BY <1>1, <3>2, TakingType
      <4>2. PartsOf(shown', r) = <<>> /\ PartsOf(outgoing', r) = <<>>
        BY <2>1, <4>1, NotYet, PartsOfNone
      <4> DEFINE text == said[r].text
      <4>3. text \in Seq(Runes)
        BY TextTypes
      <4> HIDE DEF text
      <4>4. (<<>> \o <<>>) \o text = text
        BY <4>3
      <4>5. (PartsOf(shown', r) \o PartsOf(outgoing', r)) \o text = said'[r].text
        BY <2>1, <4>2, <4>4 DEF text
      <4> QED
        BY <2>1, <4>3, <4>5 DEF Reported
    <3> QED
      BY <3>1, <3>2
  <2> QED
    BY <2>1, <2>2, <2>3 DEF Progress
<1>17. ASSUME DeletePlaceholder \/ DeleteFails PROVE Progress'
  <2>1. replies = <<>> /\ outgoing = <<>>
    BY <1>17 DEF DeletePlaceholder, DeleteFails, Remaining, Pending
  <2> QED
    BY <1>3, <1>17, <2>1 DEF DeletePlaceholder, DeleteFails
<1>18. ASSUME Answered \/ Crash PROVE Progress'
  BY <1>3, <1>18 DEF Answered, Crash
<1>19. ASSUME vars' = vars PROVE Progress'
  BY <1>3, <1>19 DEF vars, delivery, splitVars, Progress
<1> QED
  BY <1>4, <1>5, <1>6, <1>7, <1>8, <1>9, <1>10, <1>11, <1>12, <1>13, <1>14, <1>15, <1>16, <1>17, <1>18, <1>19
     DEF Next, Serve, Ended

LEMMA Beginning ==
    ASSUME NEW s \in Seq(Runes), NEW t \in Seq(Runes)
    PROVE  IsPrefix(s, s \o t)
<1>1. /\ s \o t \in Seq(Runes) /\ Len(s) <= Len(s \o t)
      /\ \A i \in 1 .. Len(s) : (s \o t)[i] = s[i]
  OBVIOUS
<1>2. SubSeq(s, 1, Len(s)) \in Seq(Runes) /\ Len(SubSeq(s, 1, Len(s))) = Len(s)
      /\ \A i \in 1 .. Len(s) : SubSeq(s, 1, Len(s))[i] = s[i]
  OBVIOUS
<1> DEFINE u == s \o t
<1>3. u \in Seq(Runes) /\ Len(s) <= Len(u) /\ Len(s) \in Nat /\ \A i \in 1 .. Len(s) : u[i] = s[i]
  BY <1>1
<1> HIDE DEF u
<1>4. SubSeq(u, 1, Len(s)) \in Seq(Runes) /\ Len(SubSeq(u, 1, Len(s))) = Len(s)
      /\ \A i \in 1 .. Len(s) : SubSeq(u, 1, Len(s))[i] = s[i]
  BY <1>3
<1>5. SubSeq(s, 1, Len(s)) = SubSeq(u, 1, Len(s))
  BY <1>2, <1>4, SameElements
<1> QED
  BY <1>3, <1>5 DEF IsPrefix, u

(* Whatever is refused, Suggest is not done before its second answer. *)
Twice ==
    Suggests(event) /\ ~OpensModal(event) =>
        /\ step \in {"next", "split", "send", "delete", "bulk", "done"} =>
                Len(said) = IF work THEN 1 ELSE 2
        /\ step = "bulk" => work
        /\ step = "done" => ~work
        /\ step \notin {"defer", "delete"}

LEMMA InitTwice == Init => Twice
BY DEF Init, Twice, NoEvent, Suggests

LEMMA NextTwice == Route /\ Remaining /\ Twice /\ [Next]_vars => Twice'
<1> SUFFICES ASSUME Route, Remaining, Twice, [Next]_vars PROVE Twice'
  OBVIOUS
<1>1. ASSUME NEW e \in Events, Receive(e) PROVE Twice'
  <2>1. event' = e /\ step' \in {"open", "defer", "run"} /\ (step' = "defer" => Defers(e))
    BY <1>1 DEF Receive
  <2>2. Defers(e) => ~Suggests(e)
    BY DEF Defers, Suggests
  <2> QED
    BY <2>1, <2>2 DEF Twice
<1>2. ASSUME Run PROVE Twice'
  <2>1. PICK result \in Outcomes(event) : said' = result
    BY <1>2 DEF Run
  <2>2. event' = event /\ step' = "next" /\ work' = Suggests(event)
    BY <1>2 DEF Run
  <2>3. Suggests(event) => Len(said') = 1
    BY <2>1, OutcomesAreReplies DEF Suggests
  <2> QED
    BY <2>2, <2>3 DEF Twice
<1>3. ASSUME RunSuggested PROVE Twice'
  <2>1. Len(said') = Len(said) + 1
    BY <1>3, SaidGrows
  <2>2. event' = event /\ step = "bulk" /\ step' = "next" /\ work' = FALSE
    BY <1>3 DEF RunSuggested
  <2>3. Suggests(event) /\ ~OpensModal(event) => Len(said) = 1
    BY <2>2 DEF Twice
  <2>4. ASSUME Suggests(event), ~OpensModal(event) PROVE Len(said') = 2
    <3>1. Len(said) = 1
      BY <2>3, <2>4
    <3> QED
      BY <2>1, <3>1
  <2> QED
    BY <2>2, <2>4 DEF Twice
<1>4. ASSUME UNCHANGED <<event, said, work>>, step' = "done" \/ step' = "run", step \in {"open", "defer", "delete"}
      PROVE  Twice'
  BY <1>4 DEF Twice, Route
<1>5. ASSUME UNCHANGED <<event, said, work>>,
             step' \in {"next", "split", "send", "gone"} \/ (step' = "delete" /\ via = "followup"),
             step \in {"next", "split", "send", "delete", "bulk", "done"} \/ step' = "gone"
      PROVE  Twice'
  <2>1. via = "followup" => ~Suggests(event)
    BY DEF Route, Defers, Suggests
  <2> QED
    BY <1>5, <2>1 DEF Twice
<1>6. ASSUME OpenModal \/ Defer \/ AcknowledgeFails \/ DeletePlaceholder \/ DeleteFails PROVE Twice'
  BY <1>4, <1>6 DEF OpenModal, Defer, AcknowledgeFails, DeletePlaceholder, DeleteFails
<1>7. ASSUME SkipEmpty \/ TakeReply \/ Cut \/ TakeParts \/ AllTaken PROVE Twice'
  BY <1>5, <1>7 DEF SkipEmpty, TakeReply, Cut, TakeParts, AllTaken, delivery
<1>8. ASSUME \/ SendTelegram \/ SendTelegramFails \/ SendChannel \/ SendInteraction
             \/ SendDiscordFails \/ NextReply \/ Crash
      PROVE  Twice'
  BY <1>5, <1>8 DEF SendTelegram, SendTelegramFails, SendChannel, SendInteraction, SendDiscordFails,
                    NextReply, Crash
<1>9. ASSUME Answered PROVE Twice'
  BY <1>9 DEF Answered, Twice
<1>10. ASSUME vars' = vars PROVE Twice'
  BY <1>10 DEF vars, delivery, Twice
<1> QED
  BY <1>1, <1>2, <1>3, <1>6, <1>7, <1>8, <1>9, <1>10 DEF Next, Serve, Ended

(* Replies are shown in their order, each from its beginning on without a   *)
(* rune lost, repeated or moved, and as a whole unless a call failed, and a *)
(* Suggest is always answered twice, for every text, limit and kind of      *)
(* request.                                                                 *)
THEOREM AnswersAreInOrder == DeliverySpec => []ShownInOrder
<1>1. Remaining /\ Typed /\ Order /\ Progress /\ Twice => ShownInOrder
  <2> SUFFICES ASSUME Remaining, Typed, Order, Progress, Twice PROVE ShownInOrder
    OBVIOUS
  <2>1. \A i \in 1 .. Len(shown) - 1 : shown[i].reply <= shown[i + 1].reply
    <3> TAKE i \in 1 .. Len(shown) - 1
    <3>1. Len(shown) \in Nat
      BY DEF Typed
    <3>2. i \in 1 .. Len(shown) /\ i + 1 \in 1 .. Len(shown) /\ i <= i + 1
      BY <3>1
    <3> QED
      BY <3>2 DEF Order
  <2>2. ASSUME NEW r \in DOMAIN said
        PROVE  /\ IsPrefix(PartsOf(shown, r), said[r].text)
               /\ step = "done" /\ ~failed => PartsOf(shown, r) = said[r].text
    <3>0. r \in 1 .. Len(said) /\ r \in Nat /\ Taking \in Nat /\ Taking <= Len(said) /\ Len(said) \in Nat
      <4>1. said \in Seq(Replies)
        BY DEF Remaining
      <4> QED
        BY <4>1, TakingType
    <3> DEFINE a == PartsOf(shown, r)
               b == PartsOf(outgoing, r)
               text == said[r].text
    <3>1. a \in Seq(Runes) /\ b \in Seq(Runes) /\ text \in Seq(Runes)
      BY <3>0, TextTypes
    <3>2. CASE r \in 1 .. Taking
      <4>1. PICK left \in Seq(Runes) : (a \o b) \o left = text /\ (failed \/ left = <<>>)
        BY <3>2 DEF Progress, Reported
      <4>2. step = "done" /\ ~failed => b = <<>>
        BY PartsOfNone DEF Progress
      <4> HIDE DEF a, b, text
      <4> DEFINE more == b \o left
      <4>3. more \in Seq(Runes)
        BY <3>1
      <4>4. Shift(a, b, left)
        BY <3>1, Shifts
      <4>5. a \o more = text
        BY <4>1, <4>4 DEF Shift
      <4>6. IsPrefix(a, text)
        <5> HIDE DEF more
        <5>1. IsPrefix(a, a \o more)
          BY <3>1, <4>3, Beginning
        <5> QED
          BY <4>5, <5>1
      <4>7. ASSUME step = "done", ~failed PROVE a = text
        <5>1. b = <<>> /\ left = <<>>
          BY <4>1, <4>2, <4>7
        <5>2. (a \o <<>>) \o <<>> = a
          BY <3>1
        <5> QED
          BY <4>1, <5>1, <5>2
      <4> QED
        BY <4>6, <4>7 DEF a, text
    <3>3. CASE r \notin 1 .. Taking
      <4>1. r > Taking
        BY <3>0, <3>3
      <4>2. a = <<>>
        BY <3>0, <4>1, NotYet
      <4>3. IsPrefix(a, text)
        <5> HIDE DEF a, text
        <5>1. IsPrefix(<<>>, <<>> \o text)
          BY <3>1, <4>2, Beginning
        <5>2. <<>> \o text = text
          BY <3>1
        <5> QED
          BY <4>2, <5>1, <5>2
      <4>4. ~(step = "done" /\ ~failed)
        <5> SUFFICES ASSUME step = "done", ~failed PROVE FALSE
          OBVIOUS
        <5>1. Len(replies) = 0
          BY DEF Progress
        <5> QED
          BY <3>0, <4>1, <5>1 DEF Taking
      <4> QED
        BY <4>3, <4>4
    <3> QED
      BY <3>2, <3>3
  <2>3. \A r : ShownOf(r) = PartsOf(shown, r)
    BY DEF ShownOf, PartsOf, Piece
  <2>4. step = "done" /\ Suggests(event) /\ ~OpensModal(event) => Len(said) = 2
    BY DEF Twice
  <2> QED
    BY <2>1, <2>2, <2>3, <2>4 DEF ShownInOrder
<1> QED
  BY <1>1, InitRemaining, NextRemaining, InitPartsCut, NextPartsCut, InitPending, NextPending,
     InitSplit, NextSplit, InitTyped, NextTyped, InitOrder, NextOrder, InitProgress, NextProgress,
     InitRoute, NextRoute, InitTwice, NextTwice, PTL DEF DeliverySpec

-----------------------------------------------------------------------------
(* What Terminates fails of: the texts that are split for ever have wider   *)
(* runes, for which SplitMessage calls itself again.                        *)
NarrowTextsShrink ==
    [][Cut /\ Narrow(message) => returned' \/ Len(rest') < Len(rest)]_vars

(* A text of one-byte runes is read once: SplitMessage does not call itself *)
(* for it, and every step of its loop takes a rune or is the last one, so   *)
(* that there are no more steps than runes and one.                         *)
THEOREM NarrowTextsAreReadOnce == DeliverySpec => NarrowTextsShrink
<1>1. ASSUME SplitInv, Cut, Narrow(message) PROVE returned' \/ Len(rest') < Len(rest)
  <2>1. chunk \in Seq(Runes) /\ rest \in Seq(Runes) /\ message \in Seq(Runes)
    BY <1>1 DEF SplitInv, SplitTypes
  <2>2. rest # <<>> => Len(Tail(rest)) < Len(rest)
    BY <2>1
  <2>3. CASE Return
    BY <2>3 DEF Return
  <2>4. CASE Recurse
    <3>1. Narrow(chunk)
      <4>1. PICK k \in Nat :
              /\ k + Len(chunk) + Len(rest) = Len(message)
              /\ \A i \in 1 .. Len(chunk) : message[k + i] = chunk[i]
        BY <1>1, Unsplit
      <4>2. \A i \in 1 .. Len(chunk) : k + i \in DOMAIN message /\ message[k + i] = chunk[i]
        BY <2>1, <4>1
      <4>3. \A i \in 1 .. Len(chunk) : Width[chunk[i]] = 1
        BY <1>1, <4>2 DEF Narrow
      <4> QED
        BY <2>1, <4>3 DEF Narrow
    <3>2. Bytes(chunk) \in Nat /\ Limit \in Nat /\ Bytes(chunk) <= Limit /\ Bytes(chunk) > Limit
      BY <1>1, <2>1, <2>4, <3>1, BytesType, RunesAssumption DEF Recurse, SplitInv, ChunkFits
    <3> QED
      BY <3>2
  <2>5. CASE Advance \/ CutAfterNewline \/ CutBeforeNewline \/ CutHere
    <3>1. rest # <<>> /\ rest' = Tail(rest)
      BY <2>5 DEF Advance, CutAfterNewline, CutBeforeNewline, CutHere, CutAt
    <3> QED
      BY <2>2, <3>1
  <2> QED
    BY <1>1, <2>3, <2>4, <2>5 DEF Cut, SplitStep
<1>2. SplitInv => [Cut /\ Narrow(message) => returned' \/ Len(rest') < Len(rest)]_vars
  BY <1>1
<1> QED
  BY <1>2, InitRemaining, NextRemaining, InitSplit, NextSplit, PTL DEF DeliverySpec, NarrowTextsShrink
=============================================================================
