--------------------------- MODULE FtsIndexProofs ---------------------------
(***************************************************************************)
(* Where the search index can fall behind card_lists, for any lists,       *)
(* contents and number of upgrades.                                        *)
(***************************************************************************)
EXTENDS FtsIndex, TLAPS

(* A table an earlier process left is what the next one goes by: it is     *)
(* complete in the file, and not only in the process that uses it.         *)
CompleteOnDisk ==
    table = "current" /\ step # "fill" /\ ~torn => fts = rows

FilledAfterCreate == step = "fill" => table = "current"

IInv == TypeOK /\ CompleteOnDisk /\ FilledAfterCreate

LEMMA InitInv == Init => IInv
<1>. SUFFICES ASSUME Init PROVE IInv
  OBVIOUS
<1>1. upgrades \in 0 .. MaxUpgrades
  BY MaxUpgradesAssumption DEF Init
<1>2. fts \in [Lists -> Bodies]
  BY BodiesAssumption DEF Init, Empty
<1>3. TypeOK
  BY <1>1, <1>2, Zenon DEF Init, TypeOK
<1>. QED  BY <1>3 DEF Init, IInv, CompleteOnDisk, FilledAfterCreate

LEMMA NextInv == IInv /\ [Next]_vars => IInv'
<1>. SUFFICES ASSUME IInv, [Next]_vars PROVE IInv'
  OBVIOUS
<1>. USE DEF IInv, CompleteOnDisk, FilledAfterCreate
<1>1. CASE Start
  BY <1>1 DEF Start, TypeOK, database
<1>2. CASE Inspect
  <2>. USE DEF TypeOK, database
  <2>1. UNCHANGED <<rows, fts, table, supported, upgrades, torn>> /\ step = "inspect"
    BY <1>2 DEF Inspect
  <2>2. CASE table = "current" /\ Up(TRUE)
    <3>1. step' = "up" /\ enabled' = TRUE
      BY <2>2, Zenon DEF Up
    <3>. QED  BY <2>1, <2>2, <3>1
  <2>3. CASE table = "none" /\ step' = "create" /\ UNCHANGED enabled
    BY <2>1, <2>3
  <2>. QED  BY <1>2, <2>2, <2>3 DEF Inspect
<1>3. CASE Drop
  BY <1>3, BodiesAssumption DEF Drop, TypeOK, Empty
<1>4. CASE Create
  BY <1>4, BodiesAssumption DEF Create, TypeOK, Empty
<1>5. CASE Fill
  BY <1>5 DEF Fill, Up, TypeOK
<1>6. CASE StatementFails
  BY <1>6 DEF StatementFails, Up, TypeOK, database
<1>7. CASE Crash
  BY <1>7 DEF Crash, TypeOK, database
<1>8. CASE Upgrade
  BY <1>8, MaxUpgradesAssumption DEF Upgrade, TypeOK
<1>9. ASSUME NEW l \in Lists, NEW body \in Bodies, SaveCardList(l, body)
      PROVE  IInv'
  <2>1. step = "up" /\ Write(l, body) /\ UNCHANGED <<table, step, supported, enabled, upgrades>>
    BY <1>9 DEF SaveCardList
  <2>2. TypeOK'
    BY <2>1 DEF Write, TypeOK
  <2>3. CompleteOnDisk'
    <3>1. ASSUME table = "current", ~torn'
          PROVE  enabled /\ ~torn
      BY <2>1, <3>1 DEF Write, TypeOK
    <3>. QED  BY <2>1, <3>1 DEF Write, TypeOK
  <2>. QED  BY <2>1, <2>2, <2>3
<1>10. CASE UNCHANGED vars
  BY <1>10 DEF vars, database, TypeOK
<1>. QED  BY <1>1, <1>2, <1>3, <1>4, <1>5, <1>6, <1>7, <1>8, <1>9, <1>10 DEF Next

(* A process that searches the index finds every card of card_lists in it  *)
(* unless a rebuild was cut short or lists were saved with the index off,  *)
(* however often it was started, upgraded and killed.                      *)
THEOREM IndexIsComplete == Spec => []IncompleteOnlyIfTorn
<1>1. IInv => IncompleteOnlyIfTorn
  BY DEF IInv, TypeOK, CompleteOnDisk, IncompleteOnlyIfTorn
<1>. QED  BY InitInv, NextInv, <1>1, PTL DEF Spec

(* The index is used only by a process that is up and only with the        *)
(* current column layout.                                                  *)
THEOREM Typing == Spec => []TypeOK
<1>1. IInv => TypeOK
  BY DEF IInv
<1>. QED  BY InitInv, NextInv, <1>1, PTL DEF Spec
=============================================================================
