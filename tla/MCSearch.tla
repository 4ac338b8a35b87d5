------------------------------ MODULE MCSearch ------------------------------
(* An instance of Search for TLC: "shock" finds Shock and Sudden Shock,     *)
(* "sudden" the latter only, and a line of dashes has no canonical form.    *)
(* Quantities are -3 .. 2: two lines may find too many copies.              *)
EXTENDS Search, TLC

CONSTANTS m1, shock, sudden, dashes, Shock, SuddenShock, l1, l2, noRow

OneMessage == {m1}
AllTerms == {shock, sudden, dashes}
Punctuation == {dashes}
TwoCards == {Shock, SuddenShock}
TwoLists == {l1, l2}
FourContents ==
    {(Shock :> copies[1]) @@ (SuddenShock :> copies[2]) :
        copies \in {<<noRow, noRow>>, <<0, noRow>>, <<1, 2>>, <<2, 1>>}}
TwoCardMatches == {<<shock, Shock>>, <<shock, SuddenShock>>, <<sudden, SuddenShock>>}
=============================================================================
