------------------------------ MODULE MCPanel ------------------------------
(* An instance of Panel for TLC. *)
EXTENDS Panel

CONSTANTS p1, p2, a1

TwoPages == {p1, p2}
OneAction == {a1}
=============================================================================
