----------------------------- MODULE MCSession -----------------------------
(* An instance of Session for TLC. *)
EXTENDS Session

CONSTANTS w1, w2

TwoWorkers == {w1, w2}
=============================================================================
