----------------------------- MODULE MCFtsIndex -----------------------------
(* Two lists, three contents and two new layouts: a rebuild can follow a    *)
(* rebuild that was cut short, with saves in between.                       *)
EXTENDS FtsIndex

CONSTANTS sell, wish, other, stored

MCLists  == {sell, wish}
MCBodies == {NoCards, other, stored}
=============================================================================
