--------------------------- MODULE MCSplitMessage ---------------------------
(* An instance of SplitMessage for TLC: text with Latin and Cyrillic. *)
EXTENDS SplitMessage

CONSTANTS latin, cyrillic, newlineRune

Mixed == {latin, cyrillic, newlineRune}
MixedWidth == [r \in Mixed |-> IF r = cyrillic THEN 2 ELSE 1]
=============================================================================
