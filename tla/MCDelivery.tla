----------------------------- MODULE MCDelivery -----------------------------
(* An instance of Delivery for TLC: every search result of Latin and        *)
(* Cyrillic up to a length, and notices of one and two parts.               *)
EXTENDS Delivery

CONSTANTS latin, cyrillic, newlineRune

Mixed == {latin, cyrillic, newlineRune}
MixedWidth == [r \in Mixed |-> IF r = cyrillic THEN 2 ELSE 1]
AnyText == BoundedSeq(Mixed, MaxLength - 1)
FewNotices == {<<latin>>, <<latin, newlineRune, latin, latin, latin>>}
OneRune == <<latin>>
=============================================================================
