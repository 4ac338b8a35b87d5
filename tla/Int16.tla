-------------------------------- MODULE Int16 --------------------------------
(* Quantities: Go's int16, in which parseCardListExport reads and sums the   *)
(* copies of a card and Search sums them over the lines of a message.        *)
EXTENDS Integers

CONSTANT Half  \* 2^15

ASSUME HalfAssumption == Half \in Nat \ {0}

Quantities == -Half .. Half - 1

(* Mutant: quantities as wide as they come. *)
Unwrapped(n) == n

(* int16(n), and what += leaves of n: two's complement. *)
Wrap(n) == ((n + Half) % (2 * Half)) - Half
=============================================================================
