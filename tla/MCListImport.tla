---------------------------- MODULE MCListImport ----------------------------
(* An instance of ListImport for TLC: quantities of three bits, of which    *)
(* two lines of three are too many, and every export of up to three lines.  *)
(* A number may be negative, as Atoi reads it: 3 + 3 - 3 wraps on the way   *)
(* to a sum that fits.                                                      *)
EXTENDS ListImport, SequencesExt

CONSTANTS a, b, c, malformed, noRow, noHash

ThreeCards == {a, b, c}
FiveLines ==
    {[card |-> a, number |-> 3], [card |-> a, number |-> -3],
     [card |-> b, number |-> 1], [card |-> c, number |-> 1], malformed}
ShortExports == BoundedSeq(FiveLines, 3)
OneToThree == 1 .. 3
=============================================================================
