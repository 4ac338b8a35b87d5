---------------------------- MODULE SplitMessage ----------------------------
(***************************************************************************)
(* SplitMessage (internal/lib/tgutil/split.go) cuts a reply into the parts *)
(* that Telegram and Discord accept.  A step is an iteration of its loop   *)
(* over the runes of the text, or its end.  A rune is told apart by its    *)
(* width in bytes and by being a newline; the positions that the code      *)
(* keeps as byte offsets are the runes between them: chunk is s[start:idx].*)
(***************************************************************************)
EXTENDS Naturals, Sequences, SequencesExt

CONSTANTS
    Runes,      \* the runes of messages
    Newline,    \* '\n'
    Width,      \* bytes of each rune in UTF-8
    Limit,      \* limit, in bytes
    MaxLength   \* bound on the runes of a message

ASSUME RunesAssumption ==
    /\ Newline \in Runes
    /\ Width \in [Runes -> 1 .. 4] /\ Width[Newline] = 1
    /\ Limit \in Nat \ {0} /\ MaxLength \in Nat

VARIABLES
    message,   \* what SplitMessage was first called with
    parts,     \* the parts cut so far, by all calls
    chunk,     \* the runes from start up to the one at idx
    newline,   \* where chunk has its last newline since the last cut, or 0
    rest,      \* the runes from idx on
    returned

splitVars == <<message, parts, chunk, newline, rest, returned>>

Bytes(s) == SumFunction([i \in DOMAIN s |-> Width[s[i]]])

SplitTypeOK ==
    /\ message \in Seq(Runes)
    /\ chunk \in BoundedSeq(Runes, Len(message))
    /\ rest \in BoundedSeq(Runes, Len(message))
    /\ \A i \in DOMAIN parts : parts[i] \in BoundedSeq(Runes, Len(message))
    /\ newline \in 0 .. Len(chunk)
    /\ newline # 0 => chunk[newline] = Newline
    /\ returned \in BOOLEAN

SplitInit ==
    /\ message \in BoundedSeq(Runes, MaxLength)
    /\ chunk = <<>> /\ newline = 0
    /\ IF Bytes(message) <= Limit
         THEN parts = <<message>> /\ rest = <<>> /\ returned = TRUE
         ELSE parts = <<>> /\ rest = message /\ returned = FALSE

(* Another call, for the adapters. *)
Split(text) ==
    /\ message' = text
    /\ chunk' = <<>> /\ newline' = 0
    /\ IF Bytes(text) <= Limit
         THEN parts' = <<text>> /\ rest' = <<>> /\ returned' = TRUE
         ELSE parts' = <<>> /\ rest' = text /\ returned' = FALSE

-----------------------------------------------------------------------------
Rune == Head(rest)

(* Mutant: idx-start > limit. *)
FullPastLimit == Bytes(chunk) > Limit

Full == Bytes(chunk) >= Limit    \* idx-start >= limit

(* lastNewline with the current rune taken in, as an index of chunk. *)
LastNewline == IF Rune = Newline THEN Len(chunk) + 1 ELSE newline

(* The chunk with the newline at its end is short enough. *)
NewlineFits ==
    /\ LastNewline # 0
    /\ Bytes(SubSeq(Append(chunk, Rune), 1, LastNewline)) <= Limit

(* Mutant: the rune after the cut is taken for the newline and skipped. *)
CutDroppingNewline(n) ==
    /\ parts' = Append(parts, SubSeq(chunk, 1, n))
    /\ chunk' = Append(SubSeq(chunk, n + 2, Len(chunk)), Rune)
    /\ newline' = 0
    /\ rest' = Tail(rest)
    /\ UNCHANGED <<message, returned>>

(* Mutant: lastNewline is not reset. *)
CutKeepingNewline(n) ==
    /\ parts' = Append(parts, SubSeq(chunk, 1, n))
    /\ chunk' = Append(SubSeq(chunk, n + 1, Len(chunk)), Rune)
    /\ newline' = newline
    /\ rest' = Tail(rest)
    /\ UNCHANGED <<message, returned>>

(* The first n runes of chunk become a part, and the loop goes on.         *)
CutAt(n) ==
    /\ parts' = Append(parts, SubSeq(chunk, 1, n))
    /\ chunk' = Append(SubSeq(chunk, n + 1, Len(chunk)), Rune)
    /\ newline' = 0
    /\ rest' = Tail(rest)
    /\ UNCHANGED <<message, returned>>

Advance ==
    /\ rest # <<>> /\ ~Full
    /\ chunk' = Append(chunk, Rune)
    /\ newline' = LastNewline
    /\ rest' = Tail(rest)
    /\ UNCHANGED <<message, parts, returned>>

(* Mutant: the newline is left for the next part. *)
CutAtNewline ==
    /\ rest # <<>> /\ Full /\ NewlineFits
    /\ CutAt(LastNewline - 1)

(* Mutant: the cut is made here for all that. *)
CutPastNewline ==
    /\ rest # <<>> /\ Full /\ NewlineFits
    /\ CutAt(Len(chunk))

CutAfterNewline ==
    /\ rest # <<>> /\ Full /\ NewlineFits
    /\ CutAt(LastNewline)

CutBeforeNewline ==
    /\ rest # <<>> /\ Full /\ LastNewline # 0 /\ ~NewlineFits
    /\ CutAt(LastNewline - 1)

CutHere ==
    /\ rest # <<>> /\ Full /\ LastNewline = 0
    /\ CutAt(Len(chunk))

Return ==
    /\ rest = <<>> /\ ~returned
    /\ Bytes(chunk) <= Limit
    /\ parts' = Append(parts, chunk)
    /\ chunk' = <<>> /\ newline' = 0
    /\ returned' = TRUE
    /\ UNCHANGED <<message, rest>>

(* SplitMessage(remaining, limit), whose parts are appended to ours.       *)
Recurse ==
    /\ rest = <<>> /\ ~returned
    /\ Bytes(chunk) > Limit
    /\ chunk' = <<>> /\ newline' = 0
    /\ rest' = chunk
    /\ UNCHANGED <<message, parts, returned>>

SplitStep ==
    \/ Advance \/ CutAfterNewline \/ CutBeforeNewline \/ CutHere
    \/ Return \/ Recurse

Returned == returned /\ UNCHANGED splitVars

Spec == SplitInit /\ [][SplitStep \/ Returned]_splitVars
FairSpec == Spec /\ WF_splitVars(SplitStep)

-----------------------------------------------------------------------------
(* At every moment the parts and what is left are the message: no rune of  *)
(* a reply is lost, duplicated or moved by any of the four cuts.           *)
JoinsToMessage == FlattenSeq(parts) \o chunk \o rest = message

(* The platforms refuse an empty message, and the parts after a refused    *)
(* one are not sent.                                                       *)
NoEmptyPart == message # <<>> => \A i \in DOMAIN parts : parts[i] # <<>>

(* If every line is shorter than the limit, as those of owners and cards   *)
(* are, then no line is cut.  The adapters cut after formatting, and a     *)
(* part that opens a tag it does not close is refused.                     *)
ShortLines(s) ==
    \A i \in DOMAIN s : \A j \in i .. Len(s) :
        ~Contains(SubSeq(s, i, j), Newline) => Bytes(SubSeq(s, i, j)) < Limit

LinesKeptWhole ==
    ShortLines(message) =>
        \A i \in 1 .. Len(parts) - 1 : Last(parts[i]) = Newline \/ parts[i + 1][1] = Newline

(* A part of one-byte runes is one of the "chunks not exceeding limit      *)
(* bytes" (split.go:3).  Wider runes make a part longer, since a cut comes *)
(* a rune late, but never by more than its last two runes.                 *)
Narrow(s) == \A i \in DOMAIN s : Width[s[i]] = 1

TooLongByTwoRunes ==
    \A i \in DOMAIN parts : Bytes(parts[i]) > Limit =>
        ~Narrow(parts[i]) /\ Bytes(SubSeq(parts[i], 1, Len(parts[i]) - 2)) < Limit

(* SplitMessage returns, whatever the text.                                *)
Terminates == <>returned
=============================================================================
