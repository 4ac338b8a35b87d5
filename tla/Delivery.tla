------------------------------ MODULE Delivery ------------------------------
(***************************************************************************)
(* One request from its arrival to the last part of its answer: the        *)
(* routing and sending of the two adapters (internal/telegram,             *)
(* internal/discord) around the commands of internal/chat, with            *)
(* SplitMessage cutting each reply.  Requests share nothing here: each is  *)
(* served in a goroutine of its own.                                       *)
(*                                                                         *)
(* A call of a platform may fail for any reason.  Discord shows a deferred *)
(* interaction as a placeholder, which its first follow-up replaces and    *)
(* whose visibility that follow-up takes.                                  *)
(***************************************************************************)
EXTENDS SplitMessage

CONSTANTS
    Texts,    \* formatted results of a search; the adapters allow for empty ones
    Notices,  \* formatted texts of the other replies
    Mention   \* "<@id> ", ahead of the summary of a Suggest

ASSUME TextsAssumption == Texts \subseteq Seq(Runes)
ASSUME NoticesAssumption == Notices \subseteq Seq(Runes) \ {<<>>}
ASSUME MentionAssumption == Mention \in Seq(Runes)

VARIABLES
    event,        \* the request
    step,
    interaction,  \* the Discord interaction, and "none" for messages
    via,          \* how replies are delivered
    replies,      \* []chat.Reply still to be split
    outgoing,     \* parts still to be sent
    replyTo,      \* the message the next part quotes, or 0
    shown,        \* what the bot has sent to the chat; the request is
                  \* message 1 of the chat, and shown[i] message i + 1
    work,         \* Suggest has returned a function, which has yet to run
    said,         \* history: every reply that a command made
    failed        \* history: a call of the platform failed

delivery == <<event, step, interaction, via, replies, outgoing, replyTo, shown, work, said, failed>>
vars == <<splitVars, delivery>>

Commands == {"help", "search", "sell", "deckbox", "suggestdeckbox"}

(* blank: there is no text but white space.  Discord's messages are always *)
(* searched, and never blank (messageRequest); the modals are those that   *)
(* slash commands open; help takes no text, deckbox has it required.       *)
Events ==
    {e \in [by : {"telegram", "message", "slash", "modal"}, command : Commands, blank : BOOLEAN] :
        /\ e.by = "message" => e.command = "search" /\ ~e.blank
        /\ e.by = "modal" => e.command \in {"search", "sell", "suggestdeckbox"}
        /\ e.command = "help" => e.blank}

NoEvent == [by |-> "none", command |-> "none", blank |-> TRUE]

Interaction(e) == e.by \in {"slash", "modal"}

(* chat.Commands: all of them but Start call the domain, unless there is no *)
(* text; Suggest does so in the function it returns.                       *)
ReachesStorage(e) == e.command \in {"search", "sell", "deckbox"} /\ ~e.blank
Suggests(e) == e.command = "suggestdeckbox" /\ ~e.blank

Reply(text, private, quotes) == [text |-> text, private |-> private, replyTo |-> quotes]
Replies == [text : Seq(Runes), private : BOOLEAN, replyTo : BOOLEAN]
Parts == [reply : Nat, part : Seq(Runes), private : BOOLEAN, first : BOOLEAN, quotes : BOOLEAN]
Shown == [reply : Nat, part : Seq(Runes), first : BOOLEAN, ephemeral : BOOLEAN, quote : Nat]

TypeOK ==
    /\ SplitTypeOK
    /\ event \in Events \union {NoEvent}
    /\ step \in {"idle", "open", "defer", "run", "next", "split", "send", "delete", "bulk", "done", "gone"}
    /\ interaction \in {"none", "open", "public", "private", "answered", "deleted"}
    /\ via \in {"telegram", "channel", "followup", "response"}
    /\ \A i \in DOMAIN replies : replies[i] \in Replies
    /\ \A i \in DOMAIN outgoing : outgoing[i] \in Parts
    /\ \A i \in DOMAIN shown : shown[i] \in Shown
    /\ \A i \in DOMAIN said : said[i] \in Replies
    /\ replyTo \in 0 .. Len(shown) + 1
    /\ work \in BOOLEAN /\ failed \in BOOLEAN
    /\ interaction # "none" <=> Interaction(event)

Init ==
    /\ message = <<>> /\ parts = <<>> /\ chunk = <<>> /\ newline = 0 /\ rest = <<>>
    /\ returned = TRUE
    /\ event = NoEvent /\ step = "idle" /\ interaction = "none" /\ via = "telegram"
    /\ replies = <<>> /\ outgoing = <<>> /\ replyTo = 0 /\ shown = <<>>
    /\ work = FALSE /\ said = <<>> /\ failed = FALSE

-----------------------------------------------------------------------------
(* Routing *)

(* A slash command whose input may span lines opens a form for it. *)
OpensModal(e) ==
    /\ e.by = "slash"
    /\ \/ e.command = "suggestdeckbox"
       \/ e.command \in {"search", "sell"} /\ e.blank

(* Mutant: a registration is answered like help. *)
DefersSearches(e) ==
    \/ e.by = "modal" /\ e.command \in {"search", "sell"}
    \/ e.by = "slash" /\ e.command \in {"search", "sell"} /\ ~e.blank

(* What command and onInteraction hand to deferred. *)
Defers(e) ==
    \/ e.by = "modal" /\ e.command \in {"search", "sell"}
    \/ e.by = "slash" /\ e.command \in {"search", "sell"} /\ ~e.blank
    \/ e.by = "slash" /\ e.command = "deckbox"

(* Telegram's handlers, onMessage, command and the modal of onInteraction. *)
Receive(e) ==
    /\ step = "idle"
    /\ event' = e
    /\ interaction' = IF Interaction(e) THEN "open" ELSE "none"
    /\ via' = CASE e.by = "telegram" -> "telegram"
                [] e.by = "message"  -> "channel"
                [] OTHER             -> IF Defers(e) THEN "followup" ELSE "response"
    /\ step' = CASE OpensModal(e) -> "open" [] Defers(e) -> "defer" [] OTHER -> "run"
    /\ UNCHANGED <<splitVars, replies, outgoing, replyTo, shown, work, said, failed>>

OpenModal ==
    /\ step = "open"
    /\ interaction' = "answered"
    /\ step' = "done"
    /\ UNCHANGED <<splitVars, event, via, replies, outgoing, replyTo, shown, work, said, failed>>

(* Mutant: every placeholder is public. *)
DeferPublicly ==
    /\ step = "defer"
    /\ interaction' = "public"
    /\ step' = "run"
    /\ UNCHANGED <<splitVars, event, via, replies, outgoing, replyTo, shown, work, said, failed>>

(* deferred: acknowledge, then run. *)
Defer ==
    /\ step = "defer"
    /\ interaction' = IF event.command = "deckbox" THEN "private" ELSE "public"
    /\ step' = "run"
    /\ UNCHANGED <<splitVars, event, via, replies, outgoing, replyTo, shown, work, said, failed>>

(* Without the acknowledgement nothing is run, and no form is filled in. *)
AcknowledgeFails ==
    /\ step \in {"open", "defer"}
    /\ failed' = TRUE
    /\ step' = "done"
    /\ UNCHANGED <<splitVars, event, interaction, via, replies, outgoing, replyTo, shown, work, said>>

-----------------------------------------------------------------------------
(* chat.Commands *)

(* A search that fails, or has no line to search for, says nothing. *)
Results ==
    {<<>>} \union
    {<<Reply(main, FALSE, TRUE)>> : main \in Texts} \union
    {<<Reply(main, FALSE, TRUE), Reply(notFound, FALSE, TRUE)>> : main \in Texts, notFound \in Notices}

Noted == {<<Reply(text, TRUE, FALSE)>> : text \in Notices}

Outcomes(e) ==
    CASE e.command = "search" -> IF e.blank THEN {<<>>} ELSE Results
      [] e.command = "sell"   -> IF e.blank THEN Noted ELSE Results
      [] OTHER                -> Noted

Run ==
    /\ step = "run"
    /\ \E result \in Outcomes(event) :
        /\ replies' = result
        /\ said' = result
    /\ work' = Suggests(event)
    /\ step' = "next"
    /\ UNCHANGED <<splitVars, event, interaction, via, outgoing, replyTo, shown, failed>>

(* The function that Suggest returned: the bulk Refresh, and its summary.  *)
(* On Discord that is a message to the channel which pings the requester,  *)
(* not part of the interaction.                                            *)
RunSuggested ==
    /\ step = "bulk"
    /\ \E text \in Notices :
        /\ replies' = <<Reply(IF via = "telegram" THEN text ELSE Mention \o text, FALSE, TRUE)>>
        /\ said' = said \o replies'
    /\ work' = FALSE
    /\ via' = IF via = "telegram" THEN "telegram" ELSE "channel"
    /\ step' = "next"
    /\ UNCHANGED <<splitVars, event, interaction, outgoing, replyTo, shown, failed>>

-----------------------------------------------------------------------------
(* Splitting.  Telegram and channel messages are split and sent reply by   *)
(* reply; the messages of an interaction are all made first.               *)

Current == Len(said) - Len(replies) + 1

(* Mutant: an empty reply ends the answer. *)
StopAtEmpty ==
    /\ step = "next" /\ replies # <<>> /\ Head(replies).text = <<>>
    /\ replies' = <<>>
    /\ UNCHANGED <<splitVars, event, step, interaction, via, outgoing, replyTo, shown, work, said, failed>>

SkipEmpty ==
    /\ step = "next" /\ replies # <<>> /\ Head(replies).text = <<>>
    /\ replies' = Tail(replies)
    /\ UNCHANGED <<splitVars, event, step, interaction, via, outgoing, replyTo, shown, work, said, failed>>

TakeReply ==
    /\ step = "next" /\ replies # <<>> /\ Head(replies).text # <<>>
    /\ Split(Head(replies).text)
    /\ step' = "split"
    /\ UNCHANGED <<event, interaction, via, replies, outgoing, replyTo, shown, work, said, failed>>

Cut ==
    /\ step = "split" /\ SplitStep
    /\ UNCHANGED delivery

(* Mutant: the quoted message is set once for all replies. *)
TakePartsKeepingQuote ==
    /\ step = "split" /\ returned
    /\ outgoing' = outgoing \o
        [i \in DOMAIN parts |-> [reply |-> Current, part |-> parts[i], private |-> Head(replies).private,
                                 first |-> i = 1, quotes |-> Head(replies).replyTo]]
    /\ replyTo' = IF replyTo = 0 /\ Head(replies).replyTo THEN 1 ELSE replyTo
    /\ replies' = Tail(replies)
    /\ step' = IF via \in {"telegram", "channel"} THEN "send" ELSE "next"
    /\ UNCHANGED <<splitVars, event, interaction, via, shown, work, said, failed>>

TakeParts ==
    /\ step = "split" /\ returned
    /\ outgoing' = outgoing \o
        [i \in DOMAIN parts |-> [reply |-> Current, part |-> parts[i], private |-> Head(replies).private,
                                 first |-> i = 1, quotes |-> Head(replies).replyTo]]
    /\ replyTo' = IF Head(replies).replyTo THEN 1 ELSE 0
    /\ replies' = Tail(replies)
    /\ step' = IF via \in {"telegram", "channel"} THEN "send" ELSE "next"
    /\ UNCHANGED <<splitVars, event, interaction, via, shown, work, said, failed>>

(* followUp: with nothing to say there is a placeholder to delete. *)
AllTaken ==
    /\ step = "next" /\ replies = <<>>
    /\ step' = IF via = "followup" /\ outgoing = <<>> THEN "delete" ELSE "send"
    /\ UNCHANGED <<splitVars, event, interaction, via, replies, outgoing, replyTo, shown, work, said, failed>>

-----------------------------------------------------------------------------
(* Sending *)

Placeholder == interaction \in {"public", "private"}

Show(ephemeral, quote) ==
    shown' = Append(shown, [reply |-> Head(outgoing).reply, part |-> Head(outgoing).part,
                            first |-> Head(outgoing).first, ephemeral |-> ephemeral, quote |-> quote])

(* The parts of a reply are a thread: each quotes the one before. *)
SendTelegram ==
    /\ step = "send" /\ via = "telegram" /\ outgoing # <<>>
    /\ Show(FALSE, replyTo)
    /\ replyTo' = Len(shown) + 2
    /\ outgoing' = Tail(outgoing)
    /\ UNCHANGED <<splitVars, event, step, interaction, via, replies, work, said, failed>>

(* The rest of this reply is dropped, and the next one is sent. *)
SendTelegramFails ==
    /\ step = "send" /\ via = "telegram" /\ outgoing # <<>>
    /\ failed' = TRUE
    /\ outgoing' = <<>>
    /\ UNCHANGED <<splitVars, event, step, interaction, via, replies, replyTo, shown, work, said>>

(* onMessage quotes the request, the summary of a Suggest quotes nothing. *)
SendChannel ==
    /\ step = "send" /\ via = "channel" /\ outgoing # <<>>
    /\ Show(FALSE, IF Head(outgoing).quotes /\ event.by = "message" THEN 1 ELSE 0)
    /\ outgoing' = Tail(outgoing)
    /\ UNCHANGED <<splitVars, event, step, interaction, via, replies, replyTo, work, said, failed>>

(* A response, or a follow-up: the first one takes the placeholder over.   *)
SendInteraction ==
    /\ step = "send" /\ via \in {"followup", "response"} /\ outgoing # <<>>
    /\ Show(IF Placeholder THEN interaction = "private" ELSE Head(outgoing).private, 0)
    /\ interaction' = "answered"
    /\ outgoing' = Tail(outgoing)
    /\ UNCHANGED <<splitVars, event, step, via, replies, replyTo, work, said, failed>>

(* Mutant: a refused acknowledgement ends the whole request. *)
SendDiscordFailsForGood ==
    /\ step = "send" /\ via # "telegram" /\ outgoing # <<>>
    /\ failed' = TRUE
    /\ outgoing' = <<>> /\ replies' = <<>> /\ work' = FALSE
    /\ UNCHANGED <<splitVars, event, step, interaction, via, replyTo, shown, said>>

(* Discord gets no more of this answer. *)
SendDiscordFails ==
    /\ step = "send" /\ via # "telegram" /\ outgoing # <<>>
    /\ failed' = TRUE
    /\ outgoing' = <<>> /\ replies' = <<>>
    /\ UNCHANGED <<splitVars, event, step, interaction, via, replyTo, shown, work, said>>

(* Mutant: no answer, no call. *)
DeleteNothing ==
    /\ step = "delete"
    /\ step' = "done"
    /\ UNCHANGED <<splitVars, event, interaction, via, replies, outgoing, replyTo, shown, work, said, failed>>

(* InteractionResponseDelete. *)
DeletePlaceholder ==
    /\ step = "delete"
    /\ interaction' = "deleted"
    /\ step' = "done"
    /\ UNCHANGED <<splitVars, event, via, replies, outgoing, replyTo, shown, work, said, failed>>

DeleteFails ==
    /\ step = "delete"
    /\ failed' = TRUE
    /\ step' = "done"
    /\ UNCHANGED <<splitVars, event, interaction, via, replies, outgoing, replyTo, shown, work, said>>

NextReply ==
    /\ step = "send" /\ outgoing = <<>> /\ replies # <<>>
    /\ step' = "next"
    /\ UNCHANGED <<splitVars, event, interaction, via, replies, outgoing, replyTo, shown, work, said, failed>>

Answered ==
    /\ step = "send" /\ outgoing = <<>> /\ replies = <<>>
    /\ step' = IF work THEN "bulk" ELSE "done"
    /\ UNCHANGED <<splitVars, event, interaction, via, replies, outgoing, replyTo, shown, work, said, failed>>

(* The process dies: nothing of a request is kept. *)
Crash ==
    /\ step \notin {"idle", "done", "gone"}
    /\ step' = "gone"
    /\ UNCHANGED <<splitVars, event, interaction, via, replies, outgoing, replyTo, shown, work, said, failed>>

-----------------------------------------------------------------------------
Serve ==
    \/ OpenModal \/ Defer \/ AcknowledgeFails
    \/ Run \/ RunSuggested
    \/ SkipEmpty \/ TakeReply \/ Cut \/ TakeParts \/ AllTaken
    \/ SendTelegram \/ SendTelegramFails
    \/ SendChannel \/ SendInteraction \/ SendDiscordFails
    \/ DeletePlaceholder \/ DeleteFails \/ NextReply \/ Answered

Ended == step \in {"done", "gone"} /\ UNCHANGED vars

Next ==
    \/ \E e \in Events : Receive(e)
    \/ Serve \/ Crash \/ Ended

DeliverySpec == Init /\ [][Next]_vars

(* The goroutine of a request is scheduled. *)
FairDelivery == DeliverySpec /\ WF_vars(Serve)

-----------------------------------------------------------------------------
(* What is shown of a reply is a beginning of it, and all of it unless a   *)
(* call failed; replies come in their order.  No part is lost, repeated or *)
(* sent past a failed one, through splitting, follow-ups and the stop      *)
(* rules of both platforms.  Suggest answers twice, with the summary after *)
(* the bulk Refresh even if its acknowledgement could not be sent.         *)
ShownOf(r) == FlattenSeq([i \in DOMAIN shown |-> IF shown[i].reply = r THEN shown[i].part ELSE <<>>])

ShownInOrder ==
    /\ \A i \in 1 .. Len(shown) - 1 : shown[i].reply <= shown[i + 1].reply
    /\ \A r \in DOMAIN said :
        /\ IsPrefix(ShownOf(r), said[r].text)
        /\ step = "done" /\ ~failed => ShownOf(r) = said[r].text
    /\ step = "done" /\ Suggests(event) /\ ~OpensModal(event) => Len(said) = 2

(* "chaining the parts so a long answer reads as one thread"               *)
(* (telegram.go:121): a part quotes the part before it, the first one the  *)
(* request or nothing, also after a reply before it broke off.             *)
ReadsAsOneThread ==
    event.by = "telegram" =>
        \A i \in DOMAIN shown :
            IF shown[i].first
              THEN shown[i].quote = IF said[shown[i].reply].replyTo THEN 1 ELSE 0
              ELSE /\ i > 1 /\ shown[i - 1].reply = shown[i].reply
                   /\ shown[i].quote = i

(* "Any Command that reaches storage goes through here" (discord.go:334):  *)
(* an interaction is acknowledged before anything that can outlast         *)
(* Discord's three seconds, a search, a write or a bulk Refresh.           *)
AcknowledgedFirst ==
    /\ step = "run" /\ ReachesStorage(event) => interaction # "open"
    /\ step = "bulk" => interaction # "open" \/ failed

(* A "thinking..." placeholder is replaced or deleted, unless a call       *)
(* failed: one that "would otherwise stay up for good" (discord.go:195).   *)
NoPlaceholderLeft == step = "done" /\ Placeholder => failed

(* What a command meant for the requester alone others do not see, and     *)
(* what it meant for all they do, although the placeholder's visibility is *)
(* chosen before the command runs.  The exception is the first message to  *)
(* answer a form for sell with nothing but white space: the notice, meant  *)
(* for the requester, takes over a public placeholder.                     *)
BlankSell == event.by = "modal" /\ event.command = "sell" /\ event.blank

VisibleToWhomItMay ==
    Interaction(event) =>
        \A i \in DOMAIN shown :
            shown[i].ephemeral = said[shown[i].reply].private \/ (BlankSell /\ i = 1)

(* A request is served to its end, or the process dies.  Text that runes   *)
(* of several bytes are in may be split for ever (Terminates).             *)
EveryRequestEnds ==
    step # "idle" ~> (step \in {"done", "gone"} \/ ~Narrow(message))
=============================================================================
