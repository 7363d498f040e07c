--------------------------- MODULE ProviderStream ---------------------------
(***************************************************************************)
(* One model call of an API adapter: the request with its safe retries, the *)
(* collector that rebuilds the message from the vendor's stream of events,  *)
(* and what the adapter returns of it.  The stream may be cut anywhere, and *)
(* a gateway may close a cut stream with the vendor's own marker of the end.*)
(* Text, thinking and tool arguments are sequences of pieces.               *)
(***************************************************************************)
EXTENDS Naturals, SequencesExt

CONSTANTS
    Vendors,      \* wire formats: "openai", "anthropic", "gemini", "chat"
    Messages,     \* what the model may produce
    MaxAttempts   \* the retry policy: requests of one call

\* A message has blocks in order; the model stops by itself, at its output limit (then
\* the last block may be broken off: whole is FALSE), or declines.
Kinds == {"text", "thinking", "tool"}

VARIABLES
    vendor,       \* of the adapter
    message,      \* that the model produces for this request
    request,      \* where complete() is, and the number of the attempt
    executed,     \* how often the provider may have executed the request
    sent,         \* events of the message that have arrived
    collected,    \* the collector: blocks, which of them are open, the reason to stop
    emitted,      \* text handed to the run as it arrived
    outcome       \* of complete(), and the turn it returned

streamVars == <<vendor, message, request, executed, sent, collected, emitted, outcome>>

Nothing == [blocks |-> <<>>, open |-> {}, reason |-> "none"]
NoTurn == [text |-> <<>>, calls |-> <<>>, finish |-> "none"]

Init ==
    /\ vendor \in Vendors
    /\ message \in Messages
    /\ request = [at |-> "key", attempt |-> 1, streamed |-> TRUE]
    /\ executed = 0 /\ sent = 0
    /\ collected = Nothing /\ emitted = <<>>
    /\ outcome = [state |-> "none", turn |-> NoTurn]

-----------------------------------------------------------------------------
(* The wire *)

Event(type, i, block, pieces) == [type |-> type, block |-> i, kind |-> block.kind, pieces |-> pieces]

\* Anthropic opens and closes every block; a chat opens a tool call; Gemini sends a
\* call in one part; the others send pieces.
BlockEvents(i, block) ==
    LET one(type) == <<Event(type, i, block, <<>>)>>
        each == [j \in DOMAIN block.pieces |-> Event("piece", i, block, <<block.pieces[j]>>)]
    IN (IF vendor = "anthropic" \/ (vendor = "chat" /\ block.kind = "tool")
        THEN one("open") ELSE <<>>)
       \o (IF vendor = "gemini" /\ block.kind = "tool"
           THEN <<Event("piece", i, block, block.pieces)>> ELSE each)
       \o (IF vendor = "anthropic" THEN one("shut") ELSE <<>>)

Mark(type) == [type |-> type, block |-> 0, kind |-> "text", pieces |-> <<>>]

\* Gemini has no marker of the end, Responses no reason before it.
Marks == CASE vendor = "openai" -> <<Mark("end")>>
           [] vendor = "gemini" -> <<Mark("reason")>>
           [] vendor \in {"anthropic", "chat"} -> <<Mark("reason"), Mark("end")>>

Wire == FlattenSeq([i \in DOMAIN message.blocks |-> BlockEvents(i, message.blocks[i])]) \o Marks

-----------------------------------------------------------------------------
(* The request *)

Fails(state) ==
    /\ outcome' = [outcome EXCEPT !.state = state]
    /\ request' = [request EXCEPT !.at = "over"]

Credentials(found) ==
    /\ request.at = "key"
    /\ IF found THEN request' = [request EXCEPT !.at = "fetch"] /\ UNCHANGED outcome
       ELSE Fails("failed")
    /\ UNCHANGED <<vendor, message, executed, sent, collected, emitted>>

\* A 429 is a rejected request: it is sent again while the policy has attempts and
\* the provider's hint is not too long.
Limited(hint) ==
    /\ request.at = "fetch"
    /\ IF hint = "short" /\ request.attempt < MaxAttempts
       THEN request' = [request EXCEPT !.attempt = @ + 1] /\ UNCHANGED outcome
       ELSE Fails("failed")
    /\ UNCHANGED <<vendor, message, executed, sent, collected, emitted>>

\* The network or the server fails after the request was sent: executed or not.
Ambiguous ==
    /\ request.at = "fetch"
    /\ executed' \in {executed, executed + 1}
    /\ Fails("failed")
    /\ UNCHANGED <<vendor, message, sent, collected, emitted>>

\* The provider answers with a stream, or with the whole message as JSON.
Accepted(streamed) ==
    /\ request.at = "fetch"
    /\ executed' = executed + 1
    /\ request' = [request EXCEPT !.at = IF streamed THEN "stream" ELSE "answer",
                                  !.streamed = streamed]
    /\ collected' = IF streamed THEN collected
                    ELSE [Nothing EXCEPT !.blocks = message.blocks, !.reason = message.stop]
    /\ UNCHANGED <<vendor, message, sent, emitted, outcome>>

-----------------------------------------------------------------------------
(* The collectors *)

\* The pieces of tool input parse only when none is missing.
Parses(i) ==
    /\ collected.blocks[i].pieces = message.blocks[i].pieces
    /\ message.whole \/ i < Len(message.blocks)

Text(blocks) == FlattenSeq([i \in DOMAIN blocks |->
                              IF blocks[i].kind = "text" THEN blocks[i].pieces ELSE <<>>])
Calls(blocks) == FlattenSeq([i \in DOMAIN blocks |->
                               IF blocks[i].kind = "tool" THEN <<i>> ELSE <<>>])

\* What a piece shows to the run: text is, thinking and tool input are progress.
Shown(event) == IF event.kind = "text" THEN event.pieces ELSE <<>>

\* The blocks before it were created by their own events, or have none.
Grown(blocks, event) ==
    [i \in 1 .. (IF event.block > Len(blocks) THEN event.block ELSE Len(blocks)) |->
        LET old == IF i <= Len(blocks) THEN blocks[i]
                   ELSE [kind |-> message.blocks[i].kind, pieces |-> <<>>]
        IN IF i = event.block THEN [old EXCEPT !.pieces = @ \o event.pieces] ELSE old]

Goes(next) == collected' = next /\ UNCHANGED <<request, outcome>>
Refuse == Fails("failed") /\ UNCHANGED collected

Opened(event) ==
    /\ event.type = "open"
    /\ IF vendor = "anthropic" /\ collected.reason # "none" THEN Refuse
       ELSE Goes([collected EXCEPT !.blocks = Grown(@, event),
                    !.open = IF vendor = "anthropic" THEN @ \cup {event.block} ELSE @])
    /\ UNCHANGED emitted
Piece(event) ==
    /\ event.type = "piece"
    /\ Goes([collected EXCEPT !.blocks = IF vendor = "openai" THEN @ ELSE Grown(@, event)])
    /\ emitted' = emitted \o Shown(event)
Shut(event) ==
    /\ event.type = "shut"
    /\ IF event.kind = "tool" /\ ~Parses(event.block) THEN Refuse
       ELSE Goes([collected EXCEPT !.open = @ \ {event.block}])
    /\ UNCHANGED emitted
Reason(event) ==
    /\ event.type = "reason"
    /\ IF collected.open # {} THEN Refuse
       ELSE Goes([collected EXCEPT !.reason = message.stop])
    /\ UNCHANGED emitted

\* The message is complete when its marker comes after the reason to stop and every
\* block is closed; the Responses marker carries the whole message.
Ending_Anyhow ==
    /\ collected' = IF vendor = "openai"
                    THEN [Nothing EXCEPT !.blocks = message.blocks, !.reason = message.stop]
                    ELSE [collected EXCEPT !.reason = IF @ = "none" THEN "stop" ELSE @]
    /\ request' = [request EXCEPT !.at = "answer"]
    /\ UNCHANGED <<outcome, emitted>>
Ending ==
    /\ IF vendor = "openai"
       THEN /\ collected' = [Nothing EXCEPT !.blocks = message.blocks, !.reason = message.stop]
            /\ request' = [request EXCEPT !.at = "answer"]
            /\ UNCHANGED outcome
       ELSE IF collected.reason = "none" \/ collected.open # {} THEN Refuse
       ELSE request' = [request EXCEPT !.at = "answer"] /\ UNCHANGED <<collected, outcome>>
    /\ UNCHANGED emitted

Receive ==
    /\ request.at = "stream" /\ sent < Len(Wire)
    /\ sent' = sent + 1
    /\ LET event == Wire[sent + 1]
       IN \/ Opened(event) \/ Piece(event) \/ Shut(event) \/ Reason(event)
          \/ event.type = "end" /\ Ending
    /\ UNCHANGED <<vendor, message, executed>>

\* The stream is cut, and a gateway may add the marker of the end; or the vendor
\* reports an error, or an event that is no JSON.
Cut(marker) ==
    /\ request.at = "stream"
    /\ IF vendor = "gemini" \/ (marker /\ vendor # "openai") THEN Ending
       ELSE Refuse /\ UNCHANGED emitted
    /\ UNCHANGED <<vendor, message, executed, sent>>

-----------------------------------------------------------------------------
(* The turn *)

Tools == {i \in DOMAIN collected.blocks : collected.blocks[i].kind = "tool"}

Refused == collected.reason = "refusal"
Malformed == \E i \in Tools : ~Parses(i)
Truncated == collected.reason = "length" /\ Tools # {}

Turn == [text |-> Text(collected.blocks), calls |-> Calls(collected.blocks),
         finish |-> collected.reason]

\* A refusal, malformed arguments and a call at the output limit are errors.
Answer ==
    /\ request.at = "answer"
    /\ IF Refused \/ Malformed \/ Truncated THEN Fails("failed")
       ELSE /\ outcome' = [state |-> "completed", turn |-> Turn]
            /\ request' = [request EXCEPT !.at = "over"]
    /\ UNCHANGED <<vendor, message, executed, sent, collected, emitted>>

\* The run is cancelled: every wait of the call ends.
Abort ==
    /\ request.at \in {"key", "fetch", "stream"}
    /\ Fails("cancelled")
    /\ UNCHANGED <<vendor, message, executed, sent, collected, emitted>>

Next ==
    \/ \E found \in BOOLEAN : Credentials(found)
    \/ \E hint \in {"short", "long"} : Limited(hint)
    \/ Ambiguous
    \/ \E streamed \in BOOLEAN : Accepted(streamed)
    \/ Receive
    \/ \E marker \in BOOLEAN : Cut(marker)
    \/ Answer \/ Abort

Spec == Init /\ [][Next]_streamVars

-----------------------------------------------------------------------------
(* Properties *)

\* Every variable has its type.
TypeOK ==
    /\ vendor \in Vendors /\ message \in Messages
    /\ request.at \in {"key", "fetch", "stream", "answer", "over"}
    /\ request.attempt \in 1 .. MaxAttempts
    /\ collected.open \subseteq DOMAIN collected.blocks
    /\ outcome.state \in {"none", "completed", "failed", "cancelled"}

\* However a stream is cut or closed, the tools that run are those of a message the
\* model finished, each with all of its arguments.
CallsAreWhole ==
    outcome.turn.calls # <<>> =>
        /\ message.stop = "stop"
        /\ ToSet(outcome.turn.calls) = {i \in DOMAIN message.blocks : message.blocks[i].kind = "tool"}

\* What the user reads while it streams is a part of the answer, never of the model's
\* thinking; a call that completes has streamed all of its answer.
TextIsTheAnswer ==
    /\ IsPrefix(emitted, Text(message.blocks))
    /\ outcome.state = "completed" =>
           /\ outcome.turn.text = Text(message.blocks)
           /\ request.streamed => emitted = outcome.turn.text

\* A request whose fate is not known is not sent again: the provider executes, and
\* bills, a call at most once.
ExecutedOnce == executed <= 1

=============================================================================
