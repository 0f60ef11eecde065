------------------------------ MODULE SseCodecs ------------------------------
(***************************************************************************)
(* The two directions in which the gateway translates event streams: what  *)
(* upstreams send into chat.completion chunks (the normalisers of          *)
(* crates/aisix-providers) and those chunks into the events of the         *)
(* Messages API (crates/aisix-server/src/protocol/anthropic.rs).  A frame  *)
(* is what its JSON says:                                                  *)
(*                                                                         *)
(*   chunk   [id, text, finish, usage]        text of choices[0].delta     *)
(*   event   [event, id, text, stop, usage]                                *)
(*                                                                         *)
(* A usage has an input and an output count, either of which may be        *)
(* missing (None) on the wire; cache counts take the same path and are     *)
(* left out.                                                               *)
(***************************************************************************)
EXTENDS JsonValues, SequencesExt

CONSTANTS
  Id,          \* the ids upstreams give to answers
  Text         \* pieces of answers

\* OpenAiSseEvent::Done, the frame "data: [DONE]"
Done == [done |-> TRUE]

\* The ids the code makes up when the upstream gives none.
AnthropicId == "anthropic"
RenderedId  == "msg_aisix"

-----------------------------------------------------------------------------
(* normalize_openai_chat_sse: one operator per kind of frame. *)

NoNormal == [events |-> <<>>, usage |-> None, id |-> None, finish |-> None, deltas |-> <<>>]

OpenAiData(n, chunk) ==
  [n EXCEPT !.usage  = OrElse(@, extract_usage(chunk)),
            !.events = Append(@, chunk)]

OpenAiDone(n) == [n EXCEPT !.events = Append(@, Done)]

-----------------------------------------------------------------------------
(* normalize_anthropic_chat_sse: one operator per event. *)

\* Slip: what an event does not repeat is forgotten.
ReplacedUsage(current, u) == [input |-> OrElse(u.input, 0), output |-> OrElse(u.output, 0)]

merge_usage(current, u) ==
  [input  |-> OrElse(u.input,  IF current = None THEN 0 ELSE current.input),
   output |-> OrElse(u.output, IF current = None THEN 0 ELSE current.output)]

UsageAfter(current, u) == IF u = None THEN current ELSE merge_usage(current, u)

to_finish_reason(stop) == IF stop = "max_tokens" THEN "length" ELSE "stop"

MessageStart(n, e) ==
  [n EXCEPT !.id = OrElse(e.id, @), !.usage = UsageAfter(@, e.usage)]

ContentBlockDelta(n, e) ==
  IF e.text = None THEN n ELSE [n EXCEPT !.deltas = Append(@, e.text)]

MessageDelta(n, e) ==
  [n EXCEPT !.usage  = UsageAfter(@, e.usage),
            !.finish = IF e.stop = None THEN @ ELSE to_finish_reason(e.stop)]

ContentChunk(id, text) == [id |-> id, text |-> text, finish |-> None, usage |-> None]

FinalChunk(id, finish, usage) ==
  [id |-> id, text |-> None, finish |-> OrElse(finish, "stop"), usage |-> usage]

\* Slip: the deltas collected so far follow the final chunk.
StopBeforeContent(n, e) ==
  LET m  == MessageStart(n, e)
      id == OrElse(m.id, AnthropicId)
  IN  [m EXCEPT !.events =
         @ \o <<FinalChunk(id, m.finish, m.usage), Done>>
           \o [i \in DOMAIN m.deltas |-> ContentChunk(id, m.deltas[i])]]

\* The deltas are kept: a second message_stop sends them again.
MessageStop(n, e) ==
  LET m  == MessageStart(n, e)
      id == OrElse(m.id, AnthropicId)
  IN  [m EXCEPT !.events =
         @ \o [i \in DOMAIN m.deltas |-> ContentChunk(id, m.deltas[i])]
           \o <<FinalChunk(id, m.finish, m.usage), Done>>]

AnthropicEvent(n, e) ==
  CASE e.event = "message_start"       -> MessageStart(n, e)
    [] e.event = "content_block_delta" -> ContentBlockDelta(n, e)
    [] e.event = "message_delta"       -> MessageDelta(n, e)
    [] e.event = "message_stop"        -> MessageStop(n, e)
    [] OTHER                           -> n

normalize_anthropic_chat_sse(body) ==
  LET after[i \in 0..Len(body)] ==
        IF i = 0 THEN NoNormal ELSE AnthropicEvent(after[i - 1], body[i])
  IN  after[Len(body)]

-----------------------------------------------------------------------------
(* build_anthropic_stream_proxy_response: chunks to Messages events. *)

Event(name) == [event |-> name, id |-> None, text |-> None, stop |-> None, usage |-> None]

Chunks(events) == Without(events, Done)

FirstOf(values) == IF values = <<>> THEN None ELSE Head(values)

\* The values some chunks have, in their order.
Given(values) == Without(values, None)

Field(frames, f) == [i \in DOMAIN frames |-> frames[i][f]]

\* Slip: only "stop" is translated.
StopReasonOfStopOnly(finish) == IF finish = "stop" THEN "end_turn" ELSE finish

to_stop_reason(finish) ==
  CASE finish = "stop"           -> "end_turn"
    [] finish = "length"         -> "max_tokens"
    [] finish = "content_filter" -> "stop_sequence"
    [] OTHER                     -> finish

\* Slip: every chunk overwrites the reason.
LastChunkReason(chunks) == IF chunks = <<>> THEN None ELSE Last(chunks).finish

FinishReason(chunks) == FirstOf(Given(Field(chunks, "finish")))

\* The JSON of the rendered events: `usage` is the one post_call records.
RenderedMessage(chunks, usage) ==
  LET counts == OrElse(usage, NoUsage)
      texts  == Given(Field(chunks, "text"))
  IN  <<[Event("message_start") EXCEPT
           !.id    = OrElse(FirstOf(Given(Field(chunks, "id"))), RenderedId),
           !.usage = [input |-> counts.input, output |-> 0]],
        Event("content_block_start")>>
      \o [i \in DOMAIN texts |-> [Event("content_block_delta") EXCEPT !.text = texts[i]]]
      \o <<Event("content_block_stop"),
           [Event("message_delta") EXCEPT
              !.stop  = to_stop_reason(FinishReason(chunks)),
              !.usage = [input |-> None, output |-> counts.output]],
           Event("message_stop")>>
=============================================================================
