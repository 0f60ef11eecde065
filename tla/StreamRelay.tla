----------------------------- MODULE StreamRelay -----------------------------
(***************************************************************************)
(* A streamed request between the upstream's first byte and the answer:    *)
(* execute_stream of the two codecs, the SseStream branch of               *)
(* stream_chunk::proxy and the two ways of building the answer.  The       *)
(* upstream speaks either API, and so does the client.                     *)
(*                                                                         *)
(* The body is read whole before the first frame is looked at, so what an  *)
(* upstream sends and where it stops are decided frame by frame here, each *)
(* frame together with the iteration of the normaliser's loop that handles *)
(* it.  Nothing reaches the client before the loop has ended.              *)
(***************************************************************************)
EXTENDS SseCodecs

CONSTANTS
  OpenAiFrame,      \* chunks an OpenAI-compatible upstream may send
  AnthropicFrame,   \* events an Anthropic upstream may send
  MaxFrames         \* bound: frames in a body

\* Neither API has a word of the other's for the limit.
OpenAiReason    == STRING \ {"max_tokens"}
AnthropicReason == STRING \ {"length"}

\* A frame has the fields of its kind.
ASSUME OpenAiAssumption ==
  OpenAiFrame \subseteq
    [id : Id \cup {None}, text : Text \cup {None}, finish : OpenAiReason \cup {None},
     usage : WireUsage \cup {None}]

\* An event has text, a stop reason and usage only where its kind has them.
ASSUME AnthropicAssumption ==
  /\ AnthropicFrame \subseteq
       [event : STRING, id : Id \cup {None}, text : Text \cup {None},
        stop : AnthropicReason \cup {None}, usage : WireUsage \cup {None}]
  /\ \A e \in AnthropicFrame :
       /\ e.text # None => e.event = "content_block_delta"
       /\ e.stop # None => e.event = "message_delta"
       /\ e.usage # None => e.event \in {"message_start", "message_delta", "message_stop"}

ASSUME FieldsAssumption == None \notin Id \cup Text \cup WireUsage

VARIABLES
  provider,   \* the upstream's API
  protocol,   \* ctx.egress_protocol
  body,       \* ghost: the frames handled so far
  normal,     \* the normaliser's locals
  outcome,    \* "reading", or how the request ended
  relayed,    \* the frames of the answer
  billed      \* ctx.usage

relayVars == <<provider, protocol, body, normal, outcome, relayed, billed>>

Api == {"openai", "anthropic"}

RelayInit ==
  /\ provider \in Api
  /\ protocol \in Api
  /\ body = <<>>
  /\ normal = NoNormal
  /\ outcome = "reading"
  /\ relayed = <<>>
  /\ billed = None

\* One iteration of the loop that goes on.
Handle(frame, next) ==
  /\ outcome = "reading"
  /\ Len(body) < MaxFrames
  /\ body' = Append(body, frame)
  /\ normal' = next
  /\ UNCHANGED <<provider, protocol, outcome, relayed, billed>>

\* One that returns an error: ctx.usage is not set.
Break(frame, kind) ==
  /\ outcome = "reading"
  /\ Len(body) < MaxFrames
  /\ body' = Append(body, frame)
  /\ outcome' = kind
  /\ UNCHANGED <<provider, protocol, normal, relayed, billed>>

ReceiveChunk ==
  /\ provider = "openai"
  /\ \E chunk \in OpenAiFrame : Handle(chunk, OpenAiData(normal, chunk))

ReceiveDone ==
  /\ provider = "openai"
  /\ Handle(Done, OpenAiDone(normal))

\* "[DONE]" is not JSON either, for an Anthropic upstream.
ReceiveGarbage ==
  \/ Break(Garbage, "upstream_error")
  \/ provider = "anthropic" /\ Break(Done, "upstream_error")

\* Any event but the one ReceiveToolUse handles.
ReceiveEvent ==
  /\ provider = "anthropic"
  /\ \E e \in AnthropicFrame :
       /\ ~(e.event = "message_delta" /\ e.stop = "tool_use")
       /\ Handle(e, AnthropicEvent(normal, e))

ReceiveToolUse ==
  /\ provider = "anthropic"
  /\ \E e \in AnthropicFrame :
       /\ e.event = "message_delta" /\ e.stop = "tool_use"
       /\ Break(e, "invalid_request")

\* The end of the body, wherever the upstream stopped.  The Anthropic answer
\* is built from the rendered chunks, read once more; that reads the same.
Respond ==
  /\ outcome = "reading"
  /\ outcome' = "answered"
  /\ billed' = normal.usage
  /\ relayed' = IF protocol = "openai"
                THEN normal.events
                ELSE RenderedMessage(Chunks(normal.events), normal.usage)
  /\ UNCHANGED <<provider, protocol, body, normal>>

\* A status other than 2xx is passed on with no usage, before any frame.
PassErrorThrough ==
  /\ outcome = "reading" /\ body = <<>>
  /\ outcome' = "upstream_status"
  /\ UNCHANGED <<provider, protocol, body, normal, relayed, billed>>

RelayNext ==
  \/ ReceiveChunk \/ ReceiveDone \/ ReceiveGarbage
  \/ ReceiveEvent \/ ReceiveToolUse
  \/ Respond \/ PassErrorThrough

RelaySpec == RelayInit /\ [][RelayNext]_relayVars

-----------------------------------------------------------------------------
(***************************************************************************)
(* What a reader of either API understands of a stream: the text up to the *)
(* end mark, why the answer ended, what it cost, and whether the end mark  *)
(* was there.  The same reader is given what the upstream sent and what    *)
(* the gateway's client gets.                                              *)
(***************************************************************************)
IsEnd(frame) ==
  \/ frame = Done
  \/ "event" \in DOMAIN frame /\ frame.event = "message_stop"

\* The first end mark, 0 when there is none.
EndMark(frames) == SelectInSeq(frames, IsEnd)

UpToEnd(frames) == IF EndMark(frames) = 0 THEN frames ELSE SubSeq(frames, 1, EndMark(frames))

LastOf(values) == IF values = <<>> THEN None ELSE Last(values)

\* Chunk usages are totals; counts of events replace earlier ones.
UsageRead(api, frames) ==
  IF api = "openai"
  THEN extract_usage([usage |-> LastOf(Given(Field(frames, "usage")))])
  ELSE LET Reported(f) == LastOf(Given(Field(Given(Field(frames, "usage")), f)))
           input  == Reported("input")
           output == Reported("output")
       IN  IF Given(Field(frames, "usage")) = <<>>
           THEN None
           ELSE [input |-> OrElse(input, 0), output |-> OrElse(output, 0)]

\* The field that says why an answer ended.
Why(api) == IF api = "openai" THEN "finish" ELSE "stop"

Read(api, frames) ==
  LET read == Chunks(UpToEnd(frames))
      why  == LastOf(Given(Field(read, Why(api))))
  IN  [text     |-> Given(Field(read, "text")),
       why      |-> CASE why \in {"stop", "end_turn"}     -> "end of turn"
                      [] why \in {"length", "max_tokens"} -> "limit"
                      [] OTHER                            -> None,
       usage    |-> UsageRead(api, read),
       complete |-> \E i \in DOMAIN frames : IsEnd(frames[i])]

Spoken == Read(provider, body)
Heard  == Read(protocol, relayed)

\* The end mark is the last frame, there is one reason, and an OpenAI-style
\* upstream reports its usage once.
Proper ==
  /\ body # <<>>
  /\ EndMark(body) = Len(body)
  /\ Len(Given(Field(Chunks(body), Why(provider)))) = 1
  /\ provider = "openai" => Len(Given(Field(Chunks(body), "usage"))) <= 1

-----------------------------------------------------------------------------
RelayTypeOK ==
  /\ provider \in Api
  /\ protocol \in Api
  /\ body \in Seq(OpenAiFrame \cup AnthropicFrame \cup {Done, Garbage})
  /\ normal.usage \in Usage \cup {None}
  /\ normal.finish \in {None, "stop", "length"}
  /\ normal.deltas \in Seq(Text)
  /\ normal.id \in Id \cup {None}
  /\ outcome \in {"reading", "answered", "invalid_request", "upstream_error", "upstream_status"}
  /\ billed \in Usage \cup {None}
  /\ outcome # "answered" => billed = None /\ relayed = <<>>

\* A client is told that its answer is complete when the upstream said so
\* (clients of the Messages API always are, even if the upstream stopped half
\* way), and of a complete answer it reads exactly the text, each piece once
\* and in order.  An upstream that goes on after its end mark is only covered
\* for clients that stop reading there as well.
TextReachesClient ==
  outcome = "answered" =>
    /\ protocol = "openai" => Heard.complete = Spoken.complete
    /\ Spoken.complete /\ (protocol = "openai" \/ EndMark(body) = Len(body))
       => Heard.text = Spoken.text

\* Across three vocabularies, an answer that was cut at the token limit is
\* never presented as one that ended by itself, nor the other way round.
FinishReachesClient ==
  outcome = "answered" /\ Proper /\ Spoken.why # None => Heard.why = Spoken.why

\* What post_call will charge is what the upstream reported, although it
\* reports it in pieces, and what the client is told (as zeros when the
\* upstream reported nothing and the client expects counts).
BilledIsTold ==
  outcome = "answered" /\ Proper =>
    /\ billed = Spoken.usage
    /\ Heard.usage = IF protocol = "openai" THEN billed
                     ELSE OrElse(billed, NoUsage)

\* The Messages stream rendered from any body, however broken, is one this
\* gateway's own Anthropic normaliser reads back as the same answer: a
\* gateway behind a gateway bills and relays the same.
ChainedGatewayAgrees ==
  outcome = "answered" /\ protocol = "anthropic" =>
    LET here  == Chunks(normal.events)
        again == normalize_anthropic_chat_sse(relayed)
        there == Chunks(again.events)
    IN  /\ again.events = Append(there, Done)
        /\ Given(Field(there, "text")) = Given(Field(here, "text"))
        /\ again.usage = OrElse(billed, NoUsage)
        /\ FinishReason(there) = IF FinishReason(here) = "length" THEN "length" ELSE "stop"
=============================================================================
