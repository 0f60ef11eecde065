----------------------------- MODULE MessageCodecs -----------------------------
(***************************************************************************)
(* What the gateway makes of bodies that are not streams: the two requests *)
(* it understands into one canonical form, that form into what each kind   *)
(* of upstream understands, and an upstream's JSON answer into what the    *)
(* client understands.                                                     *)
(*                                                                         *)
(*   text      the words that a blank line separates, at least one         *)
(*   content   [shape, parts], a part is [type, text]                      *)
(*   message   [role, content, extra]     extra: its other fields          *)
(*   request   [api, version, system, messages, params, unsupported,       *)
(*              stream]; the input of an embeddings request is its         *)
(*              messages                                                   *)
(*   answer    [status, body], a body is Garbage or                        *)
(*             [text, finish, usage, error_type]                           *)
(***************************************************************************)
EXTENDS JsonValues, SequencesExt

CONSTANT Empty   \* the word without letters: "" is <<Empty>>

ParamName ==
  {"max_tokens", "stop_sequences", "temperature", "top_p", "top_k", "metadata", "user"}

NoParams == [n \in ParamName |-> None]

Keep(params, names) == [n \in ParamName |-> IF n \in names THEN params[n] ELSE None]

Each(Op(_), seq) == [i \in DOMAIN seq |-> Op(seq[i])]

\* join_text_parts: [..].join("\n\n")
Join(texts) == IF texts = <<>> THEN <<Empty>> ELSE FlattenSeq(texts)

-----------------------------------------------------------------------------
(* Requests *)

\* A string, or text parts only.
Readable(content) ==
  \/ content.shape = "text"
  \/ content.shape = "parts" /\ \A p \in ToSet(content.parts) : p.type = "text"

normalize_content(content) == Each(LAMBDA p : p.text, content.parts)

TextOf(message) == Join(normalize_content(message.content))

CanonicalMessages(messages) ==
  Each(LAMBDA m : [role |-> m.role, content |-> normalize_content(m.content)], messages)

ReadableMessages(messages, roles) ==
  \A m \in ToSet(messages) : m.role \in roles /\ Readable(m.content)

SystemMessages(messages) == At(messages, {i \in DOMAIN messages : messages[i].role = "system"})

TurnsOnly(messages) == At(messages, {i \in DOMAIN messages : messages[i].role # "system"})

\* Slip: a second instruction replaces the first.
ChatCanonicalOneSystem(r) ==
  LET systems == Each(TextOf, SystemMessages(r.messages)) IN
  [api |-> "chat", stream |-> r.stream, params |-> NoParams,
   system |-> IF systems = <<>> THEN <<>> ELSE <<Last(systems)>>,
   messages |-> CanonicalMessages(TurnsOnly(r.messages)),
   raw_messages |-> r.messages]

\* ChatRequest keeps the model, the messages and stream: no parameter gets in.
ChatCanonical(r) ==
  [api |-> "chat", stream |-> r.stream, params |-> NoParams,
   system |-> Each(TextOf, SystemMessages(r.messages)),
   messages |-> CanonicalMessages(TurnsOnly(r.messages)),
   raw_messages |-> r.messages]

\* In the parts of a system field a string will do.
ReadableSystem(system) ==
  system # None =>
    \/ system.shape = "text"
    \/ system.shape = "parts" /\ \A p \in ToSet(system.parts) : p.type \in {"text", "bare"}

normalize_system(system) == IF system = None THEN <<>> ELSE normalize_content(system)

into_canonical_request(r) ==
  [api |-> "messages", stream |-> r.stream, params |-> r.params,
   system |-> normalize_system(r.system),
   messages |-> CanonicalMessages(r.messages),
   raw_messages |-> None]

\* EmbeddingsRequest keeps the model and the input, unread.
EmbeddingsCanonical(r) ==
  [api |-> "embeddings", stream |-> FALSE, params |-> NoParams,
   system |-> <<>>, messages |-> <<>>, raw_messages |-> r.messages]

require_anthropic_version(r) == r.version # None

\* `unsupported`: tools, tool_choice, thinking, container, or a field nobody knows.
OnlySupportedFields(r) == ~r.unsupported

Acceptable(r) ==
  CASE r.api = "chat"       -> ReadableMessages(r.messages, {"system", "user", "assistant"})
    [] r.api = "messages"   -> /\ require_anthropic_version(r) /\ OnlySupportedFields(r)
                               /\ ReadableSystem(r.system)
                               /\ ReadableMessages(r.messages, {"user", "assistant"})
    [] r.api = "embeddings" -> TRUE

Canonical(r) ==
  CASE r.api = "chat"       -> ChatCanonical(r)
    [] r.api = "messages"   -> into_canonical_request(r)
    [] r.api = "embeddings" -> EmbeddingsCanonical(r)

-----------------------------------------------------------------------------
(* build_upstream_request of the two codecs. *)

TextMessage(role, text) ==
  [role |-> role, extra |-> None,
   content |-> [shape |-> "text", parts |-> <<[type |-> "text", text |-> text]>>]]

JoinedMessages(messages) ==
  Each(LAMBDA m : TextMessage(m.role, Join(m.content)), messages)

OpenAiBody(c) ==
  [path     |-> IF c.api = "embeddings" THEN "/v1/embeddings" ELSE "/v1/chat/completions",
   system   |-> None,
   messages |-> IF c.raw_messages # None
                THEN c.raw_messages
                ELSE Each(LAMBDA s : TextMessage("system", s), c.system)
                     \o JoinedMessages(c.messages),
   params   |-> Keep(c.params, ParamName \ {"top_k"}),
   stream   |-> c.stream]

\* Slip: the system instructions as a message, as for the other kind of upstream.
AnthropicBodyWithSystemTurn(c) ==
  [path     |-> "/v1/messages",
   system   |-> None,
   messages |-> (IF c.system = <<>> THEN <<>> ELSE <<TextMessage("system", Join(c.system))>>)
                \o JoinedMessages(c.messages),
   params   |-> [Keep(c.params, ParamName \ {"user"}) EXCEPT !.max_tokens = OrElse(@, 1024)],
   stream   |-> TRUE]

AnthropicBody(c) ==
  [path     |-> "/v1/messages",
   system   |-> IF c.system = <<>>
                THEN None
                ELSE TextMessage("system", Join(c.system)).content,
   messages |-> JoinedMessages(c.messages),
   params   |-> [Keep(c.params, ParamName \ {"user"}) EXCEPT !.max_tokens = OrElse(@, 1024)],
   stream   |-> TRUE]

\* The anthropic codec streams only, and no codec streams embeddings.
Executable(kind, c) == kind = "anthropic" => c.stream

build_upstream_request(kind, c) == IF kind = "openai" THEN OpenAiBody(c) ELSE AnthropicBody(c)

\* Slip: raw_messages are taken for a copy of messages.
SignatureWithoutRaw(c) == <<c.system, c.messages, c.params>>

\* Everything of a canonical chat request but model, stream and protocol.
request_signature(c) == <<c.system, c.messages, c.raw_messages, c.params>>

-----------------------------------------------------------------------------
(* Answers *)

Success(status) == status \in 200..299

map_finish_reason(finish) ==
  CASE finish = "stop"           -> "end_turn"
    [] finish = "length"         -> "max_tokens"
    [] finish = "content_filter" -> "stop_sequence"
    [] OTHER                     -> finish

\* error_type and anthropic_error_type: the vocabularies of the two APIs.
error_type(api, status) ==
  CASE status = 401 -> "authentication_error"
    [] status = 403 -> "permission_error"
    [] status = 429 -> "rate_limit_error"
    [] status \in {400, 404} -> "invalid_request_error"
    [] status = 503 /\ api = "messages" -> "overloaded_error"
    [] OTHER -> IF api = "messages" THEN "api_error" ELSE "server_error"

ErrorResponse(status, type) == [form |-> "error", status |-> status, body |-> type]

GatewayError(api, status) == ErrorResponse(status, error_type(api, status))

Message(body, usage) ==
  [text |-> OrElse(body.text, <<Empty>>),
   stop_reason |-> map_finish_reason(body.finish),
   usage |-> OrElse(usage, NoUsage)]

\* build_anthropic_error_response: the upstream's own type comes first.
AnthropicErrorResponse(answer) ==
  ErrorResponse(answer.status,
    IF answer.body = Garbage \/ answer.body.error_type = None
    THEN error_type("messages", answer.status)
    ELSE answer.body.error_type)

\* Slip: the status is not looked at.
JsonResponseOfAnyStatus(answer, usage) ==
  IF answer.body = Garbage
  THEN GatewayError("messages", 500)
  ELSE [form |-> "message", status |-> answer.status, body |-> Message(answer.body, usage)]

build_anthropic_json_response(answer, usage) ==
  IF ~Success(answer.status)
  THEN AnthropicErrorResponse(answer)
  ELSE IF answer.body = Garbage
       THEN GatewayError("messages", 500)
       ELSE [form |-> "message", status |-> answer.status, body |-> Message(answer.body, usage)]

build_json_response(answer) ==
  [form |-> "openai", status |-> answer.status, body |-> answer.body]

Render(api, answer, usage) ==
  IF api = "messages"
  THEN build_anthropic_json_response(answer, usage)
  ELSE build_json_response(answer)
=============================================================================
