--------------------------- MODULE RequestTranslation ---------------------------
(***************************************************************************)
(* One call after another on its way from the client's API to the          *)
(* upstream's and back, through module MessageCodecs: the parsing of the   *)
(* handlers, the codecs' execute_json and execute_stream up to the request *)
(* they send, the Json branch of stream_chunk::proxy, and the cache.  All  *)
(* calls go to one model of one provider under one snapshot (PipelineRules *)
(* has the rest of the cache's key); the frames of a streamed answer are   *)
(* StreamRelay's.                                                          *)
(***************************************************************************)
EXTENDS MessageCodecs

CONSTANTS
  Request,      \* what clients send
  Answer,       \* what upstreams say
  MaxCalls      \* bound: calls one after another

ASSUME MaxCallsAssumption == MaxCalls \in Nat

IsContent(c) == c.parts \in Seq(ToSet(c.parts))

\* What a client's body parses to: only the Messages API has a system field.
ASSUME RequestAssumption ==
  /\ None \notin Request
  /\ \A r \in Request :
       /\ r.api \in {"chat", "messages", "embeddings"} /\ r.stream \in BOOLEAN
       /\ IF r.api = "messages" THEN r.system # None => IsContent(r.system) ELSE r.system = None
       /\ r.messages # None /\ r.messages \in Seq(ToSet(r.messages))
       /\ r.api # "embeddings" => \A m \in ToSet(r.messages) : IsContent(m.content)

\* What an upstream answers with; "max_tokens" is a word of the other API.
ASSUME AnswerAssumption ==
  /\ None \notin Answer
  /\ \A a \in Answer :
       /\ a.status \in Nat
       /\ a.body # Garbage =>
            /\ a.body.finish \in (STRING \ {"max_tokens"}) \cup {None}
            /\ a.body.usage \in WireUsage \cup {None}

\* None stands for what is not there: no field that a codec writes is None.
ASSUME FieldAssumption ==
  \A r \in Request : Acceptable(r) =>
    /\ OpenAiBody(Canonical(r)).messages # None
    /\ Canonical(r).system # <<>> =>
         TextMessage("system", Join(Canonical(r).system)).content # None

VARIABLES
  kind,       \* the codec of the provider
  calls,      \* bound: how many calls there were
  pc,
  request,    \* the client's request
  canonical,  \* ctx.request
  sent,       \* what the upstream was sent for it
  answer,     \* ghost: what an upstream answered, to this call or to the cached one
  cached,     \* ctx.response_cached
  response,   \* what the client got
  usage,      \* ctx.usage, which post_call records with a success
  cache       \* MemoryCache; `asked` and `answer` are ghosts

vars == <<kind, calls, pc, request, canonical, sent, answer, cached, response, usage, cache>>

Init ==
  /\ pc = "idle"
  /\ request = None
  /\ canonical = None
  /\ sent = None
  /\ answer = None
  /\ cached = FALSE
  /\ response = None
  /\ usage = None
  /\ kind \in {"openai", "anthropic"}
  /\ calls = 0
  /\ cache = <<>>

Goto(from, to) == pc = from /\ pc' = to

Arrive(r, to) ==
  /\ Goto("idle", to)
  /\ calls < MaxCalls
  /\ calls' = calls + 1
  /\ request' = r

Accept(r) ==
  /\ Acceptable(r)
  /\ Arrive(r, "accepted")
  /\ canonical' = Canonical(r)
  /\ UNCHANGED <<kind, sent, answer, cached, response, usage, cache>>

Reject(r) ==
  /\ ~Acceptable(r)
  /\ Arrive(r, "answered")
  /\ response' = GatewayError(r.api, 400)
  /\ UNCHANGED <<kind, canonical, sent, answer, cached, usage, cache>>

-----------------------------------------------------------------------------
LooksUp == request.api # "embeddings" /\ ~canonical.stream

Key == request_signature(canonical)

IsHit == LooksUp /\ Key \in DOMAIN cache

\* lookup_chat: the body and the usage that were kept, with status 200.
Hit ==
  /\ Goto("accepted", "answered")
  /\ IsHit
  /\ cached' = TRUE
  /\ usage' = cache[Key].usage
  /\ answer' = cache[Key].answer
  /\ response' =
       Render(request.api, [status |-> 200, body |-> cache[Key].body], cache[Key].usage)
  /\ UNCHANGED <<kind, calls, request, canonical, sent, cache>>

FailWith(status) ==
  /\ pc' = "answered"
  /\ response' = GatewayError(request.api, status)
  /\ UNCHANGED <<kind, calls, request, canonical, sent, answer, cached, usage, cache>>

CannotExecute ==
  /\ pc = "accepted" /\ ~IsHit
  /\ ~Executable(kind, canonical)
  /\ FailWith(400)

\* resolve_secret: no such variable in the environment.
NoSecret ==
  /\ pc = "accepted" /\ ~IsHit
  /\ Executable(kind, canonical)
  /\ FailWith(500)

Send ==
  /\ Goto("accepted", "sent")
  /\ ~IsHit
  /\ Executable(kind, canonical)
  /\ sent' = build_upstream_request(kind, canonical)
  /\ UNCHANGED <<kind, calls, request, canonical, answer, cached, response, usage, cache>>

\* The connection or the reading of the answer fails.
UpstreamFails ==
  /\ pc = "sent"
  /\ FailWith(502)

Stored(a, u) == [body |-> a.body, usage |-> u, asked |-> sent, answer |-> a]

\* The answer is kept before it is rendered.
UpstreamAnswers ==
  /\ Goto("sent", "answered")
  /\ ~canonical.stream
  /\ \E a \in Answer :
       LET u == extract_usage(a.body) IN
       /\ answer' = a
       /\ usage' = IF Success(a.status) THEN u ELSE None
       /\ cache' = IF Success(a.status) /\ LooksUp
                   THEN [k \in {Key} \cup DOMAIN cache |->
                           IF k = Key THEN Stored(a, u) ELSE cache[k]]
                   ELSE cache
       /\ response' = Render(request.api, a, u)
  /\ UNCHANGED <<kind, calls, request, canonical, sent, cached>>

\* The call is over, or a stream has begun.
End ==
  /\ pc = "answered" \/ (pc = "sent" /\ canonical.stream)
  /\ pc' = "idle"
  /\ request' = None
  /\ canonical' = None
  /\ sent' = None
  /\ answer' = None
  /\ cached' = FALSE
  /\ response' = None
  /\ usage' = None
  /\ UNCHANGED <<kind, calls, cache>>

Next ==
  \/ \E r \in Request : Accept(r) \/ Reject(r)
  \/ Hit \/ CannotExecute \/ NoSecret \/ Send \/ UpstreamFails \/ UpstreamAnswers
  \/ End

Spec == Init /\ [][Next]_vars

-----------------------------------------------------------------------------
Types == {"authentication_error", "permission_error", "rate_limit_error",
          "invalid_request_error", "overloaded_error", "api_error", "server_error"}

\* The type invariant.  Errors have a status that is one, and each client is
\* answered in its own API's form.
TypeOK ==
  /\ kind \in {"openai", "anthropic"} /\ calls \in 0..MaxCalls
  /\ pc \in {"idle", "accepted", "sent", "answered"}
  /\ request \in Request \cup {None} /\ (request = None <=> pc = "idle")
  /\ answer \in Answer \cup {None}
  /\ cached \in BOOLEAN
  /\ pc \in {"accepted", "sent"} => canonical.api = request.api
  /\ usage \in Usage \cup {None}
  /\ pc = "answered" =>
       CASE response.form = "error"   -> ~Success(response.status)
         [] response.form = "message" -> request.api = "messages" /\ Success(response.status)
         [] response.form = "openai"  -> request.api # "messages"

-----------------------------------------------------------------------------
(* What a reader of either API understands of a request: who said what. *)

Said(message) == [role |-> message.role, text |-> TextOf(message)]

SystemTexts(system) == IF system = None THEN <<>> ELSE Each(LAMBDA p : p.text, system.parts)

SaidBy(r) ==
  Each(LAMBDA t : [role |-> "system", text |-> t], SystemTexts(r.system))
  \o Each(Said, r.messages)

Turns(said) == TurnsOnly(said)

Instructions(said) == FlattenSeq(Each(LAMBDA s : s.text, SystemMessages(said)))

\* The parameters each kind of upstream has.
Knows == [openai |-> ParamName \ {"top_k"}, anthropic |-> ParamName \ {"user"}]

\* What the client said arrives whole, in order and in the same roles: all of it in
\* its place at an OpenAI upstream, at an Anthropic one the instructions together
\* before the turns.  Of the parameters of a Messages client those arrive that the
\* upstream has, and none arrives that the client did not set, but for the limit an
\* Anthropic upstream insists on.
QuestionReachesUpstream ==
  sent # None =>
    /\ request.api = "embeddings" => sent.messages = request.messages
    /\ request.api # "embeddings" =>
         LET said == SaidBy(request)  heard == SaidBy(sent) IN
         /\ kind = "openai" => heard = said
         /\ Turns(heard) = Turns(said) /\ Instructions(heard) = Instructions(said)
    /\ \A n \in ParamName :
         /\ request.api = "messages" /\ n \in Knows[kind] /\ request.params[n] # None =>
              sent.params[n] = request.params[n]
         /\ sent.params[n] \in {None, request.params[n]}
              \/ (kind = "anthropic" /\ n = "max_tokens")
    /\ kind = "anthropic" => sent.params.max_tokens # None

\* A body as a second gateway gets it from this one.
AsClient(body) ==
  [api |-> IF body.path = "/v1/messages" THEN "messages"
           ELSE IF body.path = "/v1/embeddings" THEN "embeddings" ELSE "chat",
   version |-> "2023-06-01", unsupported |-> FALSE,
   system |-> body.system, messages |-> body.messages, params |-> body.params,
   stream |-> body.stream]

\* An upstream may be another gateway of this kind: it accepts what this one sends and
\* asks an upstream of the same kind the same, but for the parameters that a chat
\* completions call loses on its way in.
ChainedGatewayUnderstands ==
  sent # None =>
    LET second == AsClient(sent) IN
    /\ Acceptable(second)
    /\ LET again == build_upstream_request(kind, Canonical(second)) IN
       /\ again.path = sent.path /\ again.stream = sent.stream
       /\ again.system = sent.system /\ again.messages = sent.messages
       /\ kind = "anthropic" => again.params = sent.params

\* An answer from the cache is one that a success gave to the very request that
\* would have been sent now: calls that differ in anything an upstream is told
\* never share an entry, whichever API they came through.
HitsAnswerTheirQuestion ==
  cached =>
    /\ Success(answer.status)
    /\ cache[Key].asked = build_upstream_request(kind, canonical)

\* The text, the reason and the counts of an upstream's answer arrive, from the
\* cache as from the upstream: an answer cut at its limit reads as one, what is
\* billed is what the client is told and what the upstream said, and an error keeps
\* its status and costs nothing.
AnswerReachesClient ==
  answer # None =>
    IF ~Success(answer.status)
    THEN response.status = answer.status /\ usage = None
    ELSE /\ response.form = "openai" => response.body = answer.body
         /\ response.form = "error" => answer.body = Garbage
         /\ response.form = "message" =>
              /\ response.body.text = OrElse(answer.body.text, <<Empty>>)
              /\ response.body.stop_reason = "max_tokens" <=> answer.body.finish = "length"
              /\ response.body.stop_reason = None <=> answer.body.finish = None
              /\ usage # None => response.body.usage = usage
         /\ usage # None =>
              /\ usage.input = answer.body.usage.input
              /\ answer.body.usage.output # None => usage.output = answer.body.usage.output
=============================================================================
