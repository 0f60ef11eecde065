----------------------------- MODULE PipelineRules -----------------------------
(***************************************************************************)
(* What the handlers ask of one compiled snapshot about one call, without  *)
(* any state of theirs: who may call, where a call goes, whether and under *)
(* which key its answer is cached.  A call is a record                     *)
(* [endpoint, token, model, body, stream]; everything of the request that  *)
(* reaches an upstream, but for the model, is its body.                    *)
(***************************************************************************)

CONSTANT default_cache_enabled

Known(snapshot, call) == call.token \in DOMAIN snapshot.keys_by_token

\* authorization::check and route_select::resolve.
Permitted(meta, snapshot, call) ==
  call.model \in meta.allowed_models /\ call.model \in DOMAIN snapshot.models_by_name

Model(snapshot, call) == snapshot.models_by_name[call.model]

ProviderId(snapshot, call) == Model(snapshot, call).provider_id

Provider(snapshot, call) == snapshot.providers_by_id[ProviderId(snapshot, call)]

\* raw_messages is present for chat completions and null for messages, so the
\* signatures of the two never agree.
request_signature(call) == <<call.endpoint, call.body>>

\* The question put to an upstream, which its answer is an answer to.
Asked(snapshot, call) ==
  [base_url |-> Provider(snapshot, call).base_url,
   model    |-> Model(snapshot, call).upstream_model,
   content  |-> request_signature(call)]

\* The model's mode, else the provider's, else the default of the startup config.
cache_enabled_for_chat(snapshot, call) ==
  LET model_mode == snapshot.model_cache_modes[call.model]
      provider_mode == snapshot.provider_cache_modes[ProviderId(snapshot, call)]
      mode == IF model_mode # "inherit" THEN model_mode ELSE provider_mode
  IN  /\ call.endpoint # "embeddings" /\ ~call.stream
      /\ mode = "enabled" \/ (mode = "inherit" /\ default_cache_enabled)

\* Slip: a key that does not tell one configuration from the next.
CacheKeyWithoutRevision(snapshot, call) ==
  <<ProviderId(snapshot, call), Model(snapshot, call).upstream_model, call.model,
    request_signature(call)>>

cache_key_for_chat(snapshot, call) ==
  <<snapshot.revision, ProviderId(snapshot, call), Model(snapshot, call).upstream_model,
    call.model, request_signature(call)>>

\* The anthropic codec streams only.
Executable(snapshot, call) == Provider(snapshot, call).kind = "anthropic" => call.stream
=============================================================================
