-------------------------- MODULE MCRequestPipeline --------------------------
(***************************************************************************)
(* The pipeline over two snapshots as compile_snapshot makes them.  The    *)
(* second moves the provider to another base_url, takes the second key's   *)
(* model away and removes the third key.  One model is cached by its own   *)
(* mode, one provider streams only.                                        *)
(***************************************************************************)
EXTENDS RequestPipeline, TLC

CONSTANTS HardError, Absent, Undecodable

C == INSTANCE ConfigCompile

Provider1(url) ==
  [id |-> "p1", kind |-> "openai", base_url |-> url, policy_id |-> None,
   rate_limit |-> None, cache |-> None]

Provider2 ==
  [id |-> "p2", kind |-> "anthropic", base_url |-> "u3", policy_id |-> None,
   rate_limit |-> None, cache |-> "disabled"]

ModelOf(id, provider, mode) ==
  [id |-> id, provider_id |-> provider, upstream_model |-> "up", policy_id |-> None,
   rate_limit |-> None, cache |-> mode]

ApiKey(id, token, models) ==
  [id |-> id, key |-> token, allowed_models |-> models, policy_id |-> None, rate_limit |-> None]

Compiled(revision, url, apikeys) ==
  C!compile_snapshot({Provider1(url), Provider2},
                     {ModelOf("m1", "p1", "enabled"), ModelOf("m2", "p2", None)},
                     apikeys, {}, revision)

TwoSnapshots ==
  <<Compiled(5, "u1", {ApiKey("k1", "t1", {"m1", "m2"}), ApiKey("k2", "t2", {"m1"}),
                       ApiKey("k3", "t3", {"m1"})}),
    Compiled(7, "u2", {ApiKey("k1", "t1", {"m1", "m2"}), ApiKey("k2", "t2", {"m2"})})>>

\* By a name of its own: TLC then compiles the two only once.
MCSnapshot == TwoSnapshots

Sent(endpoint, token, model, stream) ==
  [endpoint |-> endpoint, token |-> token, model |-> model, body |-> "b", stream |-> stream]

MCCall ==
  {Sent("chat", "t1", "m1", FALSE), Sent("chat", "t2", "m1", FALSE),
   Sent("chat", "t1", "m2", TRUE), Sent("chat", "t3", "m2", FALSE),
   Sent("messages", "t1", "m1", FALSE), Sent("messages", "t3", "m1", TRUE),
   Sent("embeddings", "t2", "m1", FALSE)}

MCUsage == {[input_tokens |-> 2, output_tokens |-> 1]}

Symmetry == Permutations(Request)
=============================================================================
