------------------------------- MODULE MCGateway -------------------------------
(***************************************************************************)
(* The gateway over a provider that moves, a model that may be deleted, a  *)
(* key that comes and goes or is overwritten with what does not decode,    *)
(* the real compiler, and two concurrent requests of two endpoints.        *)
(***************************************************************************)
EXTENDS Gateway

CONSTANTS Undecodable

C == INSTANCE ConfigCompile

p1(url) ==
  [id |-> "p1", kind |-> "openai", base_url |-> url, policy_id |-> None, rate_limit |-> None,
   cache |-> None]

m1 ==
  [id |-> "m1", provider_id |-> "p1", upstream_model |-> "up", policy_id |-> None,
   rate_limit |-> None, cache |-> "enabled"]

k1 ==
  [id |-> "k1", key |-> "t1", allowed_models |-> {"m1"}, policy_id |-> None, rate_limit |-> None]

MCKey == {<<"providers", "p1">>, <<"models", "m1">>, <<"apikeys", "k1">>}

MCBodyFor(k) ==
  CASE k[1] = "providers" -> {p1("u1"), p1("u2")}
    [] k[1] = "models"    -> {}
    [] k[1] = "apikeys"   -> {k1, Undecodable}

MCBody == {p1("u1"), p1("u2"), m1, k1, Undecodable}

MCStored ==
  {[k \in MCKey |-> CASE k[1] = "providers" -> p1("u1")
                      [] k[1] = "models"    -> m1
                      [] k[1] = "apikeys"   -> k1]}

\* TLC compiles each content once.
Compiled ==
  [content \in {c \in [MCKey -> MCBody \cup {Absent}] :
                  \A k \in MCKey : \/ c[k] \in MCBodyFor(k) \cup {Absent}
                                   \/ \E stored \in MCStored : c[k] = stored[k]} |->
     C!compile_snapshot_from_entries(content, 0)]

MCCompile(content) == IF content \in DOMAIN Compiled THEN Compiled[content] ELSE HardError

Sent(endpoint, stream) ==
  [endpoint |-> endpoint, token |-> "t1", model |-> "m1", body |-> "b", stream |-> stream]

\* One that is cached and one that is not.
MCCall == {Sent("chat", FALSE), Sent("messages", TRUE)}
=============================================================================
