--------------------------- MODULE MCConfigCompile ---------------------------
(***************************************************************************)
(* A prefix of nine keys.  The bodies are chosen so that each test of the  *)
(* compiler has a witness: references that dangle until another write      *)
(* arrives, a provider lost together with its policy and the models and    *)
(* keys lost with it, two keys with one token, a body that does not decode *)
(* and a sibling prefix's key.                                             *)
(***************************************************************************)
EXTENDS ConfigPrefix

Lim(rpm, conc) == [rpm |-> rpm, tpm |-> None, concurrency |-> conc]

Provider(id, policy, limits) ==
  [id |-> id, policy_id |-> policy, rate_limit |-> limits, cache |-> None]

Model(id, provider, policy, cache) ==
  [id |-> id, provider_id |-> provider, policy_id |-> policy,
   rate_limit |-> None, cache |-> cache]

ApiKey(id, token, models, policy, limits) ==
  [id |-> id, key |-> token, allowed_models |-> models, policy_id |-> policy,
   rate_limit |-> limits]

MCBodies ==
  [k \in {<<"policies", "pol">>, <<"providers", "p1">>, <<"providers", "p2">>,
          <<"models", "m1">>, <<"models", "m2">>,
          <<"apikeys", "k1">>, <<"apikeys", "k2">>,
          <<"policies", "raw">>, <<"outside", "x">>} |->
     CASE k = <<"policies", "pol">> -> {[id |-> "pol", rate_limit |-> Lim(1, 2)]}
       [] k = <<"providers", "p1">> -> {Provider("p1", "pol", None), Provider("p1", None, Lim(5, None))}
       [] k = <<"providers", "p2">> -> {Provider("p2", None, None)}
       [] k = <<"models", "m1">>    -> {Model("m1", "p1", None, "enabled"), Model("m1", "p2", "pol", None)}
       [] k = <<"models", "m2">>    -> {Model("m2", "p2", None, None)}
       [] k = <<"apikeys", "k1">>   -> {ApiKey("k1", "t1", {"m1"}, "pol", Lim(None, 1)),
                                        ApiKey("k1", "t2", {}, None, None)}
       [] k = <<"apikeys", "k2">>   -> {ApiKey("k2", "t2", {"m1", "m2"}, None, None),
                                        ApiKey("k3", "t1", {}, None, None)}
       [] k = <<"policies", "raw">> -> {Undecodable}
       [] k = <<"outside", "x">>    -> {[id |-> "x"]}]
=============================================================================
