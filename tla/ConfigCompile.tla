---------------------------- MODULE ConfigCompile ----------------------------
(***************************************************************************)
(* The pure half of the configuration plane: what the loader and           *)
(* compile_snapshot make of the entries found under the etcd prefix        *)
(* (crates/aisix-config/src/loader.rs and compile.rs).                     *)
(*                                                                         *)
(* The content of the prefix is a function kv from etcd keys to bodies.  A *)
(* key is <<collection, id>>; a key load_prefix returns although it lies   *)
(* outside the prefix (it asks etcd for "/aisix", which "/aisix2/..."      *)
(* matches too), or that has too few or too many segments, is a key whose  *)
(* collection is not one of the four.  Bodies are records with the fields  *)
(* compile_snapshot reads; Undecodable stands for bytes that do not        *)
(* deserialise.  What a body only carries along (base_url, kind, secret    *)
(* references, upstream model names) is left out.                          *)
(***************************************************************************)
EXTENDS Integers, FiniteSets

CONSTANTS
  None,         \* Option::None
  Absent,       \* no such key in etcd
  Undecodable,  \* a value serde rejects
  HardError     \* Err(String) of compile_snapshot_from_entries

Collections == {"providers", "models", "apikeys", "policies"}

LimitKinds == {"rpm", "tpm", "concurrency"}

NoLimits == [k \in LimitKinds |-> None]

-----------------------------------------------------------------------------
(* compile.rs: helpers *)

\* collect_unique_by_id and ensure_unique_ids, ensure_unique_api_key_tokens:
\* no two members of a list agree on the field.
Unique(items, field) ==
  \A a, b \in items : a[field] = b[field] => a = b

\* The HashMap from id to resource.
ById(items) ==
  [id \in {x.id : x \in items} |-> CHOOSE x \in items : x.id = id]

\* missing_policy_reason is None.
PolicyPresent(resource, policies_by_id) ==
  \/ resource.policy_id = None
  \/ resource.policy_id \in DOMAIN policies_by_id

\* A policy's limits, overridden field by field by the inline ones.
resolve_limits(inline, policy_id, policies_by_id) ==
  LET base == IF policy_id = None THEN NoLimits
              ELSE policies_by_id[policy_id].rate_limit
  IN  IF inline = None THEN base
      ELSE [k \in LimitKinds |-> IF inline[k] # None THEN inline[k] ELSE base[k]]

\* Slips of the two cascade tests and of the token test, for the mutation runs.
UsableModelIgnoringProvider(model, providers_by_id, policies_by_id) ==
  PolicyPresent(model, policies_by_id)

UniqueTokensUnchecked(apikeys) == TRUE

\* The model loop keeps a model whose provider was kept.
UsableModel(model, providers_by_id, policies_by_id) ==
  /\ model.provider_id \in DOMAIN providers_by_id
  /\ PolicyPresent(model, policies_by_id)

\* The api key loop keeps a key all of whose models were kept.
UsableKey(apikey, models_by_name, policies_by_id) ==
  /\ apikey.allowed_models \subseteq DOMAIN models_by_name
  /\ PolicyPresent(apikey, policies_by_id)

UniqueTokens(apikeys) == Unique(apikeys, "key")

Limits(by_id, policies_by_id) ==
  [id \in DOMAIN by_id |->
     resolve_limits(by_id[id].rate_limit, by_id[id].policy_id, policies_by_id)]

CacheModes(by_id) ==
  [id \in DOMAIN by_id |-> IF by_id[id].cache = None THEN "inherit" ELSE by_id[id].cache]

\* The token table: the last insert of the key loop wins, and UniqueTokens makes
\* it the only one.
KeysByToken(apikeys) ==
  [t \in {k.key : k \in apikeys} |->
     LET k == CHOOSE k \in apikeys : k.key = t
     IN  [key_id |-> k.id, allowed_models |-> k.allowed_models, expires_at |-> None]]

-----------------------------------------------------------------------------
(* compile.rs: compile_snapshot.  Each list is the set of its members. *)
compile_snapshot(providers, models, apikeys, policies, revision) ==
  IF \/ \E items \in {policies, providers, models, apikeys} : ~Unique(items, "id")
     \/ ~UniqueTokens(apikeys)
  THEN HardError
  ELSE
    LET policies_by_id == ById(policies)
        providers_by_id == ById({p \in providers : PolicyPresent(p, policies_by_id)})
        models_by_name ==
          ById({m \in models : UsableModel(m, providers_by_id, policies_by_id)})
        usable == {k \in apikeys : UsableKey(k, models_by_name, policies_by_id)}
        apikeys_by_id == ById(usable)
    IN  [revision             |-> revision,
         keys_by_token        |-> KeysByToken(usable),
         apikeys_by_id        |-> apikeys_by_id,
         providers_by_id      |-> providers_by_id,
         models_by_name       |-> models_by_name,
         policies_by_id       |-> policies_by_id,
         provider_limits      |-> Limits(providers_by_id, policies_by_id),
         model_limits         |-> Limits(models_by_name, policies_by_id),
         key_limits           |-> Limits(apikeys_by_id, policies_by_id),
         provider_cache_modes |-> CacheModes(providers_by_id),
         model_cache_modes    |-> CacheModes(models_by_name)]

(* loader.rs: decode_entry and compile_snapshot_from_entries.  One entry that
   cannot be placed or decoded fails the whole load. *)
Present(kv) == {k \in DOMAIN kv : kv[k] # Absent}

Decodes(key, body) ==
  /\ key[1] \in Collections
  /\ body # Undecodable
  /\ body.id = key[2]

Members(kv, collection) == {kv[k] : k \in {k \in Present(kv) : k[1] = collection}}

compile_snapshot_from_entries(kv, revision) ==
  IF \E k \in Present(kv) : ~Decodes(k, kv[k]) THEN HardError
  ELSE compile_snapshot(Members(kv, "providers"), Members(kv, "models"),
                        Members(kv, "apikeys"), Members(kv, "policies"), revision)
=============================================================================
