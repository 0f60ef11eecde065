----------------------------- MODULE ConfigPrefix -----------------------------
(***************************************************************************)
(* The configuration prefix under writers who create, overwrite and delete *)
(* its entries one at a time and in any order, and what                    *)
(* compile_snapshot_from_entries makes of every content they can reach.    *)
(***************************************************************************)
EXTENDS ConfigCompile

CONSTANT Bodies   \* what writers may store under each key

VARIABLE kv       \* the content of the prefix

Init == kv = [k \in DOMAIN Bodies |-> Absent]

\* put_json: create or overwrite.
Put(k, body) == kv' = [kv EXCEPT ![k] = body]

\* delete of a key that exists.
Delete(k) == kv[k] # Absent /\ kv' = [kv EXCEPT ![k] = Absent]

Next == \E k \in DOMAIN Bodies : Delete(k) \/ \E b \in Bodies[k] : Put(k, b)

Spec == Init /\ [][Next]_kv

Compiled == compile_snapshot_from_entries(kv, 1)

-----------------------------------------------------------------------------
\* A reference definition that knows nothing of the order of the compiler's
\* loops: the union of every set of stored resources that is closed under
\* reference (a union of closed sets is closed).
Resources(content) == {<<k[1], content[k]>> : k \in Present(content)}

Has(S, collection, id) == \E r \in S : r[1] = collection /\ r[2].id = id

Closed(S) ==
  \A r \in S :
    /\ r[1] # "policies" => r[2].policy_id = None \/ Has(S, "policies", r[2].policy_id)
    /\ r[1] = "models" => Has(S, "providers", r[2].provider_id)
    /\ r[1] = "apikeys" => \A m \in r[2].allowed_models : Has(S, "models", m)

Tagged(collection, by_id) == {<<collection, by_id[id]>> : id \in DOMAIN by_id}

Published(snapshot) ==
  Tagged("policies", snapshot.policies_by_id) \cup
  Tagged("providers", snapshot.providers_by_id) \cup
  Tagged("models", snapshot.models_by_name) \cup
  Tagged("apikeys", snapshot.apikeys_by_id)

\* compile_snapshot's three loops publish exactly the largest subset of the
\* stored resources in which nothing refers to an absent resource: no resource
\* is published beside a dangling reference, none is skipped that could serve.
LargestClosedSubset ==
  Compiled # HardError =>
    Published(Compiled) = UNION {S \in SUBSET Resources(kv) : Closed(S)}

\* Authentication by token is unambiguous: the token of every published key
\* leads back to that key and its models (the debug_assert of compile.rs), and
\* no token leads to a key that was skipped.
TokensNameTheirKeys ==
  Compiled # HardError =>
    /\ \A id \in DOMAIN Compiled.apikeys_by_id :
         LET k == Compiled.apikeys_by_id[id]
         IN  /\ k.key \in DOMAIN Compiled.keys_by_token
             /\ Compiled.keys_by_token[k.key].key_id = id
             /\ Compiled.keys_by_token[k.key].allowed_models = k.allowed_models
    /\ \A t \in DOMAIN Compiled.keys_by_token :
         Compiled.keys_by_token[t].key_id \in DOMAIN Compiled.apikeys_by_id

\* Restriction of the tables of one snapshot to another's domain.
Extends(new, old) == DOMAIN old \subseteq DOMAIN new /\ \A x \in DOMAIN old : new[x] = old[x]

ServingTables ==
  {"keys_by_token", "apikeys_by_id", "models_by_name", "providers_by_id",
   "provider_limits", "model_limits", "key_limits"}

\* Creating a resource takes nothing away: a write under a key that was absent
\* leaves every key, limit and token that was published before as it was, unless
\* it makes the whole load fail.
CreationDisturbsNothing ==
  [][ (/\ \A k \in DOMAIN kv : kv[k] # Absent => kv'[k] = kv[k]
       /\ Compiled # HardError /\ Compiled' # HardError)
      => \A table \in ServingTables : Extends(Compiled'[table], Compiled[table]) ]_kv
=============================================================================
