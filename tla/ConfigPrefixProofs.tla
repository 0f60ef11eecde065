-------------------------- MODULE ConfigPrefixProofs --------------------------
(***************************************************************************)
(* What the tables of module ConfigCompile hold, for every content of the  *)
(* prefix: the first lemmas say of each table which resources it is made   *)
(* of, and after them no proof looks into the compiler's definition again. *)
(*                                                                         *)
(* Then the compiler's three promises, for every set of keys and bodies:   *)
(* the largest closed subset is published, tokens are unambiguous, and     *)
(* creating a resource disturbs no other.  None needs an induction: the    *)
(* references go through four levels and no further.                       *)
(***************************************************************************)
EXTENDS ConfigPrefix, TLAPS

-----------------------------------------------------------------------------
(* The compiler's tables *)

\* A map by id holds exactly the members of its list, each under its own id.
LEMMA ByIdHolds ==
  ASSUME NEW S, Unique(S, "id")
  PROVE  /\ DOMAIN ById(S) = {x.id : x \in S}
         /\ \A x \in S : x.id \in DOMAIN ById(S) /\ ById(S)[x.id] = x
         /\ \A id \in DOMAIN ById(S) : ById(S)[id] \in S /\ ById(S)[id].id = id
<1>1. DOMAIN ById(S) = {x.id : x \in S}
  BY DEF ById
<1>2. ASSUME NEW id \in DOMAIN ById(S) PROVE ById(S)[id] \in S /\ ById(S)[id].id = id
  <2>1. PICK x \in S : x.id = id
    BY <1>1, <1>2
  <2>2. ById(S)[id] = CHOOSE y \in S : y.id = id
    BY <1>1, <1>2 DEF ById
  <2> QED
    BY <2>1, <2>2
<1>3. ASSUME NEW x \in S PROVE x.id \in DOMAIN ById(S) /\ ById(S)[x.id] = x
  <2>1. x.id \in DOMAIN ById(S)
    BY <1>1, <1>3
  <2>2. ById(S)[x.id] \in S /\ ById(S)[x.id].id = x.id
    BY <1>2, <2>1
  <2> QED
    BY <1>3, <2>1, <2>2 DEF Unique
<1> QED
  BY <1>1, <1>2, <1>3

\* Members that are told apart by a field still are when some are left out.
LEMMA UniqueSubset ==
  ASSUME NEW S, NEW T, T \subseteq S, NEW field, Unique(S, field)
  PROVE  Unique(T, field)
BY DEF Unique

-----------------------------------------------------------------------------
(* The lists that are left after each of the compiler's loops. *)

UsableProviders(providers, policies) ==
  {p \in providers : PolicyPresent(p, ById(policies))}

UsableModels(models, providers, policies) ==
  {m \in models : UsableModel(m, ById(UsableProviders(providers, policies)), ById(policies))}

UsableKeys(apikeys, models, providers, policies) ==
  {k \in apikeys : UsableKey(k, ById(UsableModels(models, providers, policies)), ById(policies))}

\* A compilation that does not fail publishes the lists that are left.
LEMMA CompiledTables ==
  ASSUME NEW P, NEW M, NEW A, NEW L, NEW revision,
         compile_snapshot(P, M, A, L, revision) # HardError
  PROVE  /\ Unique(P, "id") /\ Unique(M, "id") /\ Unique(A, "id") /\ Unique(L, "id")
         /\ Unique(A, "key")
         /\ LET pol == ById(L)
                prov == ById(UsableProviders(P, L))
                mod == ById(UsableModels(M, P, L))
                keys == UsableKeys(A, M, P, L)
            IN  compile_snapshot(P, M, A, L, revision) =
                  [revision             |-> revision,
                   keys_by_token        |-> KeysByToken(keys),
                   apikeys_by_id        |-> ById(keys),
                   providers_by_id      |-> prov,
                   models_by_name       |-> mod,
                   policies_by_id       |-> pol,
                   provider_limits      |-> Limits(prov, pol),
                   model_limits         |-> Limits(mod, pol),
                   key_limits           |-> Limits(ById(keys), pol),
                   provider_cache_modes |-> CacheModes(prov),
                   model_cache_modes    |-> CacheModes(mod)]
<1>1. /\ \A items \in {L, P, M, A} : Unique(items, "id")
      /\ UniqueTokens(A)
  BY DEF compile_snapshot
<1> QED
  BY <1>1 DEF compile_snapshot, UniqueTokens, UsableProviders, UsableModels, UsableKeys

\* A load that does not fail has decoded every entry and compiled the four lists.
LEMMA LoadedEntries ==
  ASSUME NEW content, NEW revision, compile_snapshot_from_entries(content, revision) # HardError
  PROVE  /\ \A k \in Present(content) : Decodes(k, content[k])
         /\ compile_snapshot_from_entries(content, revision) =
              compile_snapshot(Members(content, "providers"), Members(content, "models"),
                               Members(content, "apikeys"), Members(content, "policies"), revision)
BY DEF compile_snapshot_from_entries

\* The token table leads back to the keys it was made of, for keys whose tokens
\* are their own.
LEMMA TokensLeadBack ==
  ASSUME NEW S, Unique(S, "key")
  PROVE  /\ DOMAIN KeysByToken(S) = {k.key : k \in S}
         /\ \A k \in S :
              KeysByToken(S)[k.key] =
                [key_id |-> k.id, allowed_models |-> k.allowed_models, expires_at |-> None]
<1>1. DOMAIN KeysByToken(S) = {k.key : k \in S}
  BY DEF KeysByToken
<1>2. ASSUME NEW k \in S
      PROVE  KeysByToken(S)[k.key] =
               [key_id |-> k.id, allowed_models |-> k.allowed_models, expires_at |-> None]
  <2>1. (CHOOSE j \in S : j.key = k.key) = k
    BY <1>2 DEF Unique
  <2> QED
    BY <2>1 DEF KeysByToken
<1> QED
  BY <1>1, <1>2

-----------------------------------------------------------------------------
(* What a table says, the content says. *)

\* A token the tables know is the token of a stored key, with its models.
THEOREM KnownTokensAreStored ==
  ASSUME NEW content, NEW revision, compile_snapshot_from_entries(content, revision) # HardError,
         NEW t \in DOMAIN compile_snapshot_from_entries(content, revision).keys_by_token
  PROVE  \E k \in DOMAIN content :
           /\ k[1] = "apikeys" /\ content[k] # Absent /\ content[k].key = t
           /\ compile_snapshot_from_entries(content, revision).keys_by_token[t].allowed_models =
                content[k].allowed_models
<1> DEFINE P == Members(content, "providers")
           M == Members(content, "models")
           A == Members(content, "apikeys")
           L == Members(content, "policies")
           keys == UsableKeys(A, M, P, L)
<1>1. /\ compile_snapshot_from_entries(content, revision).keys_by_token = KeysByToken(keys)
      /\ Unique(A, "key")
  BY LoadedEntries, CompiledTables
<1>2. keys \subseteq A /\ Unique(keys, "key")
  BY <1>1, UniqueSubset DEF UsableKeys
<1> HIDE DEF keys
<1>3. /\ DOMAIN KeysByToken(keys) = {k.key : k \in keys}
      /\ \A k \in keys :
           KeysByToken(keys)[k.key] =
             [key_id |-> k.id, allowed_models |-> k.allowed_models, expires_at |-> None]
  BY <1>2, TokensLeadBack
<1>4. PICK key \in keys : t = key.key
  BY <1>1, <1>3
<1>5. KeysByToken(keys)[t].allowed_models = key.allowed_models
  <2>1. KeysByToken(keys)[t] =
          [key_id |-> key.id, allowed_models |-> key.allowed_models, expires_at |-> None]
    BY <1>3, <1>4, Zenon
  <2> QED
    BY <2>1
<1>6. PICK k \in Present(content) : k[1] = "apikeys" /\ content[k] = key
  BY <1>2 DEF Members
<1> QED
  BY <1>1, <1>4, <1>5, <1>6 DEF Present

\* A published model, and the provider it names, are what is stored under their ids.
THEOREM PublishedRoutesAreStored ==
  ASSUME NEW content, NEW revision, \A k \in DOMAIN content : k = <<k[1], k[2]>>,
         compile_snapshot_from_entries(content, revision) # HardError,
         NEW id \in DOMAIN compile_snapshot_from_entries(content, revision).models_by_name
  PROVE  LET tables == compile_snapshot_from_entries(content, revision)
             model == tables.models_by_name[id]
         IN  /\ model # Absent /\ model = content[<<"models", id>>]
             /\ model.provider_id \in DOMAIN tables.providers_by_id
             /\ tables.providers_by_id[model.provider_id] # Absent
             /\ tables.providers_by_id[model.provider_id] = content[<<"providers", model.provider_id>>]
<1> DEFINE P == Members(content, "providers")
           M == Members(content, "models")
           A == Members(content, "apikeys")
           L == Members(content, "policies")
           tables == compile_snapshot_from_entries(content, revision)
           providers == UsableProviders(P, L)
           models == UsableModels(M, P, L)
<1>1. /\ tables.models_by_name = ById(models) /\ tables.providers_by_id = ById(providers)
      /\ Unique(P, "id") /\ Unique(M, "id")
  BY LoadedEntries, CompiledTables
<1>2. /\ models \subseteq M /\ Unique(models, "id")
      /\ providers \subseteq P /\ Unique(providers, "id")
  BY <1>1, UniqueSubset DEF UsableModels, UsableProviders
<1>a. /\ DOMAIN ById(models) = {x.id : x \in models}
      /\ \A i \in DOMAIN ById(models) : ById(models)[i] \in models /\ ById(models)[i].id = i
  <2> HIDE DEF models
  <2> QED
    BY <1>2, ByIdHolds
<1>b. \A i \in DOMAIN ById(providers) :
        ById(providers)[i] \in providers /\ ById(providers)[i].id = i
  <2> HIDE DEF providers
  <2> QED
    BY <1>2, ByIdHolds
<1>3. ASSUME NEW collection, NEW x \in Members(content, collection)
      PROVE  x # Absent /\ x = content[<<collection, x.id>>]
  <2>1. PICK k \in Present(content) : k[1] = collection /\ content[k] = x
    BY <1>3 DEF Members
  <2>2. k = <<k[1], k[2]>> /\ x # Absent
    BY <2>1 DEF Present
  <2>3. x.id = k[2]
    BY <2>1, LoadedEntries DEF Decodes
  <2> QED
    BY <2>1, <2>2, <2>3
<1> DEFINE model == tables.models_by_name[id]
<1>4. model \in models /\ model.id = id
  BY <1>1, <1>a
<1>5. model.provider_id \in DOMAIN ById(providers)
  BY <1>4 DEF UsableModels, UsableModel
<1> DEFINE provider == tables.providers_by_id[model.provider_id]
<1>6. provider \in providers /\ provider.id = model.provider_id
  BY <1>1, <1>5, <1>b
<1>7. model # Absent /\ model = content[<<"models", id>>]
  BY <1>2, <1>3, <1>4
<1>8. provider # Absent /\ provider = content[<<"providers", model.provider_id>>]
  BY <1>2, <1>3, <1>6
<1> QED
  BY <1>1, <1>5, <1>7, <1>8

-----------------------------------------------------------------------------
(* The promises about a prefix that writers change *)

Policies(content) == Members(content, "policies")

Providers(content) == UsableProviders(Members(content, "providers"), Policies(content))

Models(content) ==
  UsableModels(Members(content, "models"), Members(content, "providers"), Policies(content))

Keys(content) ==
  UsableKeys(Members(content, "apikeys"), Members(content, "models"),
             Members(content, "providers"), Policies(content))

\* What a load that does not fail publishes.
LEMMA Loaded ==
  ASSUME NEW content, NEW revision,
         compile_snapshot_from_entries(content, revision) # HardError
  PROVE  LET tables == compile_snapshot_from_entries(content, revision)
             pol == ById(Policies(content))
         IN  /\ \A k \in Present(content) : Decodes(k, content[k])
             /\ tables.policies_by_id = pol
             /\ tables.providers_by_id = ById(Providers(content))
             /\ tables.models_by_name = ById(Models(content))
             /\ tables.apikeys_by_id = ById(Keys(content))
             /\ tables.keys_by_token = KeysByToken(Keys(content))
             /\ tables.provider_limits = Limits(ById(Providers(content)), pol)
             /\ tables.model_limits = Limits(ById(Models(content)), pol)
             /\ tables.key_limits = Limits(ById(Keys(content)), pol)
BY LoadedEntries, CompiledTables DEF Policies, Providers, Models, Keys

\* No two published resources of a collection share an id, no two keys a token.
LEMMA ListsAreUnique ==
  ASSUME NEW content, NEW revision,
         compile_snapshot_from_entries(content, revision) # HardError
  PROVE  /\ Unique(Policies(content), "id") /\ Unique(Providers(content), "id")
         /\ Unique(Models(content), "id") /\ Unique(Keys(content), "id")
         /\ Unique(Keys(content), "key")
<1>1. /\ Unique(Members(content, "providers"), "id") /\ Unique(Members(content, "models"), "id")
      /\ Unique(Members(content, "apikeys"), "id") /\ Unique(Members(content, "policies"), "id")
      /\ Unique(Members(content, "apikeys"), "key")
  BY LoadedEntries, CompiledTables
<1>2. /\ Providers(content) \subseteq Members(content, "providers")
      /\ Models(content) \subseteq Members(content, "models")
      /\ Keys(content) \subseteq Members(content, "apikeys")
  BY DEF Providers, Models, Keys, UsableProviders, UsableModels, UsableKeys
<1> QED
  BY <1>1, <1>2, UniqueSubset DEF Policies

\* The tests of the three loops, in terms of the lists that are left.
LEMMA ListsAreClosed ==
  ASSUME NEW content, NEW revision,
         compile_snapshot_from_entries(content, revision) # HardError
  PROVE  LET Present_(id) == id = None \/ \E p \in Policies(content) : p.id = id IN
         /\ Providers(content) =
              {p \in Members(content, "providers") : Present_(p.policy_id)}
         /\ Models(content) =
              {m \in Members(content, "models") :
                 /\ Present_(m.policy_id)
                 /\ \E p \in Providers(content) : p.id = m.provider_id}
         /\ Keys(content) =
              {k \in Members(content, "apikeys") :
                 /\ Present_(k.policy_id)
                 /\ \A n \in k.allowed_models : \E m \in Models(content) : m.id = n}
<1>1. /\ DOMAIN ById(Policies(content)) = {x.id : x \in Policies(content)}
      /\ DOMAIN ById(Providers(content)) = {x.id : x \in Providers(content)}
      /\ DOMAIN ById(Models(content)) = {x.id : x \in Models(content)}
  BY DEF ById
<1>2. Providers(content) =
        {p \in Members(content, "providers") : PolicyPresent(p, ById(Policies(content)))}
  BY DEF Providers, UsableProviders
<1>3. Models(content) =
        {m \in Members(content, "models") :
           UsableModel(m, ById(Providers(content)), ById(Policies(content)))}
  BY DEF Models, Providers, UsableModels
<1>4. Keys(content) =
        {k \in Members(content, "apikeys") :
           UsableKey(k, ById(Models(content)), ById(Policies(content)))}
  BY DEF Keys, Models, UsableKeys
<1>5. Providers(content) =
        {p \in Members(content, "providers") :
           p.policy_id = None \/ \E q \in Policies(content) : q.id = p.policy_id}
  BY <1>1, <1>2 DEF PolicyPresent
<1>6. Models(content) =
        {m \in Members(content, "models") :
           /\ m.policy_id = None \/ \E q \in Policies(content) : q.id = m.policy_id
           /\ \E p \in Providers(content) : p.id = m.provider_id}
  BY <1>1, <1>3 DEF UsableModel, PolicyPresent
<1>7. Keys(content) =
        {k \in Members(content, "apikeys") :
           /\ k.policy_id = None \/ \E q \in Policies(content) : q.id = k.policy_id
           /\ \A n \in k.allowed_models : \E m \in Models(content) : m.id = n}
  BY <1>1, <1>4 DEF UsableKey, PolicyPresent
<1> QED
  BY <1>5, <1>6, <1>7

-----------------------------------------------------------------------------
(* The largest closed subset *)

\* A table by id publishes the list it was made of.
LEMMA TaggedHolds ==
  ASSUME NEW S, Unique(S, "id"), NEW collection
  PROVE  Tagged(collection, ById(S)) = {<<collection, x>> : x \in S}
<1>1. /\ \A x \in S : x.id \in DOMAIN ById(S) /\ ById(S)[x.id] = x
      /\ \A id \in DOMAIN ById(S) : ById(S)[id] \in S
  BY ByIdHolds
<1> QED
  BY <1>1 DEF Tagged

\* What is published, collection by collection.
LEMMA PublishedLists ==
  ASSUME NEW content, NEW revision,
         compile_snapshot_from_entries(content, revision) # HardError
  PROVE  Published(compile_snapshot_from_entries(content, revision)) =
           {<<"policies", x>> : x \in Policies(content)} \cup
           {<<"providers", x>> : x \in Providers(content)} \cup
           {<<"models", x>> : x \in Models(content)} \cup
           {<<"apikeys", x>> : x \in Keys(content)}
BY Loaded, ListsAreUnique, TaggedHolds DEF Published

\* A stored resource is a member of its collection, and in one of the four.
LEMMA ResourcesAreMembers ==
  ASSUME NEW content, NEW revision,
         compile_snapshot_from_entries(content, revision) # HardError
  PROVE  /\ \A r \in Resources(content) :
              /\ r = <<r[1], r[2]>> /\ r[1] \in Collections
              /\ r[2] \in Members(content, r[1])
         /\ \A collection : \A x \in Members(content, collection) :
              <<collection, x>> \in Resources(content)
<1>1. ASSUME NEW k \in Present(content) PROVE k[1] \in Collections
  BY <1>1, Loaded DEF Decodes
<1> QED
  BY <1>1 DEF Resources, Members

\* The loops leave the largest closed subset, for every content that loads.
LEMMA Largest ==
  ASSUME NEW content, NEW revision,
         compile_snapshot_from_entries(content, revision) # HardError
  PROVE  Published(compile_snapshot_from_entries(content, revision)) =
           UNION {S \in SUBSET Resources(content) : Closed(S)}
<1> DEFINE Pub == Published(compile_snapshot_from_entries(content, revision))
           P == Providers(content)
           M == Models(content)
           K == Keys(content)
           L == Policies(content)
<1>1. Pub = {<<"policies", x>> : x \in L} \cup {<<"providers", x>> : x \in P} \cup
            {<<"models", x>> : x \in M} \cup {<<"apikeys", x>> : x \in K}
  BY PublishedLists
<1>2. /\ P = {p \in Members(content, "providers") :
                p.policy_id = None \/ \E q \in L : q.id = p.policy_id}
      /\ M = {m \in Members(content, "models") :
                /\ m.policy_id = None \/ \E q \in L : q.id = m.policy_id
                /\ \E p \in P : p.id = m.provider_id}
      /\ K = {k \in Members(content, "apikeys") :
                /\ k.policy_id = None \/ \E q \in L : q.id = k.policy_id
                /\ \A n \in k.allowed_models : \E m \in M : m.id = n}
      /\ L = Members(content, "policies")
  BY ListsAreClosed DEF Policies
<1> HIDE DEF Pub, P, M, K, L
<1>3. Pub \subseteq Resources(content)
  BY <1>1, <1>2, ResourcesAreMembers
<1>4. Closed(Pub)
  <2>1. /\ \A id : (\E q \in L : q.id = id) => Has(Pub, "policies", id)
        /\ \A id : (\E p \in P : p.id = id) => Has(Pub, "providers", id)
        /\ \A id : (\E m \in M : m.id = id) => Has(Pub, "models", id)
    <3>1. ASSUME NEW collection, NEW x, <<collection, x>> \in Pub
          PROVE  Has(Pub, collection, x.id)
      <4>1. <<collection, x>>[1] = collection /\ <<collection, x>>[2] = x
        OBVIOUS
      <4> QED
        BY <3>1, <4>1 DEF Has
    <3>2. /\ \A q \in L : <<"policies", q>> \in Pub
          /\ \A p \in P : <<"providers", p>> \in Pub
          /\ \A m \in M : <<"models", m>> \in Pub
      BY <1>1
    <3> QED
      BY <3>1, <3>2
  <2> SUFFICES ASSUME NEW r \in Pub
      PROVE  /\ r[1] # "policies" =>
                  r[2].policy_id = None \/ Has(Pub, "policies", r[2].policy_id)
             /\ r[1] = "models" => Has(Pub, "providers", r[2].provider_id)
             /\ r[1] = "apikeys" => \A m \in r[2].allowed_models : Has(Pub, "models", m)
    BY DEF Closed
  <2>2. CASE \E x \in L : r = <<"policies", x>>
    BY <2>2
  <2>3. CASE \E x \in P : r = <<"providers", x>>
    BY <1>2, <2>1, <2>3
  <2>4. CASE \E x \in M : r = <<"models", x>>
    BY <1>2, <2>1, <2>4
  <2>5. CASE \E x \in K : r = <<"apikeys", x>>
    BY <1>2, <2>1, <2>5
  <2> QED
    BY <1>1, <2>2, <2>3, <2>4, <2>5
<1>5. ASSUME NEW S \in SUBSET Resources(content), Closed(S) PROVE S \subseteq Pub
  <2>1. \A r \in S : /\ r = <<r[1], r[2]>> /\ r[1] \in Collections
                     /\ r[2] \in Members(content, r[1])
    BY ResourcesAreMembers
  <2>2. \A r \in S : r[1] = "policies" => r[2] \in L
    BY <1>2, <2>1
  <2>3. \A r \in S : r[1] # "policies" =>
          r[2].policy_id = None \/ \E q \in L : q.id = r[2].policy_id
    BY <1>5, <2>2 DEF Closed, Has
  <2>4. \A r \in S : r[1] = "providers" => r[2] \in P
    BY <1>2, <2>1, <2>3
  <2>5. \A r \in S : r[1] = "models" => \E p \in P : p.id = r[2].provider_id
    BY <1>5, <2>4 DEF Closed, Has
  <2>6. \A r \in S : r[1] = "models" => r[2] \in M
    BY <1>2, <2>1, <2>3, <2>5
  <2>7. \A r \in S : r[1] = "apikeys" =>
          \A n \in r[2].allowed_models : \E m \in M : m.id = n
    BY <1>5, <2>6 DEF Closed, Has
  <2>8. \A r \in S : r[1] = "apikeys" => r[2] \in K
    BY <1>2, <2>1, <2>3, <2>7
  <2> QED
    BY <1>1, <2>1, <2>2, <2>4, <2>6, <2>8 DEF Collections
<1> QED
  BY <1>3, <1>4, <1>5 DEF Pub

\* compile_snapshot's loops publish the largest subset of what is stored in which
\* nothing refers to an absent resource, whatever is stored.
THEOREM PublishesTheLargestClosedSubset == Spec => []LargestClosedSubset
<1>1. LargestClosedSubset
  BY Largest DEF LargestClosedSubset, Compiled
<1> QED
  BY <1>1, PTL

-----------------------------------------------------------------------------
(* Tokens *)

\* Every published key is what its token leads to, and no token leads elsewhere.
THEOREM TokensAreUnambiguous == Spec => []TokensNameTheirKeys
<1>1. ASSUME Compiled # HardError
      PROVE  /\ \A id \in DOMAIN Compiled.apikeys_by_id :
                  LET k == Compiled.apikeys_by_id[id]
                  IN  /\ k.key \in DOMAIN Compiled.keys_by_token
                      /\ Compiled.keys_by_token[k.key].key_id = id
                      /\ Compiled.keys_by_token[k.key].allowed_models = k.allowed_models
             /\ \A t \in DOMAIN Compiled.keys_by_token :
                  Compiled.keys_by_token[t].key_id \in DOMAIN Compiled.apikeys_by_id
  <2> DEFINE K == Keys(kv)
  <2>1. Compiled.apikeys_by_id = ById(K) /\ Compiled.keys_by_token = KeysByToken(K)
    BY <1>1, Loaded DEF Compiled
  <2>2. Unique(K, "id") /\ Unique(K, "key")
    BY <1>1, ListsAreUnique DEF Compiled
  <2> HIDE DEF K
  <2>3. /\ \A x \in K : x.id \in DOMAIN ById(K)
        /\ \A id \in DOMAIN ById(K) : ById(K)[id] \in K /\ ById(K)[id].id = id
    BY <2>2, ByIdHolds
  <2>4. /\ DOMAIN KeysByToken(K) = {k.key : k \in K}
        /\ \A k \in K :
             KeysByToken(K)[k.key] =
               [key_id |-> k.id, allowed_models |-> k.allowed_models, expires_at |-> None]
    BY <2>2, TokensLeadBack
  <2>5. \A k \in K : /\ KeysByToken(K)[k.key].key_id = k.id
                     /\ KeysByToken(K)[k.key].allowed_models = k.allowed_models
    <3> TAKE k \in K
    <3>1. KeysByToken(K)[k.key] =
            [key_id |-> k.id, allowed_models |-> k.allowed_models, expires_at |-> None]
      BY <2>4, Zenon
    <3> QED
      BY <3>1
  <2>6. \A id \in DOMAIN ById(K) :
          /\ ById(K)[id].key \in DOMAIN KeysByToken(K)
          /\ KeysByToken(K)[ById(K)[id].key].key_id = id
          /\ KeysByToken(K)[ById(K)[id].key].allowed_models = ById(K)[id].allowed_models
    BY <2>3, <2>4, <2>5
  <2>7. \A t \in DOMAIN KeysByToken(K) : KeysByToken(K)[t].key_id \in DOMAIN ById(K)
    BY <2>3, <2>4, <2>5
  <2> QED
    BY <2>1, <2>6, <2>7
<1>2. TokensNameTheirKeys
  BY <1>1 DEF TokensNameTheirKeys
<1> QED
  BY <1>2, PTL

-----------------------------------------------------------------------------
(* Creation *)

Kept(old, new) ==
  \A k \in DOMAIN old : old[k] # Absent => k \in DOMAIN new /\ new[k] = old[k]

\* What was kept by a loop is kept by it when there is more of everything.
LEMMA ListsGrow ==
  ASSUME NEW old, NEW new, Kept(old, new),
         compile_snapshot_from_entries(old, 1) # HardError,
         compile_snapshot_from_entries(new, 1) # HardError
  PROVE  /\ Policies(old) \subseteq Policies(new)
         /\ Providers(old) \subseteq Providers(new)
         /\ Models(old) \subseteq Models(new)
         /\ Keys(old) \subseteq Keys(new)
<1>1. ASSUME NEW collection PROVE Members(old, collection) \subseteq Members(new, collection)
  BY DEF Kept, Members, Present
<1>2. Policies(old) \subseteq Policies(new)
  BY <1>1 DEF Policies
<1>3. ASSUME NEW content \in {old, new}
      PROVE  /\ Providers(content) =
                  {p \in Members(content, "providers") :
                     p.policy_id = None \/ \E q \in Policies(content) : q.id = p.policy_id}
             /\ Models(content) =
                  {m \in Members(content, "models") :
                     /\ m.policy_id = None \/ \E q \in Policies(content) : q.id = m.policy_id
                     /\ \E p \in Providers(content) : p.id = m.provider_id}
             /\ Keys(content) =
                  {k \in Members(content, "apikeys") :
                     /\ k.policy_id = None \/ \E q \in Policies(content) : q.id = k.policy_id
                     /\ \A n \in k.allowed_models : \E m \in Models(content) : m.id = n}
  BY ListsAreClosed
<1>4. Providers(old) \subseteq Providers(new)
  BY <1>1, <1>2, <1>3
<1>5. Models(old) \subseteq Models(new)
  BY <1>1, <1>2, <1>3, <1>4
<1>6. Keys(old) \subseteq Keys(new)
  BY <1>1, <1>2, <1>3, <1>5
<1> QED
  BY <1>2, <1>4, <1>5, <1>6

\* A longer list gives a map by id that extends the shorter one's.
LEMMA ByIdGrows ==
  ASSUME NEW S, NEW T, S \subseteq T, Unique(S, "id"), Unique(T, "id")
  PROVE  Extends(ById(T), ById(S))
<1>1. /\ \A id \in DOMAIN ById(S) : ById(S)[id] \in S /\ ById(S)[id].id = id
      /\ \A x \in T : x.id \in DOMAIN ById(T) /\ ById(T)[x.id] = x
  BY ByIdHolds
<1> QED
  BY <1>1 DEF Extends

\* So does a longer list of keys.
LEMMA TokensGrow ==
  ASSUME NEW S, NEW T, S \subseteq T, Unique(S, "key"), Unique(T, "key")
  PROVE  Extends(KeysByToken(T), KeysByToken(S))
<1>1. /\ DOMAIN KeysByToken(S) = {k.key : k \in S}
      /\ \A k \in S :
           KeysByToken(S)[k.key] =
             [key_id |-> k.id, allowed_models |-> k.allowed_models, expires_at |-> None]
  BY TokensLeadBack
<1>2. /\ DOMAIN KeysByToken(T) = {k.key : k \in T}
      /\ \A k \in T :
           KeysByToken(T)[k.key] =
             [key_id |-> k.id, allowed_models |-> k.allowed_models, expires_at |-> None]
  BY TokensLeadBack
<1> QED
  BY <1>1, <1>2 DEF Extends

\* A resource that was kept refers to no policy that came later.
LEMMA LimitsGrow ==
  ASSUME NEW S, NEW T, S \subseteq T, Unique(S, "id"), Unique(T, "id"),
         NEW L, NEW M, L \subseteq M, Unique(L, "id"), Unique(M, "id"),
         \A x \in S : PolicyPresent(x, ById(L))
  PROVE  Extends(Limits(ById(T), ById(M)), Limits(ById(S), ById(L)))
<1>1. Extends(ById(T), ById(S)) /\ Extends(ById(M), ById(L))
  BY ByIdGrows
<1>2. \A id \in DOMAIN ById(S) : PolicyPresent(ById(S)[id], ById(L))
  BY ByIdHolds
<1>3. ASSUME NEW x, PolicyPresent(x, ById(L))
      PROVE  resolve_limits(x.rate_limit, x.policy_id, ById(M)) =
               resolve_limits(x.rate_limit, x.policy_id, ById(L))
  <2>1. CASE x.policy_id = None
    BY <2>1 DEF resolve_limits
  <2>2. CASE x.policy_id # None
    <3>1. x.policy_id \in DOMAIN ById(L)
      BY <1>3, <2>2 DEF PolicyPresent
    <3>2. ById(M)[x.policy_id] = ById(L)[x.policy_id]
      BY <1>1, <3>1 DEF Extends
    <3> QED
      BY <3>2 DEF resolve_limits
  <2> QED
    BY <2>1, <2>2
<1>4. /\ DOMAIN Limits(ById(S), ById(L)) = DOMAIN ById(S)
      /\ DOMAIN Limits(ById(T), ById(M)) = DOMAIN ById(T)
  BY DEF Limits
<1>5. ASSUME NEW id \in DOMAIN ById(S)
      PROVE  Limits(ById(T), ById(M))[id] = Limits(ById(S), ById(L))[id]
  <2>1. id \in DOMAIN ById(T) /\ ById(T)[id] = ById(S)[id]
    BY <1>1, <1>5 DEF Extends
  <2>2. Limits(ById(S), ById(L))[id] =
          resolve_limits(ById(S)[id].rate_limit, ById(S)[id].policy_id, ById(L))
    BY <1>5 DEF Limits
  <2>3. Limits(ById(T), ById(M))[id] =
          resolve_limits(ById(S)[id].rate_limit, ById(S)[id].policy_id, ById(M))
    BY <2>1 DEF Limits
  <2> QED
    BY <1>2, <1>3, <1>5, <2>2, <2>3
<1> QED
  BY <1>1, <1>4, <1>5 DEF Extends

\* What is only added to the prefix is only added to the serving tables.
LEMMA CreationExtends ==
  ASSUME NEW old, NEW new, Kept(old, new),
         compile_snapshot_from_entries(old, 1) # HardError,
         compile_snapshot_from_entries(new, 1) # HardError
  PROVE  \A table \in ServingTables :
           Extends(compile_snapshot_from_entries(new, 1)[table],
                   compile_snapshot_from_entries(old, 1)[table])
<1> DEFINE was == compile_snapshot_from_entries(old, 1)
           is == compile_snapshot_from_entries(new, 1)
<1>1. ASSUME NEW content \in {old, new}
      PROVE  /\ Unique(Policies(content), "id") /\ Unique(Providers(content), "id")
             /\ Unique(Models(content), "id") /\ Unique(Keys(content), "id")
             /\ Unique(Keys(content), "key")
             /\ \A x \in Providers(content) : PolicyPresent(x, ById(Policies(content)))
             /\ \A x \in Models(content) : PolicyPresent(x, ById(Policies(content)))
             /\ \A x \in Keys(content) : PolicyPresent(x, ById(Policies(content)))
  <2>1. /\ \A x \in Providers(content) : PolicyPresent(x, ById(Policies(content)))
        /\ \A x \in Models(content) : PolicyPresent(x, ById(Policies(content)))
        /\ \A x \in Keys(content) : PolicyPresent(x, ById(Policies(content)))
    BY DEF Providers, Models, Keys, UsableProviders, UsableModels, UsableKeys,
           UsableModel, UsableKey
  <2> QED
    BY <2>1, ListsAreUnique
<1>2. /\ Policies(old) \subseteq Policies(new) /\ Providers(old) \subseteq Providers(new)
      /\ Models(old) \subseteq Models(new) /\ Keys(old) \subseteq Keys(new)
  BY ListsGrow
<1>3. /\ Extends(is.providers_by_id, was.providers_by_id)
      /\ Extends(is.models_by_name, was.models_by_name)
      /\ Extends(is.apikeys_by_id, was.apikeys_by_id)
  BY <1>1, <1>2, ByIdGrows, Loaded
<1>4. Extends(is.keys_by_token, was.keys_by_token)
  BY <1>1, <1>2, TokensGrow, Loaded
<1>5. Extends(is.provider_limits, was.provider_limits)
  <2>1. Extends(Limits(ById(Providers(new)), ById(Policies(new))),
                Limits(ById(Providers(old)), ById(Policies(old))))
    BY <1>1, <1>2, LimitsGrow
  <2> QED
    BY <2>1, Loaded
<1>6. Extends(is.model_limits, was.model_limits)
  <2>1. Extends(Limits(ById(Models(new)), ById(Policies(new))),
                Limits(ById(Models(old)), ById(Policies(old))))
    BY <1>1, <1>2, LimitsGrow
  <2> QED
    BY <2>1, Loaded
<1>7. Extends(is.key_limits, was.key_limits)
  <2>1. Extends(Limits(ById(Keys(new)), ById(Policies(new))),
                Limits(ById(Keys(old)), ById(Policies(old))))
    BY <1>1, <1>2, LimitsGrow
  <2> QED
    BY <2>1, Loaded
<1> QED
  BY <1>3, <1>4, <1>5, <1>6, <1>7 DEF ServingTables

\* A write under a key that was absent takes nothing from anyone.
THEOREM CreationIsHarmless == Spec => CreationDisturbsNothing
<1>1. ASSUME [Next]_kv,
             \A k \in DOMAIN kv : kv[k] # Absent => kv'[k] = kv[k],
             Compiled # HardError, Compiled' # HardError
      PROVE  \A table \in ServingTables : Extends(Compiled'[table], Compiled[table])
  <2>1. DOMAIN kv' = DOMAIN kv
    BY <1>1 DEF Next, Put, Delete
  <2>2. Kept(kv, kv')
    BY <1>1, <2>1 DEF Kept
  <2> QED
    BY <1>1, <2>2, CreationExtends DEF Compiled
<1> QED
  BY <1>1, PTL DEF Spec, CreationDisturbsNothing
=============================================================================
