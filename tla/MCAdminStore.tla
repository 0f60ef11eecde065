----------------------------- MODULE MCAdminStore -----------------------------
(***************************************************************************)
(* Three calls of any kind, on a prefix with a provider, a model and a key *)
(* and on one that only holds a key somebody else garbled.                 *)
(***************************************************************************)
EXTENDS AdminStore

CONSTANTS r1, r2, r3

p1 == [id |-> "p1", policy_id |-> None, rate_limit |-> None, cache |-> None]

p2 == [p1 EXCEPT !.id = "p2"]

m1 == [id |-> "m1", provider_id |-> "p1", policy_id |-> None, rate_limit |-> None,
       cache |-> None]

ApiKey(id) ==
  [id |-> id, key |-> "t1", allowed_models |-> {"m1"}, policy_id |-> None,
   rate_limit |-> None]

slashed == [p1 EXCEPT !.id = "a/b"]

MCKey ==
  {<<"providers", "p1">>, <<"models", "m1">>, <<"apikeys", "k1">>, <<"apikeys", "k2">>,
   <<"outside", "a/b">>}

MCBody == {p1, p2, m1, ApiKey("k1"), ApiKey("k2"), slashed, Undecodable}

MCBodyFor(k) == MCBody

Empty == [k \in MCKey |-> Absent]

MCStored ==
  {[Empty EXCEPT ![<<"providers", "p1">>] = p1, ![<<"models", "m1">>] = m1,
                 ![<<"apikeys", "k1">>] = ApiKey("k1")],
   [Empty EXCEPT ![<<"apikeys", "k1">>] = Undecodable]}

Ask(op, collection, id, body) ==
  [op |-> op, authorized |-> TRUE, collection |-> collection, id |-> id, body |-> body]

CallList ==
  <<Ask("put", "providers", "p1", p1), Ask("delete", "providers", "p1", None),
    Ask("get", "providers", "p1", None), Ask("put", "apikeys", "k2", ApiKey("k2")),
    Ask("put", "providers", "p1", p2), Ask("list", "apikeys", None, None),
    Ask("put", "providers", "a/b", slashed), Ask("put", "models", "m1", Malformed),
    [Ask("delete", "models", "m1", None) EXCEPT !.authorized = FALSE]>>

MCRequest == {r1, r2, r3}

MCCall == {CallList[i] : i \in DOMAIN CallList}

\* Requests are alike, so every choice of three calls is there in one order.
MCCalls ==
  LET N == Len(CallList) IN
  {[r \in MCRequest |-> CallList[CASE r = r1 -> t[1] [] r = r2 -> t[2] [] r = r3 -> t[3]]] :
     t \in {u \in (1..N) \X (1..N) \X (1..N) : u[1] <= u[2] /\ u[2] <= u[3]}}
=============================================================================
