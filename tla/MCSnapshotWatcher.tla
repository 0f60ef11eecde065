-------------------------- MODULE MCSnapshotWatcher --------------------------
(***************************************************************************)
(* The watcher over two keys and the real compiler: api keys that may be   *)
(* given one token (the load then fails as a whole), the second of which   *)
(* may instead name a model that does not exist (it is skipped, the load   *)
(* succeeds).                                                              *)
(***************************************************************************)
EXTENDS SnapshotWatcher

CONSTANTS None, Undecodable

C == INSTANCE ConfigCompile

ApiKey(id, token, models) ==
  [id |-> id, key |-> token, allowed_models |-> models, policy_id |-> None, rate_limit |-> None]

MCKey == {<<"apikeys", "k1">>, <<"apikeys", "k2">>}

MCBodyFor(k) ==
  IF k[2] = "k1" THEN {ApiKey("k1", "t1", {})}
  ELSE {ApiKey("k2", "t1", {}), ApiKey("k2", "t2", {"m1"})}

MCBody == UNION {MCBodyFor(k) : k \in MCKey}

MCStored == {[k \in MCKey |-> Absent]}

\* TLC compiles each content once.
Compiled ==
  [content \in {c \in [MCKey -> MCBody \cup {Absent}] :
                  \A k \in MCKey : c[k] \in MCBodyFor(k) \cup {Absent}} |->
     C!compile_snapshot_from_entries(content, 0)]

MCCompile(content) == Compiled[content]
=============================================================================
