------------------------------ MODULE AdminStore ------------------------------
(***************************************************************************)
(* The Admin API (crates/aisix-server/src/admin): handlers that check a    *)
(* call and then, one at a time behind a tokio mutex, make one etcd call   *)
(* each and answer with its result.  Here the Admin API is the only writer *)
(* of the prefix; it knows of no other call than its own, makes no         *)
(* transactions and asks for no revision.                                  *)
(*                                                                         *)
(* A handler is dropped when its client goes away, which it may do at      *)
(* either await.  That releases the mutex, but what was sent to etcd is    *)
(* still carried out, or not, at some later moment.                        *)
(***************************************************************************)
EXTENDS EtcdStore

CONSTANTS
  None, Undecodable, HardError,
  Request,    \* the calls, each made once
  Call,       \* [op, authorized, collection, id, body]
  Calls,      \* which requests make which calls
  SlashId,    \* ids with a '/' in them (sent as %2F in the path)
  Malformed   \* a payload the schema or serde rejects

ASSUME MalformedAssumption == Malformed \notin Body

ASSUME CallsAssumption == Calls \subseteq [Request -> Call]

\* "gone": the client is.
Status == {"unauthorized", "invalid", "ok", "not_found", "internal", "gone"}

ASSUME NamesAssumption == None \notin Request \cup Status /\ Undecodable # Absent

VARIABLES
  pc,       \* "new", "lock", "etcd", or "ended"
  call,     \* what the client asked
  holder,   \* who has the mutex
  wire,     \* the etcd call: "unsent", "sent", "done"
  result,   \* what etcd answered
  answer,   \* what the client is told: a status, and the result if there is one
  newest,   \* ghost: the highest revision acknowledged to anyone so far
  floor     \* ghost: what newest was when the call was made

adminVars == <<pc, call, holder, wire, result, answer, newest, floor>>

vars == <<etcdVars, adminVars>>

C == INSTANCE ConfigCompile

-----------------------------------------------------------------------------
\* A key with a slash in its id has a segment too many for the loader.
resource_key(collection, id) ==
  IF id \in SlashId THEN <<"outside", id>> ELSE <<collection, id>>

KeyOf(c) == resource_key(c.collection, c.id)

\* Slip: the two ids are not compared.
ValidWithoutBodyId(c) ==
  /\ c.id \notin SlashId
  /\ c.op = "put" => c.body # Malformed

\* require_admin comes first and has its own status; then the payload, then
\* ensure_path_matches_body_id or ensure_valid_resource_id.
Valid(c) ==
  /\ c.op # "list" => c.id \notin SlashId
  /\ c.op = "put" => c.body # Malformed /\ c.body.id = c.id

\* What serde made, it can read again.
ASSUME PayloadAssumption ==
  \A c \in Call : c.op = "put" /\ Valid(c) => c.body \in Body \ {Undecodable}

\* The router has four collections.
ASSUME RouteAssumption ==
  /\ \A c \in Call : c.collection \in C!Collections
  /\ \A k \in Key : k = <<k[1], k[2]>>

\* There is no revision 0.
NoResult == [revision |-> 0, value |-> None]

NoAnswer == [status |-> None, result |-> NoResult]

Larger(m, n) == IF m > n THEN m ELSE n

AdminInit ==
  /\ EtcdInit
  /\ pc = [r \in Request |-> "new"]
  /\ call \in Calls
  /\ holder = None
  /\ wire = [r \in Request |-> "unsent"]
  /\ result = [r \in Request |-> NoResult]
  /\ answer = [r \in Request |-> NoAnswer]
  /\ newest = 0
  /\ floor = [r \in Request |-> 0]

EndWith(r, status, res) ==
  /\ pc' = [pc EXCEPT ![r] = "ended"]
  /\ answer' = [answer EXCEPT ![r] = [status |-> status, result |-> res]]

\* put_*, get_*, list_* and delete_* up to the mutex.
Begin(r) ==
  /\ pc[r] = "new"
  /\ floor' = [floor EXCEPT ![r] = newest]
  /\ IF ~call[r].authorized THEN EndWith(r, "unauthorized", NoResult)
     ELSE IF ~Valid(call[r]) THEN EndWith(r, "invalid", NoResult)
     ELSE pc' = [pc EXCEPT ![r] = "lock"] /\ UNCHANGED answer
  /\ UNCHANGED <<etcdVars, call, holder, wire, result, newest>>

\* The mutex is taken and the etcd call sent.
Lock(r) ==
  /\ pc[r] = "lock" /\ holder = None
  /\ holder' = r
  /\ pc' = [pc EXCEPT ![r] = "etcd"]
  /\ wire' = [wire EXCEPT ![r] = "sent"]
  /\ UNCHANGED <<etcdVars, call, result, answer, newest, floor>>

\* What etcd's store says of a call when it carries it out.
Reading(c, content) ==
  IF c.op = "list"
  THEN {content[k] : k \in {k \in Key : k[1] = c.collection /\ content[k] # Absent}}
  ELSE content[KeyOf(c)]

\* Slip: a read that etcd may answer from a member that lags behind.
ExecuteSerializable(r) ==
  LET c == call[r] IN
  /\ wire[r] = "sent" /\ c.op \in {"get", "list"}
  /\ \E n \in 1..Revision :
       result' = [result EXCEPT ![r] = [revision |-> n, value |-> Reading(c, ContentAt(n))]]
  /\ wire' = [wire EXCEPT ![r] = "done"]
  /\ UNCHANGED <<etcdVars, pc, call, holder, answer, newest, floor>>

\* get_json and list_json: linearizable range reads.
ExecuteRead(r) ==
  LET c == call[r] IN
  /\ wire[r] = "sent" /\ c.op \in {"get", "list"}
  /\ result' = [result EXCEPT ![r] = [revision |-> Revision, value |-> Reading(c, Latest)]]
  /\ wire' = [wire EXCEPT ![r] = "done"]
  /\ UNCHANGED <<etcdVars, pc, call, holder, answer, newest, floor>>

\* Slip: the revision of the store before the write.
ExecuteWriteAtOldRevision(r) ==
  LET c == call[r]
      k == KeyOf(c)
  IN
  /\ wire[r] = "sent" /\ c.op \in {"put", "delete"}
  /\ IF c.op = "put" THEN Put(k, c.body)
     ELSE Delete(k) \/ (Latest[k] = Absent /\ UNCHANGED etcdVars)
  /\ result' = [result EXCEPT ![r] = [revision |-> Revision, value |-> Latest[k]]]
  /\ wire' = [wire EXCEPT ![r] = "done"]
  /\ UNCHANGED <<pc, call, holder, answer, newest, floor>>

\* put_json and delete.  The value is what was there before (`existed`).
ExecuteWrite(r) ==
  LET c == call[r]
      k == KeyOf(c)
  IN
  /\ wire[r] = "sent" /\ c.op \in {"put", "delete"}
  /\ IF c.op = "put" THEN Put(k, c.body)
     ELSE Delete(k) \/ (Latest[k] = Absent /\ UNCHANGED etcdVars)
  /\ result' = [result EXCEPT ![r] = [revision |-> Len(history'), value |-> Latest[k]]]
  /\ wire' = [wire EXCEPT ![r] = "done"]
  /\ UNCHANGED <<pc, call, holder, answer, newest, floor>>

\* A missing key answers a get or a delete with 404, a value that does not
\* decode any read with 500.
Answer(r) ==
  LET c == call[r]
      v == result[r].value
  IN
  /\ pc[r] = "etcd" /\ wire[r] = "done"
  /\ CASE c.op \in {"get", "delete"} /\ v = Absent -> EndWith(r, "not_found", result[r])
       [] c.op = "get" /\ v = Undecodable          -> EndWith(r, "internal", NoResult)
       [] c.op = "list" /\ Undecodable \in v       -> EndWith(r, "internal", NoResult)
       [] OTHER                                    -> EndWith(r, "ok", result[r])
  /\ newest' = Larger(newest, answer'[r].result.revision)
  /\ holder' = None
  /\ UNCHANGED <<etcdVars, call, wire, result, floor>>

\* Slip: only a handler that has its answer gives the mutex back.
FailHoldingTheMutex(r) ==
  /\ pc[r] = "etcd"
  /\ EndWith(r, "internal", NoResult)
  /\ wire' \in {wire, [wire EXCEPT ![r] = "done"]}
  /\ UNCHANGED <<etcdVars, call, holder, result, newest, floor>>

\* The etcd call fails: it was carried out, or will be, or got lost.
Fail(r) ==
  /\ pc[r] = "etcd"
  /\ EndWith(r, "internal", NoResult)
  /\ holder' = None
  /\ wire' \in {wire, [wire EXCEPT ![r] = "done"]}
  /\ UNCHANGED <<etcdVars, call, result, newest, floor>>

\* The client goes away: the future is dropped, and with it the mutex guard.
Cancel(r) ==
  /\ pc[r] \in {"lock", "etcd"}
  /\ EndWith(r, "gone", NoResult)
  /\ holder' = IF holder = r THEN None ELSE holder
  /\ UNCHANGED <<etcdVars, call, wire, result, newest, floor>>

AdminNext ==
  \E r \in Request :
    \/ Begin(r) \/ Lock(r) \/ ExecuteRead(r) \/ ExecuteWrite(r)
    \/ Answer(r) \/ Fail(r) \/ Cancel(r)

\* The runtime runs handlers that can go on; etcd answers or its connection
\* fails (the calls have no timeout of their own).
AdminFairness ==
  \A r \in Request :
    /\ WF_vars(Begin(r)) /\ WF_vars(Lock(r)) /\ WF_vars(Answer(r))
    /\ WF_vars(Fail(r) \/ ExecuteRead(r) \/ ExecuteWrite(r))

AdminSpec == AdminInit /\ [][AdminNext]_vars /\ AdminFairness

-----------------------------------------------------------------------------
(* The promise to callers.  What etcd did and nobody may see yet is already the
   effect of the call; the mutex and the wire are out of sight. *)

Outcome ==
  [unauthorized |-> "refused", invalid |-> "refused", ok |-> "answered",
   not_found |-> "answered", internal |-> "givenup", gone |-> "givenup"]

Phase(r) ==
  CASE pc[r] = "new"             -> "new"
    [] pc[r] \in {"lock", "etcd"} -> "open"
    [] pc[r] = "ended"           -> Outcome[answer[r].status]

phase == [r \in Request |-> Phase(r)]

effect == [r \in Request |-> IF result[r] = NoResult THEN <<>> ELSE <<result[r].value>>]

told ==
  [r \in Request |-> [status |-> answer[r].status, found |-> answer[r].result.value]]

Service == INSTANCE AdminService WITH content <- Latest

\* Behind its mutex and over a connection that may break, the Admin API is one table
\* on which each call is carried out at one moment, at most once, before its answer
\* if it gets one, and in full view of every call that starts later.
ImplementsService == Service!ServiceSafety

-----------------------------------------------------------------------------
TypeOK ==
  /\ EtcdTypeOK
  /\ call \in [Request -> Call]
  /\ pc \in [Request -> {"new", "lock", "etcd", "ended"}]
  /\ holder \in Request \cup {None}
  /\ wire \in [Request -> {"unsent", "sent", "done"}]
  /\ DOMAIN result = Request /\ DOMAIN answer = Request
  /\ newest \in 0..Revision /\ floor \in [Request -> 0..newest]
  /\ \A r \in Request :
       /\ (holder = r) <=> (pc[r] = "etcd")
       /\ result[r] # NoResult => wire[r] = "done" /\ result[r].revision \in 1..Revision
       /\ answer[r].result \in {NoResult, result[r]}
       /\ IF pc[r] = "ended" THEN answer[r].status \in Status ELSE answer[r] = NoAnswer

\* A 200 to a put or a delete means that this very change, and nothing else,
\* is what etcd did at the revision in the answer, after everything that had
\* been acknowledged to anyone before the call was made.
AcknowledgedMeansCommitted ==
  \A r \in Request :
    LET c == call[r]
        n == answer[r].result.revision
        new == IF c.op = "put" THEN c.body ELSE Absent
    IN  answer[r].status = "ok" /\ c.op \in {"put", "delete"} =>
          /\ n > 1 /\ n > floor[r] /\ history[n].event
          /\ ContentAt(n) = [ContentAt(n - 1) EXCEPT ![KeyOf(c)] = new]

\* What a read says, and a 404, was so at one moment, and not at one that
\* lies before something the asker could know to be done: neither calls that
\* were given up nor errors put the API behind itself.
ReadsAreCurrent ==
  \A r \in Request :
    LET c == call[r]
        seen == answer[r].result
    IN  seen # NoResult /\ c.op \in {"get", "list"} =>
          /\ seen.revision >= floor[r]
          /\ seen.value = Reading(c, ContentAt(seen.revision))

SharedToken(content) ==
  \E j, k \in Key :
    /\ j # k /\ j[1] = "apikeys" /\ k[1] = "apikeys"
    /\ content[j] \notin {Absent, Undecodable} /\ content[k] \notin {Absent, Undecodable}
    /\ content[j].key = content[k].key

\* If the prefix could be loaded before the first call, the Admin API cannot
\* make it unloadable, by whatever calls, except by giving two keys one token.
OnlySharedTokensBreakTheLoad ==
  C!compile_snapshot_from_entries(Latest, Revision) = HardError =>
    \/ C!compile_snapshot_from_entries(ContentAt(1), 1) = HardError
    \/ SharedToken(Latest)

\* Whoever goes away or fails meanwhile, a call that is waiting for its turn
\* gets it and is answered, as long as etcd answers or refuses.
EveryCallEnds == \A r \in Request : pc[r] = "lock" ~> pc[r] = "ended"
=============================================================================
