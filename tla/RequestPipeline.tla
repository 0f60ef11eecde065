--------------------------- MODULE RequestPipeline ---------------------------
(***************************************************************************)
(* The data plane's handlers (crates/aisix-server/src/handlers) from the   *)
(* arrival of a request to its response: authentication, authorization,    *)
(* routing, the rate-limit check, the response cache, the upstream call    *)
(* and the recording of usage, while the watcher publishes new snapshots.  *)
(*                                                                         *)
(* One step per stretch between two awaits: reading the body (the          *)
(* extractors of chat and embeddings have authenticated before it, the     *)
(* messages handler starts after it), the rate-limit check (module         *)
(* RateLimit; here it lets through or refuses), the upstream call, and     *)
(* Redis after each of the two usage counters.  At each of them the client *)
(* may go away, which drops the future.  A streamed answer is read to its  *)
(* end before the handler goes on, like any other.                         *)
(***************************************************************************)
EXTENDS PipelineRules, Integers, Sequences, FiniteSets, Functions

CONSTANTS
  None,                  \* Option::None
  Request,               \* the requests, each sent once
  Call,                  \* [endpoint, token, model, body, stream]
  Snapshot,              \* the CompiledSnapshots, in the order they are published
  Usage                  \* what upstreams report: [input_tokens, output_tokens]

ASSUME RequestAssumption == IsFiniteSet(Request)

ASSUME UsageAssumption ==
  None \notin Usage /\ Usage \subseteq [input_tokens : Nat, output_tokens : Nat]

\* A snapshot is determined by its revision (SnapshotWatcher).
ASSUME SnapshotAssumption ==
  /\ Len(Snapshot) \in Nat \ {0}
  /\ \A i, j \in 1..Len(Snapshot) : Snapshot[i].revision = Snapshot[j].revision => i = j

VARIABLES
  current,    \* the ArcSwap: which snapshot it holds
  pc,         \* where each request is
  call,       \* what the client sent
  key_meta,   \* ctx.key_meta
  seen,       \* ghost: the snapshot key_meta was found in
  snapshot,   \* ctx.snapshot (0: none yet)
  usage,      \* ctx.usage
  answer,     \* the response built: [asked, legible, usage], or None
  cache,      \* MemoryCache: key to such an answer
  totals      \* CounterStore::local_totals, per key

vars == <<current, pc, call, key_meta, seen, snapshot, usage, answer, cache, totals>>

SnapshotIndex == 1..Len(Snapshot)

Stage ==
  {"new", "body", "precheck", "upstream", "input", "output", "done", "failed", "gone"}

KeyMeta ==
  UNION {{Snapshot[i].keys_by_token[t] : t \in DOMAIN Snapshot[i].keys_by_token} :
           i \in SnapshotIndex}

KeyId == {m.key_id : m \in KeyMeta}

ASSUME KeyMetaAssumption == None \notin KeyMeta

\* What some call can ask under some snapshot, and what can be built of the answer.
Question ==
  UNION {{Asked(Snapshot[i], c) :
            c \in {d \in Call : d.model \in DOMAIN Snapshot[i].models_by_name}} :
           i \in SnapshotIndex}

Answer == [asked : Question, legible : BOOLEAN, usage : Usage \cup {None}]

ASSUME AnswerAssumption == None \notin Answer

Goto(r, from, to) == pc[r] = from /\ pc' = [pc EXCEPT ![r] = to]

\* The snapshot of a request's context.
Own(r) == Snapshot[snapshot[r]]

\* build_anthropic_json_response parses the body, build_json_response does not.
Renders(c, a) == c.endpoint = "messages" => a.legible

-----------------------------------------------------------------------------
Init ==
  /\ current = 1
  /\ pc = [r \in Request |-> "new"]
  /\ call \in [Request -> Call]
  /\ key_meta = [r \in Request |-> None]
  /\ seen = [r \in Request |-> 0]
  /\ snapshot = [r \in Request |-> 0]
  /\ usage = [r \in Request |-> None]
  /\ answer = [r \in Request |-> None]
  /\ cache = <<>>
  /\ totals = [k \in KeyId |-> [input |-> 0, output |-> 0]]

\* The watcher stores the next snapshot.
PublishNext ==
  /\ current < Len(Snapshot)
  /\ current' = current + 1
  /\ UNCHANGED <<pc, call, key_meta, seen, snapshot, usage, answer, cache, totals>>

\* AuthenticatedKey::from_request_parts, before the body is read.
Authenticate(r) ==
  /\ call[r].endpoint # "messages"
  /\ Known(Snapshot[current], call[r])
  /\ Goto(r, "new", "body")
  /\ key_meta' = [key_meta EXCEPT ![r] = Snapshot[current].keys_by_token[call[r].token]]
  /\ seen' = [seen EXCEPT ![r] = current]
  /\ UNCHANGED <<current, call, snapshot, usage, answer, cache, totals>>

\* Slip: the handler does not check the key's models.
BeginUnauthorized(r) ==
  /\ Goto(r, "body", "precheck")
  /\ call[r].model \in DOMAIN Snapshot[current].models_by_name
  /\ snapshot' = [snapshot EXCEPT ![r] = current]
  /\ UNCHANGED <<current, call, key_meta, seen, usage, answer, cache, totals>>

\* chat_completions and embeddings, from their own load of the snapshot.
Begin(r) ==
  /\ Goto(r, "body", "precheck")
  /\ Permitted(key_meta[r], Snapshot[current], call[r])
  /\ snapshot' = [snapshot EXCEPT ![r] = current]
  /\ UNCHANGED <<current, call, key_meta, seen, usage, answer, cache, totals>>

\* run_messages: one load for the key and for the context.
BeginMessages(r) ==
  /\ call[r].endpoint = "messages"
  /\ Known(Snapshot[current], call[r])
  /\ LET meta == Snapshot[current].keys_by_token[call[r].token]
     IN  /\ Permitted(meta, Snapshot[current], call[r])
         /\ key_meta' = [key_meta EXCEPT ![r] = meta]
  /\ Goto(r, "new", "precheck")
  /\ seen' = [seen EXCEPT ![r] = current]
  /\ snapshot' = [snapshot EXCEPT ![r] = current]
  /\ UNCHANGED <<current, call, usage, answer, cache, totals>>

\* An early return: no such key; a body that does not parse or a missing header;
\* a model the key may not use or the snapshot does not have; the rate limit; a
\* codec without JSON mode or without its secret; an upstream that cannot be
\* reached, breaks off, or answers with an error, which is passed on uncached
\* and unbilled, or with a stream that cannot be normalised.
Fail(r) ==
  /\ \/ /\ pc[r] = "new"
        /\ call[r].endpoint = "messages" \/ ~Known(Snapshot[current], call[r])
     \/ pc[r] \in {"body", "precheck", "upstream"}
  /\ pc' = [pc EXCEPT ![r] = "failed"]
  /\ UNCHANGED <<current, call, key_meta, seen, snapshot, usage, answer, cache, totals>>

-----------------------------------------------------------------------------
(* post_call::record_success and UsageRecorder::record_success *)

Add(r, field, n) ==
  totals' = [totals EXCEPT ![key_meta[r].key_id][field] = @ + n]

\* Up to the first counter's Redis await; nothing without ctx.usage.
record_success(r, from) ==
  LET u == usage'[r]
  IN  IF u = None THEN Goto(r, from, "done") /\ UNCHANGED totals
      ELSE Goto(r, from, "input") /\ Add(r, "input", u.input_tokens)

InputRecorded(r) ==
  /\ Goto(r, "input", "output")
  /\ Add(r, "output", usage[r].output_tokens)
  /\ UNCHANGED <<current, call, key_meta, seen, snapshot, usage, answer, cache>>

OutputRecorded(r) ==
  /\ Goto(r, "output", "done")
  /\ UNCHANGED <<current, call, key_meta, seen, snapshot, usage, answer, cache, totals>>

\* A response that renders is recorded and returned; one that does not is an error.
Respond(r, from, a) ==
  IF Renders(call[r], a)
  THEN answer' = [answer EXCEPT ![r] = a] /\ record_success(r, from)
  ELSE Goto(r, from, "failed") /\ UNCHANGED <<answer, totals>>

-----------------------------------------------------------------------------
(* The rest of the handlers, once the rate limit let the request through *)

LooksUp(r) == cache_enabled_for_chat(Own(r), call[r])

CacheKey(r) == cache_key_for_chat(Own(r), call[r])

IsHit(r) == LooksUp(r) /\ CacheKey(r) \in DOMAIN cache

\* Slip: the cached usage is not copied to the context.
HitUnbilled(r) ==
  /\ pc[r] = "precheck"
  /\ IsHit(r)
  /\ UNCHANGED usage
  /\ Respond(r, "precheck", cache[CacheKey(r)])
  /\ UNCHANGED <<current, call, key_meta, seen, snapshot, cache>>

\* cache::lookup_chat finds an entry.
Hit(r) ==
  /\ pc[r] = "precheck"
  /\ IsHit(r)
  /\ usage' = [usage EXCEPT ![r] = cache[CacheKey(r)].usage]
  /\ Respond(r, "precheck", cache[CacheKey(r)])
  /\ UNCHANGED <<current, call, key_meta, seen, snapshot, cache>>

\* stream_chunk::proxy up to the codec's request.
Forward(r) ==
  /\ Goto(r, "precheck", "upstream")
  /\ ~IsHit(r)
  /\ Executable(Own(r), call[r])
  /\ UNCHANGED <<current, call, key_meta, seen, snapshot, usage, answer, cache, totals>>

\* A success: the answer is stored before it is rendered.
UpstreamAnswers(r, legible, u) ==
  LET a == [asked |-> Asked(Own(r), call[r]), legible |-> legible, usage |-> u]
  IN  /\ pc[r] = "upstream"
      /\ ~legible => u = None /\ ~call[r].stream
      /\ usage' = [usage EXCEPT ![r] = u]
      /\ cache' = IF LooksUp(r)
                  THEN [k \in DOMAIN cache \cup {CacheKey(r)} |->
                          IF k = CacheKey(r) THEN a ELSE cache[k]]
                  ELSE cache
      /\ Respond(r, "upstream", a)
      /\ UNCHANGED <<current, call, key_meta, seen, snapshot>>

\* The client goes away at an await.
Cancel(r) ==
  /\ pc[r] \in {"body", "precheck", "upstream", "input", "output"}
  /\ pc' = [pc EXCEPT ![r] = "gone"]
  /\ UNCHANGED <<current, call, key_meta, seen, snapshot, usage, answer, cache, totals>>

-----------------------------------------------------------------------------
Handle(r) ==
  \/ Authenticate(r) \/ Begin(r) \/ BeginMessages(r) \/ Fail(r) \/ Cancel(r)
  \/ Hit(r) \/ Forward(r)
  \/ \E legible \in BOOLEAN, u \in Usage \cup {None} : UpstreamAnswers(r, legible, u)
  \/ InputRecorded(r) \/ OutputRecorded(r)

Next == PublishNext \/ \E r \in Request : Handle(r)

Spec == Init /\ [][Next]_vars

-----------------------------------------------------------------------------
\* What each stage rests on: a request that went past its authorization may use
\* its model in the snapshot it holds, one that is being recorded has usage, and
\* one that has an answer is past the upstream.
Established ==
  \A r \in Request :
    /\ pc[r] = "body" => key_meta[r] # None
    /\ pc[r] \in {"precheck", "upstream", "input", "output", "done"} =>
         /\ snapshot[r] # 0 /\ key_meta[r] # None
         /\ Permitted(key_meta[r], Own(r), call[r])
    /\ pc[r] \in {"input", "output"} => usage[r] # None
    /\ answer[r] # None =>
         snapshot[r] # 0 /\ pc[r] \in {"input", "output", "done", "gone"}

Typed ==
  /\ current \in SnapshotIndex
  /\ pc \in [Request -> Stage]
  /\ call \in [Request -> Call]
  /\ key_meta \in [Request -> KeyMeta \cup {None}]
  /\ seen \in [Request -> 0..Len(Snapshot)]
  /\ snapshot \in [Request -> 0..Len(Snapshot)]
  /\ usage \in [Request -> Usage \cup {None}]
  /\ totals \in [KeyId -> [input : Nat, output : Nat]]

\* The type invariant of the requests and the totals: the values of the fields,
\* and what the stage a request is in has established about them.
TypeOK == Typed /\ Established

\* Whatever snapshots are published while requests wait, and whoever filled the
\* cache, what a request is answered is what the upstream of its own snapshot
\* said to its own question.
OwnUpstreamAnswer ==
  \A r \in Request :
    answer[r] # None => answer[r].asked = Asked(Own(r), call[r])

Answered(k) ==
  {r \in Request : /\ answer[r] # None /\ answer[r].usage # None
                   /\ key_meta[r].key_id = k}

Tokens(requests, field) == SumFunction([r \in requests |-> answer[r].usage[field]])

\* The local totals of a key are the usage of its answers, hits included, each
\* counted once and under that key; only the output of a client that went away
\* between the two counters can be missing, and nothing of an answer that was
\* not built is counted.
BilledOnce ==
  \A k \in KeyId :
    LET before == {r \in Answered(k) : pc[r] = "input"}
        unsure == {r \in Answered(k) : pc[r] = "gone"}
        billed == Answered(k) \ before
    IN  /\ totals[k].input = Tokens(Answered(k), "input_tokens")
        /\ totals[k].output <= Tokens(billed, "output_tokens")
        /\ totals[k].output >= Tokens(billed \ unsure, "output_tokens")

\* architecture.md: a cache hit skips the billing of PostCall, so a request that
\* is answered without having been at its upstream adds nothing to the totals.
HitsAreNotBilled ==
  [][\A r \in Request :
       pc[r] = "precheck" /\ pc'[r] \in {"input", "done"} => UNCHANGED totals]_vars

\* architecture.md: the snapshot is held through the whole request, so the key a
\* request was authenticated with is the key its own snapshot knows.
OneSnapshotPerRequest ==
  \A r \in Request : snapshot[r] # 0 => seen[r] = snapshot[r]
=============================================================================
