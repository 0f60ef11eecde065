------------------------ MODULE RequestPipelineProofs ------------------------
(***************************************************************************)
(* Proofs about the request pipeline, for every set of requests, calls,    *)
(* snapshots and usages: what each stage rests on; that a response, from   *)
(* the cache or not, is the answer of the request's own upstream to the    *)
(* request's own question; and that each answer is billed once, to the key *)
(* of its request.                                                         *)
(***************************************************************************)
EXTENDS RequestPipeline, FiniteSetTheorems, WellFoundedInduction, TLAPS

(* A request's snapshot is always seen through. *)
USE DEF Own

\* An entry was stored by some call under some snapshot that could ask it.
Stored(key, a) ==
  \E i \in SnapshotIndex, c \in Call :
    /\ key = cache_key_for_chat(Snapshot[i], c)
    /\ a.asked = Asked(Snapshot[i], c)

CacheIsHonest == \A key \in DOMAIN cache : Stored(key, cache[key])

CacheUsage == \A key \in DOMAIN cache : cache[key].usage \in Usage \cup {None}

\* answer is a function on the requests, whatever it maps them to.
AnswersByRequest == answer = [r \in Request |-> answer[r]]

\* The inductive invariant: what is answered is right because what is cached is.
IInv ==
  /\ Typed
  /\ Established
  /\ CacheIsHonest
  /\ CacheUsage
  /\ AnswersByRequest
  /\ OwnUpstreamAnswer

-----------------------------------------------------------------------------
\* Equal cache keys mean one revision, hence one snapshot, and then one route
\* and one question.
LEMMA KeyDeterminesQuestion ==
  ASSUME NEW i \in SnapshotIndex, NEW j \in SnapshotIndex, NEW c \in Call, NEW d \in Call,
         cache_key_for_chat(Snapshot[i], c) = cache_key_for_chat(Snapshot[j], d)
  PROVE  Asked(Snapshot[i], c) = Asked(Snapshot[j], d)
<1>1. /\ Snapshot[i].revision = Snapshot[j].revision
      /\ c.model = d.model
      /\ request_signature(c) = request_signature(d)
  BY DEF cache_key_for_chat
<1>2. i = j
  BY <1>1, SnapshotAssumption DEF SnapshotIndex
<1> QED
  BY <1>1, <1>2 DEF Asked, Provider, ProviderId, Model

\* The pipeline starts with nothing known and nothing cached.
LEMMA InitInv == Init => IInv
<1> SUFFICES ASSUME Init PROVE IInv
  OBVIOUS
<1>1. Typed
  BY SnapshotAssumption DEF Init, Typed, SnapshotIndex, Stage
<1>2. Established /\ OwnUpstreamAnswer
  BY DEF Init, Established, OwnUpstreamAnswer
<1>3. CacheIsHonest /\ CacheUsage /\ AnswersByRequest
  BY DEF Init, CacheIsHonest, CacheUsage, AnswersByRequest
<1> QED
  BY <1>1, <1>2, <1>3 DEF IInv

-----------------------------------------------------------------------------
(* Steps *)

\* Counting tokens of a known key keeps the totals in their type.
LEMMA AddTyped ==
  ASSUME Typed, NEW r \in Request, key_meta[r] # None, NEW field \in {"input", "output"},
         NEW n \in Nat, Add(r, field, n)
  PROVE  totals' \in [KeyId -> [input : Nat, output : Nat]]
<1>1. key_meta[r].key_id \in KeyId
  BY DEF Typed, KeyId
<1>2. totals[key_meta[r].key_id] \in [input : Nat, output : Nat]
  BY <1>1 DEF Typed
<1>3. [totals[key_meta[r].key_id] EXCEPT ![field] = @ + n] \in [input : Nat, output : Nat]
  BY <1>2
<1> QED
  BY <1>1, <1>2, <1>3 DEF Typed, Add

\* A request that is answered, from the cache or by its upstream, is answered its
\* own question and recorded with the usage of the answer.
LEMMA RespondStep ==
  ASSUME IInv, NEW r \in Request, NEW from \in {"precheck", "upstream"}, NEW a,
         pc[r] = from,
         a.asked = Asked(Snapshot[snapshot[r]], call[r]),
         a.usage \in Usage \cup {None},
         usage' = [usage EXCEPT ![r] = a.usage],
         Respond(r, from, a),
         UNCHANGED <<current, call, key_meta, seen, snapshot>>
  PROVE  Typed' /\ Established' /\ AnswersByRequest' /\ OwnUpstreamAnswer'
<1>1. usage' \in [Request -> Usage \cup {None}] /\ usage'[r] = a.usage
  BY DEF IInv, Typed
<1>2. /\ key_meta[r] # None /\ snapshot[r] # 0
      /\ Permitted(key_meta[r], Snapshot[snapshot[r]], call[r])
  BY DEF IInv, Established
<1>3. PICK to \in {"input", "done", "failed"} :
        /\ pc' = [pc EXCEPT ![r] = to]
        /\ to = "input" => usage'[r] # None
        /\ to = "failed" => UNCHANGED answer
  BY DEF Respond, record_success, Goto
<1>4. pc' \in [Request -> Stage]
  BY <1>3 DEF IInv, Typed, Stage
<1>5. totals' \in [KeyId -> [input : Nat, output : Nat]]
  <2>1. CASE UNCHANGED totals
    BY <2>1 DEF IInv, Typed
  <2>2. CASE usage'[r] # None /\ Add(r, "input", usage'[r].input_tokens)
    <3>1. usage'[r].input_tokens \in Nat
      BY <2>2, <1>1, UsageAssumption
    <3> QED
      BY <2>2, <3>1, <1>2, AddTyped DEF IInv
  <2> QED
    BY <2>1, <2>2 DEF Respond, record_success
<1>6. Typed'
  BY <1>1, <1>4, <1>5 DEF IInv, Typed, KeyId, KeyMeta, SnapshotIndex
<1>7. /\ answer' = [s \in Request |-> answer'[s]]
      /\ \A s \in Request \ {r} : answer'[s] = answer[s]
      /\ answer'[r] \in {answer[r], a}
  BY DEF Respond, IInv, AnswersByRequest
<1>8. \A s \in Request \ {r} : pc'[s] = pc[s] /\ usage'[s] = usage[s]
  BY <1>3 DEF IInv, Typed
<1>9. Established'
  <2> SUFFICES ASSUME NEW s \in Request
               PROVE  /\ pc'[s] = "body" => key_meta'[s] # None
                      /\ pc'[s] \in {"precheck", "upstream", "input", "output", "done"} =>
                           /\ snapshot'[s] # 0 /\ key_meta'[s] # None
                           /\ Permitted(key_meta'[s], Snapshot[snapshot'[s]], call'[s])
                      /\ pc'[s] \in {"input", "output"} => usage'[s] # None
                      /\ answer'[s] # None =>
                           /\ snapshot'[s] # 0
                           /\ pc'[s] \in {"input", "output", "done", "gone"}
    BY DEF Established, Permitted
  <2>1. CASE s # r
    BY <1>7, <1>8, <2>1 DEF IInv, Established
  <2>2. CASE s = r
    <3>1. pc'[r] \in {"input", "done", "failed"} /\ (pc'[r] = "input" => usage'[r] # None)
      BY <1>3 DEF IInv, Typed
    <3>2. pc'[r] = "failed" => answer'[r] = None
      <4> SUFFICES ASSUME pc'[r] = "failed" PROVE answer[r] = None /\ answer' = answer
        OBVIOUS
      <4>1. answer' = answer
        BY <1>3, <3>1 DEF IInv, Typed
      <4> QED
        BY <4>1 DEF IInv, Established
    <3> QED
      BY <1>2, <2>2, <3>1, <3>2
  <2> QED
    BY <2>1, <2>2
<1>10. OwnUpstreamAnswer'
  <2> SUFFICES ASSUME NEW s \in Request, answer'[s] # None
               PROVE  answer'[s].asked = Asked(Snapshot[snapshot'[s]], call'[s])
    BY DEF OwnUpstreamAnswer, Asked, Provider, ProviderId, Model, request_signature
  <2>1. CASE answer'[s] = answer[s]
    BY <2>1 DEF IInv, OwnUpstreamAnswer
  <2>2. CASE s = r /\ answer'[s] = a
    BY <2>2
  <2> QED
    BY <1>7, <2>1, <2>2
<1> QED
  BY <1>6, <1>7, <1>9, <1>10 DEF AnswersByRequest

\* A step that answers nobody and records nothing: if it keeps the fields of every
\* request but r, and what r's new stage rests on holds, the invariant survives.
LEMMA QuietStep ==
  ASSUME IInv, NEW r \in Request, answer[r] = None, Typed',
         UNCHANGED <<call, usage, answer, cache>>,
         \A s \in Request \ {r} :
           /\ pc'[s] = pc[s]
           /\ key_meta'[s] = key_meta[s]
           /\ snapshot'[s] = snapshot[s],
         pc'[r] = "body" => key_meta'[r] # None,
         pc'[r] \in {"precheck", "upstream"} =>
           /\ snapshot'[r] # 0 /\ key_meta'[r] # None
           /\ Permitted(key_meta'[r], Snapshot[snapshot'[r]], call[r]),
         pc'[r] \in {"new", "body", "precheck", "upstream", "failed", "gone"}
  PROVE  IInv'
<1>1. Established'
  <2> SUFFICES ASSUME NEW s \in Request
               PROVE  /\ pc'[s] = "body" => key_meta'[s] # None
                      /\ pc'[s] \in {"precheck", "upstream", "input", "output", "done"} =>
                           /\ snapshot'[s] # 0 /\ key_meta'[s] # None
                           /\ Permitted(key_meta'[s], Snapshot[snapshot'[s]], call'[s])
                      /\ pc'[s] \in {"input", "output"} => usage'[s] # None
                      /\ answer'[s] # None =>
                           /\ snapshot'[s] # 0
                           /\ pc'[s] \in {"input", "output", "done", "gone"}
    BY DEF Established, Permitted
  <2>1. CASE s = r
    BY <2>1
  <2>2. CASE s # r
    BY <2>2 DEF IInv, Established
  <2> QED
    BY <2>1, <2>2
<1>2. CacheIsHonest' /\ CacheUsage'
  BY DEF IInv, CacheIsHonest, CacheUsage, Stored, cache_key_for_chat, Asked, Provider, ProviderId,
         Model, request_signature
<1>3. AnswersByRequest'
  BY DEF IInv, AnswersByRequest
<1>4. OwnUpstreamAnswer'
  <2> SUFFICES ASSUME NEW s \in Request, answer'[s] # None
               PROVE  answer'[s].asked = Asked(Snapshot[snapshot'[s]], call'[s])
    BY DEF OwnUpstreamAnswer, Asked, Provider, ProviderId, Model, request_signature
  <2>1. s # r /\ answer[s] # None
    OBVIOUS
  <2> QED
    BY <2>1 DEF IInv, OwnUpstreamAnswer
<1> QED
  BY <1>1, <1>2, <1>3, <1>4 DEF IInv

\* The key metadata of a known token is a key of the snapshot.
LEMMA KnownKey ==
  ASSUME NEW i \in SnapshotIndex, NEW c, Known(Snapshot[i], c)
  PROVE  Snapshot[i].keys_by_token[c.token] \in KeyMeta
BY DEF Known, KeyMeta

\* Publishing a snapshot changes no request: each holds the one it loaded.
LEMMA PublishStep == ASSUME IInv, PublishNext PROVE IInv'
<1>0. current' \in SnapshotIndex
  BY SnapshotAssumption DEF IInv, Typed, PublishNext, SnapshotIndex
<1>1. Typed'
  BY <1>0 DEF IInv, Typed, PublishNext, Stage
<1>2. Established' /\ AnswersByRequest' /\ OwnUpstreamAnswer'
  BY DEF IInv, PublishNext, Established, Permitted, AnswersByRequest, OwnUpstreamAnswer, Asked,
         Provider, ProviderId, Model, request_signature
<1>3. CacheIsHonest' /\ CacheUsage'
  BY DEF IInv, PublishNext, CacheIsHonest, CacheUsage, Stored, cache_key_for_chat, Asked,
         Provider, ProviderId, Model, request_signature
<1> QED
  BY <1>1, <1>2, <1>3 DEF IInv

\* The extractor finds the key.
LEMMA AuthenticateStep == ASSUME IInv, NEW r \in Request, Authenticate(r) PROVE IInv'
<1>1. pc[r] = "new" /\ pc' = [pc EXCEPT ![r] = "body"] /\ answer[r] = None
  BY DEF IInv, Established, Authenticate, Goto
<1>2. Snapshot[current].keys_by_token[call[r].token] \in KeyMeta
  BY KnownKey DEF IInv, Typed, Authenticate
<1>3. Typed'
  <2>1. key_meta' \in [Request -> KeyMeta \cup {None}]
    BY <1>2 DEF IInv, Typed, Authenticate
  <2>2. seen' \in [Request -> 0..Len(Snapshot)] /\ snapshot' \in [Request -> 0..Len(Snapshot)]
    BY SnapshotAssumption DEF IInv, Typed, Authenticate, SnapshotIndex
  <2> QED
    BY <1>1, <2>1, <2>2 DEF IInv, Typed, Authenticate, Stage
<1>4. key_meta'[r] # None
  BY <1>2, KeyMetaAssumption DEF IInv, Typed, Authenticate
<1> QED
  BY <1>1, <1>3, <1>4, QuietStep DEF IInv, Typed, Authenticate

\* The handler takes its own snapshot and checks the key's models against it.
LEMMA BeginStep == ASSUME IInv, NEW r \in Request, Begin(r) PROVE IInv'
<1>1. pc[r] = "body" /\ pc' = [pc EXCEPT ![r] = "precheck"] /\ answer[r] = None
  BY DEF IInv, Established, Begin, Goto
<1>2. Typed'
  <2>1. snapshot' \in [Request -> 0..Len(Snapshot)]
    BY SnapshotAssumption DEF IInv, Typed, Begin, SnapshotIndex
  <2> QED
    BY <1>1, <2>1 DEF IInv, Typed, Begin, Stage
<1>3. /\ snapshot'[r] # 0
      /\ key_meta'[r] # None
      /\ Permitted(key_meta'[r], Snapshot[snapshot'[r]], call[r])
  BY <1>1, SnapshotAssumption DEF IInv, Typed, Established, Begin, SnapshotIndex
<1> QED
  BY <1>1, <1>2, <1>3, QuietStep DEF IInv, Typed, Begin

\* The messages handler does both with one snapshot.
LEMMA BeginMessagesStep == ASSUME IInv, NEW r \in Request, BeginMessages(r) PROVE IInv'
<1>1. pc[r] = "new" /\ pc' = [pc EXCEPT ![r] = "precheck"] /\ answer[r] = None
  BY DEF IInv, Established, BeginMessages, Goto
<1>2. Snapshot[current].keys_by_token[call[r].token] \in KeyMeta
  BY KnownKey DEF IInv, Typed, BeginMessages
<1>3. Typed'
  <2>1. key_meta' \in [Request -> KeyMeta \cup {None}]
    BY <1>2 DEF IInv, Typed, BeginMessages
  <2>2. seen' \in [Request -> 0..Len(Snapshot)] /\ snapshot' \in [Request -> 0..Len(Snapshot)]
    BY SnapshotAssumption DEF IInv, Typed, BeginMessages, SnapshotIndex
  <2> QED
    BY <1>1, <2>1, <2>2 DEF IInv, Typed, BeginMessages, Stage
<1>4. /\ snapshot'[r] # 0
      /\ key_meta'[r] # None
      /\ Permitted(key_meta'[r], Snapshot[snapshot'[r]], call[r])
  BY <1>1, <1>2, KeyMetaAssumption, SnapshotAssumption
     DEF IInv, Typed, BeginMessages, SnapshotIndex
<1> QED
  BY <1>1, <1>3, <1>4, QuietStep DEF IInv, Typed, BeginMessages

\* An early return leaves no answer.
LEMMA FailStep == ASSUME IInv, NEW r \in Request, Fail(r) PROVE IInv'
<1>1. pc[r] \in {"new", "body", "precheck", "upstream"} /\ pc' = [pc EXCEPT ![r] = "failed"]
  BY DEF Fail
<1>2. answer[r] = None
  BY <1>1 DEF IInv, Established
<1>3. Typed'
  BY <1>1 DEF IInv, Typed, Fail, Stage
<1> QED
  BY <1>1, <1>2, <1>3, QuietStep DEF IInv, Typed, Fail

\* The request goes on to its upstream.
LEMMA ForwardStep == ASSUME IInv, NEW r \in Request, Forward(r) PROVE IInv'
<1>1. pc[r] = "precheck" /\ pc' = [pc EXCEPT ![r] = "upstream"] /\ answer[r] = None
  BY DEF IInv, Established, Forward, Goto
<1>2. Typed'
  BY <1>1 DEF IInv, Typed, Forward, Stage
<1>3. /\ snapshot[r] # 0
      /\ key_meta[r] # None
      /\ Permitted(key_meta[r], Snapshot[snapshot[r]], call[r])
  BY <1>1 DEF IInv, Established
<1> QED
  BY <1>1, <1>2, <1>3, QuietStep DEF IInv, Typed, Forward

\* A client that goes away, before its answer or between the counters, takes
\* nothing back.
LEMMA CancelStep == ASSUME IInv, NEW r \in Request, Cancel(r) PROVE IInv'
<1>1. /\ pc[r] \in {"body", "precheck", "upstream", "input", "output"}
      /\ pc' = [pc EXCEPT ![r] = "gone"]
  BY DEF Cancel
<1>2. Typed'
  BY <1>1 DEF IInv, Typed, Cancel, Stage
<1>3. Established'
  BY <1>1 DEF IInv, Typed, Established, Cancel, Permitted
<1>4. AnswersByRequest' /\ OwnUpstreamAnswer'
  BY DEF IInv, Cancel, AnswersByRequest, OwnUpstreamAnswer, Asked, Provider, ProviderId, Model,
         request_signature
<1>5. CacheIsHonest' /\ CacheUsage'
  BY DEF IInv, Cancel, CacheIsHonest, CacheUsage, Stored, cache_key_for_chat, Asked, Provider,
         ProviderId, Model, request_signature
<1> QED
  BY <1>2, <1>3, <1>4, <1>5 DEF IInv

\* The counters run on with what the answer established.
LEMMA RecordStep ==
  ASSUME IInv, NEW r \in Request, InputRecorded(r) \/ OutputRecorded(r)
  PROVE  IInv'
<1>1. PICK to \in {"output", "done"} :
        pc[r] \in {"input", "output"} /\ pc' = [pc EXCEPT ![r] = to]
  BY DEF InputRecorded, OutputRecorded, Goto
<1>2. key_meta[r] # None /\ usage[r] # None
  BY <1>1 DEF IInv, Established
<1>3. totals' \in [KeyId -> [input : Nat, output : Nat]]
  <2>1. CASE InputRecorded(r)
    <3>1. usage[r].output_tokens \in Nat
      BY <1>2, UsageAssumption DEF IInv, Typed
    <3> QED
      BY <2>1, <3>1, <1>2, AddTyped DEF IInv, InputRecorded
  <2>2. CASE OutputRecorded(r)
    BY <2>2 DEF IInv, Typed, OutputRecorded
  <2> QED
    BY <2>1, <2>2
<1>4. UNCHANGED <<current, call, key_meta, seen, snapshot, usage, answer, cache>>
  BY DEF InputRecorded, OutputRecorded
<1>5. Typed'
  BY <1>1, <1>3, <1>4 DEF IInv, Typed, Stage
<1>6. Established'
  <2> SUFFICES ASSUME NEW s \in Request
               PROVE  /\ pc'[s] = "body" => key_meta[s] # None
                      /\ pc'[s] \in {"precheck", "upstream", "input", "output", "done"} =>
                           /\ snapshot[s] # 0 /\ key_meta[s] # None
                           /\ Permitted(key_meta[s], Snapshot[snapshot[s]], call[s])
                      /\ pc'[s] \in {"input", "output"} => usage[s] # None
                      /\ answer[s] # None =>
                           /\ snapshot[s] # 0
                           /\ pc'[s] \in {"input", "output", "done", "gone"}
    BY <1>4 DEF Established, Permitted
  <2>1. CASE s = r
    BY <1>1, <2>1 DEF IInv, Typed, Established
  <2>2. CASE s # r
    BY <1>1, <2>2 DEF IInv, Typed, Established
  <2> QED
    BY <2>1, <2>2
<1>7. AnswersByRequest' /\ OwnUpstreamAnswer'
  BY <1>4 DEF IInv, AnswersByRequest, OwnUpstreamAnswer, Asked, Provider, ProviderId, Model,
              request_signature
<1>8. CacheIsHonest' /\ CacheUsage'
  BY <1>4 DEF IInv, CacheIsHonest, CacheUsage, Stored, cache_key_for_chat, Asked, Provider,
              ProviderId, Model, request_signature
<1> QED
  BY <1>5, <1>6, <1>7, <1>8 DEF IInv

\* An entry under the request's own key is an answer to the request's own question.
LEMMA HitStep == ASSUME IInv, NEW r \in Request, Hit(r) PROVE IInv'
<1> DEFINE key == CacheKey(r)
           a == cache[key]
<1>1. key \in DOMAIN cache /\ pc[r] = "precheck"
  BY DEF Hit, IsHit
<1>2. snapshot[r] \in SnapshotIndex /\ call[r] \in Call
  BY <1>1, SnapshotAssumption DEF IInv, Typed, Established, SnapshotIndex
<1>3. a.asked = Asked(Snapshot[snapshot[r]], call[r])
  <2>1. PICK i \in SnapshotIndex, c \in Call :
          key = cache_key_for_chat(Snapshot[i], c) /\ a.asked = Asked(Snapshot[i], c)
    BY <1>1 DEF IInv, CacheIsHonest, Stored
  <2> QED
    BY <2>1, <1>2, KeyDeterminesQuestion DEF CacheKey
<1>4. a.usage \in Usage \cup {None}
  BY <1>1 DEF IInv, CacheUsage
<1>5. /\ usage' = [usage EXCEPT ![r] = a.usage]
      /\ Respond(r, "precheck", a)
      /\ UNCHANGED <<current, call, key_meta, seen, snapshot, cache>>
  BY DEF Hit
<1>6. Typed' /\ Established' /\ AnswersByRequest' /\ OwnUpstreamAnswer'
  <2> HIDE DEF a, key
  <2> QED
    BY <1>1, <1>3, <1>4, <1>5, RespondStep
<1>7. CacheIsHonest' /\ CacheUsage'
  BY <1>5 DEF IInv, CacheIsHonest, CacheUsage, Stored, cache_key_for_chat, Asked, Provider,
              ProviderId, Model, request_signature
<1> QED
  BY <1>6, <1>7 DEF IInv

\* What an upstream says is stored under the key of the question it answers.
LEMMA UpstreamStep ==
  ASSUME IInv, NEW r \in Request, NEW legible \in BOOLEAN, NEW u \in Usage \cup {None},
         UpstreamAnswers(r, legible, u)
  PROVE  IInv'
<1> DEFINE a == [asked |-> Asked(Snapshot[snapshot[r]], call[r]), legible |-> legible, usage |-> u]
           key == CacheKey(r)
<1>1. /\ pc[r] = "upstream"
      /\ usage' = [usage EXCEPT ![r] = a.usage]
      /\ Respond(r, "upstream", a)
      /\ UNCHANGED <<current, call, key_meta, seen, snapshot>>
  BY DEF UpstreamAnswers
<1>2. Typed' /\ Established' /\ AnswersByRequest' /\ OwnUpstreamAnswer'
  <2>1. a.asked = Asked(Snapshot[snapshot[r]], call[r]) /\ a.usage \in Usage \cup {None}
    OBVIOUS
  <2> HIDE DEF a
  <2> QED
    BY <1>1, <2>1, RespondStep
<1>3. cache' = cache
      \/ cache' = [k \in DOMAIN cache \cup {key} |-> IF k = key THEN a ELSE cache[k]]
  BY DEF UpstreamAnswers
<1>4. snapshot[r] \in SnapshotIndex /\ call[r] \in Call
  BY <1>1, SnapshotAssumption DEF IInv, Typed, Established, SnapshotIndex
<1>5. Stored(key, a)
  BY <1>4 DEF Stored, CacheKey
<1>6. ASSUME NEW k \in DOMAIN cache'
      PROVE  Stored(k, cache'[k]) /\ cache'[k].usage \in Usage \cup {None}
  <2>1. CASE k \in DOMAIN cache /\ cache'[k] = cache[k]
    BY <2>1 DEF IInv, CacheIsHonest, CacheUsage
  <2>2. CASE k = key /\ cache'[k] = a
    BY <2>2, <1>5
  <2> QED
    BY <1>3, <2>1, <2>2
<1>7. CacheIsHonest' /\ CacheUsage'
  BY <1>6 DEF CacheIsHonest, CacheUsage, Stored, cache_key_for_chat, Asked, Provider, ProviderId,
              Model, request_signature
<1> QED
  BY <1>2, <1>7 DEF IInv

\* No step at all.
LEMMA StutterStep == ASSUME IInv, UNCHANGED vars PROVE IInv'
<1>1. Typed' /\ Established' /\ AnswersByRequest' /\ OwnUpstreamAnswer'
  BY DEF IInv, vars, Typed, Established, Permitted, AnswersByRequest, OwnUpstreamAnswer, Asked,
         Provider, ProviderId, Model, request_signature
<1>2. CacheIsHonest' /\ CacheUsage'
  BY DEF IInv, vars, CacheIsHonest, CacheUsage, Stored, cache_key_for_chat, Asked, Provider,
         ProviderId, Model, request_signature
<1> QED
  BY <1>1, <1>2 DEF IInv

-----------------------------------------------------------------------------
\* What the stages rest on, and what the cache holds, survives every
\* interleaving of the handlers with the watcher.
THEOREM Invariance == Spec => []IInv
<1>1. Init => IInv
  BY InitInv
<1>2. IInv /\ [Next]_vars => IInv'
  <2> SUFFICES ASSUME IInv, [Next]_vars PROVE IInv'
    OBVIOUS
  <2>1. CASE PublishNext
    BY <2>1, PublishStep
  <2>2. ASSUME NEW r \in Request, Handle(r) PROVE IInv'
    <3>1. CASE \E legible \in BOOLEAN, u \in Usage \cup {None} : UpstreamAnswers(r, legible, u)
      BY <3>1, UpstreamStep
    <3>2. CASE Authenticate(r) \/ Begin(r) \/ BeginMessages(r)
      BY <3>2, AuthenticateStep, BeginStep, BeginMessagesStep
    <3>3. CASE Fail(r) \/ Cancel(r) \/ Hit(r) \/ Forward(r)
      BY <3>3, FailStep, CancelStep, HitStep, ForwardStep
    <3>4. CASE InputRecorded(r) \/ OutputRecorded(r)
      BY <3>4, RecordStep
    <3> QED
      BY <2>2, <3>1, <3>2, <3>3, <3>4 DEF Handle
  <2>3. CASE UNCHANGED vars
    BY <2>3, StutterStep
  <2> QED
    BY <2>1, <2>2, <2>3 DEF Next
<1> QED
  BY <1>1, <1>2, PTL DEF Spec

\* A request that is past its authorization holds a key and a snapshot in which
\* that key may use the model it asks for, for every number of requests and
\* every sequence of snapshots.
THEOREM TypeCorrect == Spec => []TypeOK
<1>1. IInv => TypeOK
  BY DEF IInv, TypeOK
<1> QED
  BY <1>1, Invariance, PTL

\* No client is answered from the cache what another upstream said, or what was
\* said to another question.
THEOREM CacheAnswersHonestly == Spec => []OwnUpstreamAnswer
<1>1. IInv => OwnUpstreamAnswer
  BY DEF IInv
<1> QED
  BY <1>1, Invariance, PTL

-----------------------------------------------------------------------------
(* Sums over finite sets *)

\* Induction over the natural numbers, for a property given as a set.
LEMMA SetInduction ==
  ASSUME NEW S, 0 \in S, \A n \in Nat : n \in S => n + 1 \in S
  PROVE  Nat \subseteq S
<1> DEFINE T == Nat \ S
<1> SUFFICES ASSUME T # {} PROVE FALSE
  OBVIOUS
<1>1. IsWellFoundedOn(OpToRel(<, Nat), Nat)
  BY NatLessThanWellFounded
<1>2. PICK x \in T : \A y \in T : ~ (<<y, x>> \in OpToRel(<, Nat))
  <2>1. T \subseteq Nat OBVIOUS
  <2> HIDE DEF T
  <2> QED BY <1>1, <2>1, WFMin
<1>3. \A y \in T : ~ (y < x)
  BY <1>2 DEF OpToRel
<1>4. x # 0
  OBVIOUS
<1>5. x - 1 \in Nat /\ x - 1 \notin T
  BY <1>3, <1>4
<1> QED
  BY <1>5

\* The element a sum over s takes first.
Chosen(s) == CHOOSE x \in s : TRUE

\* One step of a sum over subsets of S.
SumStep(F, g, s) == F[s] = IF s = {} THEN 0 ELSE g[Chosen(s)] + F[s \ {Chosen(s)}]

\* What is left without an element is smaller.
LEMMA Smaller ==
  ASSUME NEW s, IsFiniteSet(s), s # {}
  PROVE  /\ Chosen(s) \in s
         /\ IsFiniteSet(s \ {Chosen(s)})
         /\ Cardinality(s \ {Chosen(s)}) = Cardinality(s) - 1
         /\ Cardinality(s) \in Nat \ {0}
<1>1. Chosen(s) \in s
  BY DEF Chosen
<1> QED
  BY <1>1, FS_RemoveElement, FS_CardinalityType, FS_EmptySet

\* The sum over every subset is that of the sum's recursive function.
LEMMA SumRuns ==
  ASSUME NEW S, IsFiniteSet(S), NEW g
  PROVE  \E F : /\ \A s \in SUBSET S : SumStep(F, g, s)
                /\ SumFunctionOnSet(g, S) = F[S]
<1> DEFINE Size(s) == Cardinality(s)
           Good(F, n) == /\ F = [s \in SUBSET S |-> F[s]]
                         /\ \A s \in SUBSET S : Size(s) <= n => SumStep(F, g, s)
           Ok == {n \in Nat : \E F : Good(F, n)}
<1>1. \A s \in SUBSET S : IsFiniteSet(s) /\ Size(s) \in Nat /\ (Size(s) = 0 <=> s = {})
  BY FS_Subset, FS_CardinalityType, FS_EmptySet
<1>2. \A s \in SUBSET S : s # {} => /\ s \ {Chosen(s)} \in SUBSET S
                                    /\ Size(s \ {Chosen(s)}) = Size(s) - 1
  BY <1>1, Smaller
<1> HIDE DEF Size
<1>3. 0 \in Ok
  <2> DEFINE F == [s \in SUBSET S |-> 0]
  <2>1. F = [s \in SUBSET S |-> F[s]]
    OBVIOUS
  <2>2. \A s \in SUBSET S : Size(s) <= 0 => SumStep(F, g, s)
    BY <1>1 DEF SumStep
  <2>3. Good(F, 0)
    BY <2>1, <2>2
  <2> QED
    BY <2>3
<1>4. ASSUME NEW n \in Nat, n \in Ok PROVE n + 1 \in Ok
  <2>1. PICK F : Good(F, n)
    <3> HIDE DEF Good
    <3> QED
      BY <1>4
  <2> DEFINE G == [s \in SUBSET S |->
                     IF Size(s) = n + 1 THEN g[Chosen(s)] + F[s \ {Chosen(s)}] ELSE F[s]]
  <2>2. G = [s \in SUBSET S |-> G[s]]
    OBVIOUS
  <2>3. ASSUME NEW s \in SUBSET S, Size(s) <= n + 1 PROVE SumStep(G, g, s)
    <3>1. CASE Size(s) = n + 1
      <4>1. s # {} /\ Size(s \ {Chosen(s)}) # n + 1 /\ s \ {Chosen(s)} \in SUBSET S
        BY <1>1, <1>2, <3>1
      <4>2. G[s] = g[Chosen(s)] + F[s \ {Chosen(s)}] /\ G[s \ {Chosen(s)}] = F[s \ {Chosen(s)}]
        BY <3>1, <4>1
      <4> HIDE DEF G
      <4> QED
        BY <4>1, <4>2 DEF SumStep
    <3>2. CASE Size(s) <= n
      <4>1. SumStep(F, g, s) /\ G[s] = F[s]
        <5>1. SumStep(F, g, s)
          BY <2>1, <3>2
        <5>2. Size(s) # n + 1
          BY <1>1, <3>2
        <5> QED
          BY <5>1, <5>2
      <4>2. s # {} => G[s \ {Chosen(s)}] = F[s \ {Chosen(s)}]
        BY <1>1, <1>2, <3>2
      <4> HIDE DEF G
      <4> QED
        BY <4>1, <4>2 DEF SumStep
    <3> QED
      BY <1>1, <2>3, <3>1, <3>2
  <2> HIDE DEF G
  <2>4. Good(G, n + 1)
    BY <2>2, <2>3
  <2> QED
    <3> HIDE DEF Good
    <3> QED
      BY <2>4
<1>5. Nat \subseteq Ok
  <2> HIDE DEF Ok
  <2> QED
    BY <1>3, <1>4, SetInduction
<1>6. PICK F : Good(F, Size(S))
  <2> HIDE DEF Good
  <2> QED
    BY <1>1, <1>5
<1>7. \A s \in SUBSET S : Size(s) <= Size(S)
  BY FS_Subset DEF Size
<1> DEFINE value(f, s) == IF s = {} THEN 0 ELSE g[Chosen(s)] + f[s \ {Chosen(s)}]
           Is(f) == f = [s \in SUBSET S |-> value(f, s)]
           h == CHOOSE f : Is(f)
<1>8. Is(F)
  <2>1. \A s \in SUBSET S : F[s] = value(F, s)
    BY <1>6, <1>7 DEF SumStep
  <2> HIDE DEF value
  <2> QED
    BY <1>6, <2>1
<1>9. Is(h)
  BY <1>8, Zenon
<1>10. SumFunctionOnSet(g, S) = h[S]
  BY Zenon DEF SumFunctionOnSet, FoldFunctionOnSet, MapThenFoldSet, Chosen
<1> HIDE DEF h
<1>11. \A s \in SUBSET S : h[s] = value(h, s)
  <2> HIDE DEF value
  <2> QED
    BY <1>9
<1>12. \A s \in SUBSET S : SumStep(h, g, s)
  BY <1>11 DEF SumStep
<1> QED
  BY <1>10, <1>12

\* A sum is its first summand and the sum of the rest.
LEMMA SumChosen ==
  ASSUME NEW S, IsFiniteSet(S), NEW g
  PROVE  SumFunctionOnSet(g, S) =
           IF S = {} THEN 0 ELSE g[Chosen(S)] + SumFunctionOnSet(g, S \ {Chosen(S)})
<1>1. PICK F : (\A s \in SUBSET S : SumStep(F, g, s)) /\ SumFunctionOnSet(g, S) = F[S]
  BY SumRuns
<1>2. CASE S = {}
  BY <1>1, <1>2 DEF SumStep
<1>3. CASE S # {}
  <2> DEFINE R == S \ {Chosen(S)}
  <2>1. R \in SUBSET S /\ IsFiniteSet(R)
    BY <1>3, Smaller
  <2>2. SumFunctionOnSet(g, S) = g[Chosen(S)] + F[R]
    BY <1>1, <1>3 DEF SumStep
  <2> HIDE DEF R
  <2>3. PICK G : (\A s \in SUBSET R : SumStep(G, g, s)) /\ SumFunctionOnSet(g, R) = G[R]
    BY <2>1, SumRuns
  <2> DEFINE Same == {n \in Nat : \A s \in SUBSET R : Cardinality(s) = n => F[s] = G[s]}
  <2>4. \A s \in SUBSET R : IsFiniteSet(s) /\ Cardinality(s) \in Nat /\ (Cardinality(s) = 0 <=> s = {})
    BY <2>1, FS_Subset, FS_CardinalityType, FS_EmptySet
  <2>5. 0 \in Same
    <3>1. ASSUME NEW s \in SUBSET R, Cardinality(s) = 0 PROVE F[s] = G[s]
      <4>1. s = {} /\ s \in SUBSET S
        BY <2>1, <2>4, <3>1
      <4> QED
        BY <1>1, <2>3, <4>1 DEF SumStep
    <3> QED
      BY <3>1
  <2>6. ASSUME NEW n \in Nat, n \in Same PROVE n + 1 \in Same
    <3>1. ASSUME NEW s \in SUBSET R, Cardinality(s) = n + 1 PROVE F[s] = G[s]
      <4>1. s # {} /\ s \in SUBSET S
        BY <2>1, <2>4, <3>1
      <4>2. s \ {Chosen(s)} \in SUBSET R /\ Cardinality(s \ {Chosen(s)}) = n
        BY <2>4, <3>1, <4>1, Smaller
      <4>3. F[s \ {Chosen(s)}] = G[s \ {Chosen(s)}]
        BY <2>6, <4>2
      <4>4. SumStep(F, g, s) /\ SumStep(G, g, s)
        BY <1>1, <2>3, <4>1
      <4> QED
        BY <4>1, <4>3, <4>4 DEF SumStep
    <3> QED
      BY <3>1
  <2>7. Nat \subseteq Same
    <3> HIDE DEF Same
    <3> QED
      BY <2>5, <2>6, SetInduction
  <2>8. F[R] = G[R]
    BY <2>4, <2>7
  <2> QED
    BY <1>3, <2>2, <2>3, <2>8 DEF R
<1> QED
  BY <1>2, <1>3

\* Finitely many naturals to sum.
Summable(S, g) == IsFiniteSet(S) /\ \A x \in S : g[x] \in Nat

\* Naturals sum up to a natural.
LEMMA SumIsNat ==
  ASSUME NEW S, NEW g, Summable(S, g)
  PROVE  SumFunctionOnSet(g, S) \in Nat
<1> DEFINE N == {n \in Nat : \A T : Summable(T, g) /\ Cardinality(T) = n => SumFunctionOnSet(g, T) \in Nat}
<1>1. 0 \in N
  <2>1. ASSUME NEW T, Summable(T, g), Cardinality(T) = 0 PROVE SumFunctionOnSet(g, T) \in Nat
    <3>1. IsFiniteSet(T) /\ T = {}
      BY <2>1, FS_EmptySet DEF Summable
    <3>2. SumFunctionOnSet(g, T) = 0
      BY <3>1, SumChosen
    <3> QED
      BY <3>2
  <2> QED
    BY <2>1
<1>2. ASSUME NEW n \in Nat, n \in N PROVE n + 1 \in N
  <2>1. ASSUME NEW T, Summable(T, g), Cardinality(T) = n + 1 PROVE SumFunctionOnSet(g, T) \in Nat
    <3>1. IsFiniteSet(T) /\ T # {}
      BY <2>1, FS_EmptySet DEF Summable
    <3> DEFINE R == T \ {Chosen(T)}
    <3>2. Summable(R, g) /\ Cardinality(R) = n /\ g[Chosen(T)] \in Nat
      BY <2>1, <3>1, Smaller DEF Summable
    <3> HIDE DEF R
    <3>3. SumFunctionOnSet(g, R) \in Nat
      BY <1>2, <3>2
    <3>4. SumFunctionOnSet(g, T) = g[Chosen(T)] + SumFunctionOnSet(g, R)
      BY <3>1, SumChosen DEF R
    <3> QED
      BY <3>2, <3>3, <3>4
  <2> QED
    BY <2>1
<1>3. Nat \subseteq N
  <2> HIDE DEF N
  <2> QED
    BY <1>1, <1>2, SetInduction
<1> QED
  BY <1>3, FS_CardinalityType DEF Summable

\* A sum takes its summands in whatever order.
LEMMA SumRemove ==
  ASSUME NEW S, NEW g, Summable(S, g), NEW x \in S
  PROVE  SumFunctionOnSet(g, S) = g[x] + SumFunctionOnSet(g, S \ {x})
<1> DEFINE Any(T) == \A y \in T : SumFunctionOnSet(g, T) = g[y] + SumFunctionOnSet(g, T \ {y})
           N == {n \in Nat : \A T : Summable(T, g) /\ Cardinality(T) = n => Any(T)}
<1>1. 0 \in N
  <2>1. ASSUME NEW T, Summable(T, g), Cardinality(T) = 0 PROVE Any(T)
    <3>1. T = {}
      BY <2>1, FS_EmptySet DEF Summable
    <3> QED
      BY <3>1
  <2> HIDE DEF Any
  <2> QED
    BY <2>1
<1>2. ASSUME NEW n \in Nat, n \in N PROVE n + 1 \in N
  <2>1. ASSUME NEW T, Summable(T, g), Cardinality(T) = n + 1, NEW y \in T
        PROVE  SumFunctionOnSet(g, T) = g[y] + SumFunctionOnSet(g, T \ {y})
    <3> DEFINE c == Chosen(T)
               A == T \ {c}
               B == T \ {y}
               D == A \ {y}
    <3>1. IsFiniteSet(T) /\ T # {}
      BY <2>1 DEF Summable
    <3>2. c \in T /\ IsFiniteSet(A) /\ Cardinality(A) = n
      BY <2>1, <3>1, Smaller
    <3>3. IsFiniteSet(B) /\ Cardinality(B) = n
      BY <2>1, <3>1, FS_RemoveElement
    <3> HIDE DEF c
    <3>4. Summable(A, g) /\ Summable(B, g) /\ g[c] \in Nat /\ g[y] \in Nat
      BY <2>1, <3>2, <3>3 DEF Summable
    <3>5. SumFunctionOnSet(g, T) = g[c] + SumFunctionOnSet(g, A)
      BY <3>1, SumChosen DEF c
    <3>6. Any(A) /\ Any(B)
      <4> HIDE DEF A, B, Any
      <4> QED
        BY <1>2, <3>2, <3>3, <3>4
    <3>7. CASE y = c
      BY <3>5, <3>7
    <3>8. CASE y # c
      <4>1. y \in A /\ c \in B /\ B \ {c} = D
        BY <3>2, <3>8
      <4>2. SumFunctionOnSet(g, A) = g[y] + SumFunctionOnSet(g, D)
        <5> HIDE DEF A
        <5> QED
          BY <3>6, <4>1
      <4>3. SumFunctionOnSet(g, B) = g[c] + SumFunctionOnSet(g, D)
        <5> HIDE DEF B, D
        <5> QED
          BY <3>6, <4>1
      <4>4. Summable(D, g)
        <5>1. IsFiniteSet(D)
          BY <3>2, FS_RemoveElement
        <5> QED
          BY <3>4, <5>1 DEF Summable
      <4> HIDE DEF A, B, D
      <4>5. SumFunctionOnSet(g, D) \in Nat
        BY <4>4, SumIsNat
      <4>6. SumFunctionOnSet(g, T) = g[y] + SumFunctionOnSet(g, B)
        BY <3>4, <3>5, <4>2, <4>3, <4>5
      <4> QED
        BY <4>6 DEF B
    <3> QED
      BY <3>7, <3>8
  <2> QED
    BY <2>1
<1>3. Nat \subseteq N
  <2> HIDE DEF N
  <2> QED
    BY <1>1, <1>2, SetInduction
<1>4. Any(S)
  <2> HIDE DEF Any
  <2> QED
    BY <1>3, FS_CardinalityType DEF Summable
<1> QED
  BY <1>4

\* A sum depends on its summands only.
LEMMA SumSame ==
  ASSUME NEW S, IsFiniteSet(S), NEW g, NEW h, \A x \in S : g[x] = h[x]
  PROVE  SumFunctionOnSet(g, S) = SumFunctionOnSet(h, S)
<1> DEFINE Agree(T) == SumFunctionOnSet(g, T) = SumFunctionOnSet(h, T)
           N == {n \in Nat : \A T \in SUBSET S : Cardinality(T) = n => Agree(T)}
<1>1. \A T \in SUBSET S : IsFiniteSet(T) /\ (Cardinality(T) = 0 <=> T = {})
  BY FS_Subset, FS_EmptySet
<1>2. 0 \in N
  <2>1. ASSUME NEW T \in SUBSET S, Cardinality(T) = 0 PROVE Agree(T)
    <3>1. IsFiniteSet(T) /\ T = {}
      BY <1>1, <2>1
    <3> QED
      BY <3>1, SumChosen
  <2> HIDE DEF Agree
  <2> QED
    BY <2>1
<1>3. ASSUME NEW n \in Nat, n \in N PROVE n + 1 \in N
  <2>1. ASSUME NEW T \in SUBSET S, Cardinality(T) = n + 1 PROVE Agree(T)
    <3> DEFINE R == T \ {Chosen(T)}
    <3>1. IsFiniteSet(T) /\ T # {}
      BY <1>1, <2>1
    <3>2. R \in SUBSET S /\ Cardinality(R) = n /\ Chosen(T) \in S
      BY <2>1, <3>1, Smaller
    <3>3. Agree(R)
      <4> HIDE DEF R, Agree
      <4> QED
        BY <1>3, <3>2
    <3>4. /\ SumFunctionOnSet(g, T) = g[Chosen(T)] + SumFunctionOnSet(g, R)
          /\ SumFunctionOnSet(h, T) = h[Chosen(T)] + SumFunctionOnSet(h, R)
      BY <3>1, SumChosen
    <3> HIDE DEF R
    <3> QED
      BY <3>2, <3>3, <3>4
  <2> HIDE DEF Agree
  <2> QED
    BY <2>1
<1>4. Nat \subseteq N
  <2> HIDE DEF N
  <2> QED
    BY <1>2, <1>3, SetInduction
<1>5. Agree(S)
  <2> HIDE DEF Agree
  <2> QED
    BY <1>4, FS_CardinalityType
<1> QED
  BY <1>5

-----------------------------------------------------------------------------
(* What is recorded *)

\* The answers whose output is, or may be, counted; and those whose output is.
Counted(k) == {r \in Answered(k) : pc[r] # "input"}

Certain(k) == {r \in Answered(k) : pc[r] \notin {"input", "gone"}}

Balanced(k) ==
  /\ totals[k].input = Tokens(Answered(k), "input_tokens")
  /\ totals[k].output <= Tokens(Counted(k), "output_tokens")
  /\ totals[k].output >= Tokens(Certain(k), "output_tokens")

\* What is answered and cached was built from some question; a request that is
\* being recorded has been answered, with the usage its context holds.
Recorded ==
  /\ \A key \in DOMAIN cache : cache[key] \in Answer
  /\ \A r \in Request :
       /\ answer[r] \in Answer \cup {None}
       /\ pc[r] \in {"input", "output"} => answer[r] # None /\ answer[r].usage = usage[r]

\* The inductive invariant of the totals.
RecordedInv ==
  /\ IInv
  /\ Recorded
  /\ \A k \in KeyId : Balanced(k)

-----------------------------------------------------------------------------
(* What one step does to the sums *)

\* Only requests are answered, hence finitely many of each key.
LEMMA AnsweredFinite ==
  ASSUME NEW S, S \subseteq Request
  PROVE  IsFiniteSet(S)
BY RequestAssumption, FS_Subset

\* The counts of an answer with usage are natural numbers.
LEMMA CountsAreNat ==
  ASSUME NEW a \in Answer, a.usage # None
  PROVE  a.usage["input_tokens"] \in Nat /\ a.usage["output_tokens"] \in Nat
BY UsageAssumption DEF Answer

\* A sum over requests is one request's share and the sum over the others.
LEMMA SumSplit ==
  ASSUME NEW S, NEW h, Summable(S, h), NEW r
  PROVE  /\ SumFunctionOnSet(h, S \ {r}) \in Nat
         /\ r \in S => SumFunctionOnSet(h, S) = h[r] + SumFunctionOnSet(h, S \ {r})
         /\ r \notin S => SumFunctionOnSet(h, S) = SumFunctionOnSet(h, S \ {r})
<1>1. Summable(S \ {r}, h)
  <2>1. IsFiniteSet(S \ {r})
    BY FS_RemoveElement DEF Summable
  <2> QED
    BY <2>1 DEF Summable
<1>2. SumFunctionOnSet(h, S \ {r}) \in Nat
  BY <1>1, SumIsNat
<1>3. r \in S => SumFunctionOnSet(h, S) = h[r] + SumFunctionOnSet(h, S \ {r})
  BY SumRemove
<1>4. r \notin S => S \ {r} = S
  OBVIOUS
<1> QED
  BY <1>2, <1>3, <1>4

\* The sum of the usage counts of these requests in a table of answers.
PaidIn(table, S, field) == SumFunction([s \in S |-> table[s].usage[field]])

\* Finitely many answers, each with that count.
Billable(table, S, field) == IsFiniteSet(S) /\ \A s \in S : table[s].usage[field] \in Nat

\* The sum is that of the other requests, and r's count if r is one of them.
Parts(table, S, field, r, rest) ==
  /\ r \in S => PaidIn(table, S, field) = table[r].usage[field] + rest
  /\ r \notin S => PaidIn(table, S, field) = rest

\* Two tables of answers and two sets that differ in one request at most: the
\* sums over them differ by that request's shares.
LEMMA OneShare ==
  ASSUME NEW r, NEW field, NEW S, NEW T, NEW old, NEW new,
         Billable(old, S, field), Billable(new, T, field),
         S \ {r} = T \ {r}, \A s \in S \ {r} : new[s] = old[s]
  PROVE  \E rest \in Nat : Parts(old, S, field, r, rest) /\ Parts(new, T, field, r, rest)
<1> DEFINE g == [s \in S |-> old[s].usage[field]]
           h == [s \in T |-> new[s].usage[field]]
           R == S \ {r}
           rest == SumFunctionOnSet(g, R)
<1>1. SumFunction(g) = SumFunctionOnSet(g, S) /\ SumFunction(h) = SumFunctionOnSet(h, T)
  BY Zenon DEF SumFunction
<1>2. Summable(S, g) /\ Summable(T, h)
  BY DEF Summable, Billable
<1>3. IsFiniteSet(R) /\ (\A s \in R : g[s] = h[s]) /\ R = T \ {r}
  BY FS_RemoveElement DEF Billable
<1>4. /\ r \in S => g[r] = old[r].usage[field]
      /\ r \in T => h[r] = new[r].usage[field]
  OBVIOUS
<1> HIDE DEF g, h
<1>5. rest \in Nat
  BY <1>2, SumSplit
<1>6. /\ r \in S => SumFunctionOnSet(g, S) = g[r] + rest
      /\ r \notin S => SumFunctionOnSet(g, S) = rest
  BY <1>2, SumSplit
<1>7. /\ r \in T => SumFunctionOnSet(h, T) = h[r] + SumFunctionOnSet(h, T \ {r})
      /\ r \notin T => SumFunctionOnSet(h, T) = SumFunctionOnSet(h, T \ {r})
  BY <1>2, SumSplit
<1>8. SumFunctionOnSet(h, T \ {r}) = rest
  BY <1>3, SumSame
<1> HIDE DEF rest
<1>9. /\ r \in S => SumFunction(g) = old[r].usage[field] + rest
      /\ r \notin S => SumFunction(g) = rest
      /\ r \in T => SumFunction(h) = new[r].usage[field] + rest
      /\ r \notin T => SumFunction(h) = rest
  BY <1>1, <1>4, <1>6, <1>7, <1>8
<1> QED
  BY <1>5, <1>9 DEF g, h, Parts, PaidIn

\* A sum of usage counts is request r's share and the rest.
Splits(requests, field, r, rest) ==
  /\ r \in requests => Tokens(requests, field) = answer[r].usage[field] + rest
  /\ r \notin requests => Tokens(requests, field) = rest

\* What a step that moves only request r does to the three sums of a key.
LEMMA Sums ==
  ASSUME Recorded, Recorded', NEW k \in KeyId, NEW r \in Request,
         \A s \in Request \ {r} :
           pc'[s] = pc[s] /\ answer'[s] = answer[s] /\ key_meta'[s] = key_meta[s]
  PROVE  \E x, y, z \in Nat :
           /\ Splits(Answered(k), "input_tokens", r, x)
           /\ Splits(Answered(k), "input_tokens", r, x)'
           /\ Splits(Counted(k), "output_tokens", r, y)
           /\ Splits(Counted(k), "output_tokens", r, y)'
           /\ Splits(Certain(k), "output_tokens", r, z)
           /\ Splits(Certain(k), "output_tokens", r, z)'
<1> DEFINE S1 == Answered(k)
           S2 == Counted(k)
           S3 == Certain(k)
           T1 == Answered(k)'
           T2 == Counted(k)'
           T3 == Certain(k)'
           Moves(S, T, field, n) ==
             Parts(answer, S, field, r, n) /\ Parts(answer', T, field, r, n)
<1>1. S2 \subseteq S1 /\ S3 \subseteq S1 /\ T2 \subseteq T1 /\ T3 \subseteq T1
  BY DEF Counted, Certain
<1>2. S1 \subseteq Request /\ T1 \subseteq Request
  BY DEF Answered
<1>3. /\ \A s \in S1 : answer[s] \in Answer /\ answer[s].usage # None
      /\ \A s \in T1 : answer'[s] \in Answer /\ answer'[s].usage # None
  BY DEF Answered, Recorded, Answer, Question, Asked, Provider, ProviderId, Model, request_signature
<1>4. S1 \ {r} = T1 \ {r} /\ S2 \ {r} = T2 \ {r} /\ S3 \ {r} = T3 \ {r}
  BY DEF Answered, Counted, Certain
<1>5. \A s \in S1 \ {r} : answer'[s] = answer[s]
  BY DEF Answered
<1> HIDE DEF S1, S2, S3, T1, T2, T3
<1>6. ASSUME NEW S \in SUBSET S1, NEW T \in SUBSET T1, S \ {r} = T \ {r},
             NEW field \in {"input_tokens", "output_tokens"}
      PROVE  \E n \in Nat : Moves(S, T, field, n)
  <2>1. Billable(answer, S, field)
    BY <1>2, <1>3, <1>6, AnsweredFinite, CountsAreNat DEF Billable
  <2>2. Billable(answer', T, field)
    BY <1>2, <1>3, <1>6, AnsweredFinite, CountsAreNat DEF Billable
  <2>3. \A s \in S \ {r} : answer'[s] = answer[s]
    BY <1>5, <1>6
  <2> QED
    BY <2>1, <2>2, <2>3, <1>6, OneShare
<1>7. PICK x \in Nat : Moves(S1, T1, "input_tokens", x)
  <2> HIDE DEF Moves
  <2> QED
    BY <1>4, <1>6
<1>8. PICK y \in Nat : Moves(S2, T2, "output_tokens", y)
  <2> HIDE DEF Moves
  <2> QED
    BY <1>1, <1>4, <1>6
<1>9. PICK z \in Nat : Moves(S3, T3, "output_tokens", z)
  <2> HIDE DEF Moves
  <2> QED
    BY <1>1, <1>4, <1>6
<1>10. /\ Tokens(Answered(k), "input_tokens") = PaidIn(answer, S1, "input_tokens")
       /\ Tokens(Answered(k), "input_tokens")' = PaidIn(answer', T1, "input_tokens")
       /\ Tokens(Counted(k), "output_tokens") = PaidIn(answer, S2, "output_tokens")
       /\ Tokens(Counted(k), "output_tokens")' = PaidIn(answer', T2, "output_tokens")
       /\ Tokens(Certain(k), "output_tokens") = PaidIn(answer, S3, "output_tokens")
       /\ Tokens(Certain(k), "output_tokens")' = PaidIn(answer', T3, "output_tokens")
  BY DEF Tokens, PaidIn, S1, S2, S3, T1, T2, T3
<1> WITNESS x \in Nat, y \in Nat, z \in Nat
<1> QED
  BY <1>7, <1>8, <1>9, <1>10 DEF Splits, Parts, S1, S2, S3, T1, T2, T3

\* A step that keeps the answers, the totals and whether each answer's counters
\* have run keeps the balance.
LEMMA SameSums ==
  ASSUME NEW k \in KeyId, Balanced(k), UNCHANGED <<answer, totals>>,
         \A s \in Request : answer[s] # None =>
           /\ key_meta'[s] = key_meta[s]
           /\ pc'[s] = "input" <=> pc[s] = "input"
           /\ pc'[s] = "gone" <=> pc[s] = "gone"
  PROVE  Balanced(k)'
<1>1. Answered(k)' = Answered(k)
  BY DEF Answered
<1>2. Counted(k)' = Counted(k) /\ Certain(k)' = Certain(k)
  BY <1>1 DEF Counted, Certain, Answered
<1>3. /\ Tokens(Answered(k), "input_tokens")' = Tokens(Answered(k), "input_tokens")
      /\ Tokens(Counted(k), "output_tokens")' = Tokens(Counted(k), "output_tokens")
      /\ Tokens(Certain(k), "output_tokens")' = Tokens(Certain(k), "output_tokens")
  BY <1>1, <1>2 DEF Tokens
<1> QED
  BY <1>3 DEF Balanced

\* What answers can be built does not change.
LEMMA AnswerRigid == Answer' = Answer
BY DEF Answer, Question, Asked, Provider, ProviderId, Model, request_signature

\* A step that answers nobody and starts or counts no recording changes nothing
\* that was recorded.
LEMMA NothingRecorded ==
  ASSUME RecordedInv, UNCHANGED <<usage, answer, cache, totals>>,
         \A s \in Request :
           /\ answer[s] # None => key_meta'[s] = key_meta[s]
           /\ answer[s] # None => (pc'[s] = "input" <=> pc[s] = "input")
           /\ answer[s] # None => (pc'[s] = "gone" <=> pc[s] = "gone")
           /\ pc'[s] \in {"input", "output"} => pc[s] \in {"input", "output"}
  PROVE  Recorded' /\ \A k \in KeyId : Balanced(k)'
<1>1. Recorded'
  BY AnswerRigid DEF RecordedInv, Recorded
<1>2. ASSUME NEW k \in KeyId PROVE Balanced(k)'
  BY SameSums DEF RecordedInv
<1> QED
  BY <1>1, <1>2

\* Before its answer, a request moves without being recorded.
LEMMA UnansweredMove ==
  ASSUME RecordedInv, NEW r \in Request, answer[r] = None,
         UNCHANGED <<usage, answer, cache, totals>>,
         pc'[r] \notin {"input", "output"},
         \A s \in Request \ {r} : pc'[s] = pc[s] /\ key_meta'[s] = key_meta[s]
  PROVE  Recorded' /\ \A k \in KeyId : Balanced(k)'
BY NothingRecorded

\* The handlers up to the upstream's answer record nothing.
LEMMA EarlySteps ==
  ASSUME RecordedInv, NEW r \in Request,
         Authenticate(r) \/ Begin(r) \/ BeginMessages(r) \/ Fail(r) \/ Forward(r)
  PROVE  Recorded' /\ \A k \in KeyId : Balanced(k)'
<1>1. answer[r] = None
  BY DEF RecordedInv, IInv, Established, Authenticate, Begin, BeginMessages, Fail, Forward, Goto
<1>2. UNCHANGED <<usage, answer, cache, totals>>
  BY DEF Authenticate, Begin, BeginMessages, Fail, Forward
<1>3. pc'[r] \notin {"input", "output"} /\ \A s \in Request \ {r} : pc'[s] = pc[s]
  BY DEF RecordedInv, IInv, Typed, Authenticate, Begin, BeginMessages, Fail, Forward, Goto
<1>4. \A s \in Request \ {r} : key_meta'[s] = key_meta[s]
  BY DEF RecordedInv, IInv, Typed, Authenticate, Begin, BeginMessages, Fail, Forward
<1> QED
  BY <1>1, <1>2, <1>3, <1>4, UnansweredMove

\* Both counters have run: nothing is added any more.
LEMMA OutputStep ==
  ASSUME RecordedInv, NEW r \in Request, OutputRecorded(r)
  PROVE  Recorded' /\ \A k \in KeyId : Balanced(k)'
<1>1. pc[r] = "output" /\ pc' = [pc EXCEPT ![r] = "done"]
  BY DEF OutputRecorded, Goto
<1> QED
  BY <1>1, NothingRecorded DEF RecordedInv, IInv, Typed, OutputRecorded

\* A client that goes away leaves the output of its answer counted or not.
LEMMA GoneStep ==
  ASSUME RecordedInv, NEW r \in Request, Cancel(r)
  PROVE  Recorded' /\ \A k \in KeyId : Balanced(k)'
<1>1. pc' = [pc EXCEPT ![r] = "gone"] /\ pc \in [Request -> Stage]
  BY DEF Cancel, RecordedInv, IInv, Typed
<1>2. UNCHANGED <<key_meta, usage, answer, cache, totals>> /\ pc[r] # "gone"
  BY DEF Cancel
<1>3. Recorded'
  BY <1>1, <1>2, AnswerRigid DEF RecordedInv, Recorded
<1>4. ASSUME NEW k \in KeyId PROVE Balanced(k)'
  <2>1. \A s \in Request \ {r} :
          pc'[s] = pc[s] /\ answer'[s] = answer[s] /\ key_meta'[s] = key_meta[s]
    BY <1>1, <1>2
  <2>2. Answered(k)' = Answered(k)
    BY <1>2 DEF Answered
  <2>3. Tokens(Answered(k), "input_tokens")' = Tokens(Answered(k), "input_tokens")
    BY <1>2, <2>2 DEF Tokens
  <2>4. /\ r \in Counted(k)' <=> r \in Answered(k)
        /\ r \in Counted(k) => r \in Answered(k)
        /\ r \notin Certain(k)'
        /\ r \in Certain(k) => r \in Answered(k)
    BY <1>1, <2>2 DEF Counted, Certain, Answered
  <2>5. r \in Answered(k) => answer[r].usage["output_tokens"] \in Nat /\ answer'[r] = answer[r]
    BY <1>2, CountsAreNat DEF Answered, RecordedInv, Recorded
  <2>6. PICK x, y, z \in Nat :
          /\ Splits(Answered(k), "input_tokens", r, x)
          /\ Splits(Answered(k), "input_tokens", r, x)'
          /\ Splits(Counted(k), "output_tokens", r, y)
          /\ Splits(Counted(k), "output_tokens", r, y)'
          /\ Splits(Certain(k), "output_tokens", r, z)
          /\ Splits(Certain(k), "output_tokens", r, z)'
    BY <1>3, <2>1, Sums DEF RecordedInv
  <2>7. /\ totals'[k] = totals[k]
        /\ totals[k].output \in Nat
    BY <1>2 DEF RecordedInv, IInv, Typed
  <2>8. Tokens(Counted(k), "output_tokens") <= Tokens(Counted(k), "output_tokens")'
    BY <2>4, <2>5, <2>6 DEF Splits
  <2>9. Tokens(Certain(k), "output_tokens")' <= Tokens(Certain(k), "output_tokens")
    BY <2>4, <2>5, <2>6 DEF Splits
  <2>10. /\ Tokens(Counted(k), "output_tokens") \in Nat
         /\ Tokens(Counted(k), "output_tokens")' \in Nat
         /\ Tokens(Certain(k), "output_tokens") \in Nat
         /\ Tokens(Certain(k), "output_tokens")' \in Nat
    BY <2>4, <2>5, <2>6 DEF Splits
  <2> QED
    BY <2>3, <2>7, <2>8, <2>9, <2>10 DEF RecordedInv, Balanced
<1> QED
  BY <1>3, <1>4

\* What counting tokens of a request does to each key's totals.
LEMMA Adding ==
  ASSUME Typed, NEW r \in Request, key_meta[r] # None, NEW field \in {"input", "output"},
         NEW n \in Nat, Add(r, field, n), NEW k \in KeyId
  PROVE  /\ key_meta[r].key_id # k => totals'[k] = totals[k]
         /\ key_meta[r].key_id = k =>
              /\ totals'[k][field] = totals[k][field] + n
              /\ \A other \in {"input", "output"} \ {field} : totals'[k][other] = totals[k][other]
BY DEF Typed, Add

\* The second counter adds the output of an answer whose input is counted.
LEMMA InputStep ==
  ASSUME RecordedInv, NEW r \in Request, InputRecorded(r)
  PROVE  Recorded' /\ \A k \in KeyId : Balanced(k)'
<1>1. /\ pc[r] = "input" /\ pc' = [pc EXCEPT ![r] = "output"] /\ pc \in [Request -> Stage]
      /\ UNCHANGED <<key_meta, usage, answer, cache>>
      /\ Add(r, "output", usage[r].output_tokens)
  BY DEF InputRecorded, Goto, RecordedInv, IInv, Typed
<1>2. /\ key_meta[r] # None /\ usage[r] # None
      /\ answer[r] # None /\ answer[r].usage = usage[r]
  BY <1>1 DEF RecordedInv, IInv, Established, Recorded
<1>3. usage[r].output_tokens \in Nat
  BY <1>2, UsageAssumption DEF RecordedInv, IInv, Typed
<1>4. Recorded'
  BY <1>1, AnswerRigid DEF RecordedInv, Recorded
<1>5. ASSUME NEW k \in KeyId PROVE Balanced(k)'
  <2>1. \A s \in Request \ {r} :
          pc'[s] = pc[s] /\ answer'[s] = answer[s] /\ key_meta'[s] = key_meta[s]
    BY <1>1
  <2>2. Answered(k)' = Answered(k) /\ (r \in Answered(k) <=> key_meta[r].key_id = k)
    BY <1>1, <1>2 DEF Answered
  <2>3. Tokens(Answered(k), "input_tokens")' = Tokens(Answered(k), "input_tokens")
    BY <1>1, <2>2 DEF Tokens
  <2>4. /\ r \notin Counted(k) /\ r \notin Certain(k)
        /\ r \in Counted(k)' <=> r \in Answered(k)
        /\ r \in Certain(k)' <=> r \in Answered(k)
    BY <1>1, <2>2 DEF Counted, Certain, Answered
  <2>5. answer'[r].usage["output_tokens"] = usage[r].output_tokens
    BY <1>1, <1>2
  <2>6. PICK x, y, z \in Nat :
          /\ Splits(Answered(k), "input_tokens", r, x)
          /\ Splits(Answered(k), "input_tokens", r, x)'
          /\ Splits(Counted(k), "output_tokens", r, y)
          /\ Splits(Counted(k), "output_tokens", r, y)'
          /\ Splits(Certain(k), "output_tokens", r, z)
          /\ Splits(Certain(k), "output_tokens", r, z)'
    BY <1>4, <2>1, Sums DEF RecordedInv
  <2>7. totals[k] \in [input : Nat, output : Nat]
    BY DEF RecordedInv, IInv, Typed
  <2>8. CASE key_meta[r].key_id = k
    <3>1. totals'[k].output = totals[k].output + usage[r].output_tokens
      BY <1>1, <1>2, <1>3, <2>8, Adding DEF RecordedInv, IInv
    <3>2. totals'[k].input = totals[k].input
      BY <1>1, <1>2, <1>3, <2>8, Adding DEF RecordedInv, IInv
    <3>3. /\ Tokens(Counted(k), "output_tokens") = y
          /\ Tokens(Counted(k), "output_tokens")' = usage[r].output_tokens + y
          /\ Tokens(Certain(k), "output_tokens") = z
          /\ Tokens(Certain(k), "output_tokens")' = usage[r].output_tokens + z
      BY <2>2, <2>4, <2>5, <2>6, <2>8 DEF Splits
    <3> QED
      BY <1>3, <2>3, <2>7, <3>1, <3>2, <3>3 DEF RecordedInv, Balanced
  <2>9. CASE key_meta[r].key_id # k
    <3>1. totals'[k] = totals[k]
      BY <1>1, <1>2, <1>3, <2>9, Adding DEF RecordedInv, IInv
    <3>2. /\ Tokens(Counted(k), "output_tokens")' = Tokens(Counted(k), "output_tokens")
          /\ Tokens(Certain(k), "output_tokens")' = Tokens(Certain(k), "output_tokens")
      BY <2>2, <2>4, <2>6, <2>9 DEF Splits
    <3> QED
      BY <2>3, <3>1, <3>2 DEF RecordedInv, Balanced
  <2> QED
    BY <2>8, <2>9
<1> QED
  BY <1>4, <1>5

\* An answer enters the sum of the inputs when its input is counted, and not at
\* all without usage.
LEMMA AnsweredStep ==
  ASSUME RecordedInv, NEW r \in Request, NEW from \in {"precheck", "upstream"},
         NEW a \in Answer, pc[r] = from,
         usage' = [usage EXCEPT ![r] = a.usage],
         Respond(r, from, a),
         UNCHANGED <<current, call, key_meta, seen, snapshot>>,
         \A key \in DOMAIN cache' : cache'[key] \in Answer
  PROVE  Recorded' /\ \A k \in KeyId : Balanced(k)'
<1>1. /\ pc \in [Request -> Stage] /\ answer = [s \in Request |-> answer[s]]
      /\ key_meta[r] # None /\ answer[r] = None
      /\ usage'[r] = a.usage
      /\ \A s \in Request \ {r} : usage'[s] = usage[s]
  BY DEF RecordedInv, IInv, Typed, Established, AnswersByRequest
<1>2. /\ a # None
      /\ a.usage # None => a.usage.input_tokens \in Nat
  BY AnswerAssumption, UsageAssumption DEF Answer
<1>3. \/ /\ a.usage = None
         /\ answer' = [answer EXCEPT ![r] = a] /\ pc' = [pc EXCEPT ![r] = "done"]
         /\ UNCHANGED totals
      \/ /\ a.usage # None
         /\ answer' = [answer EXCEPT ![r] = a] /\ pc' = [pc EXCEPT ![r] = "input"]
         /\ Add(r, "input", a.usage.input_tokens)
      \/ /\ answer' = answer /\ pc' = [pc EXCEPT ![r] = "failed"]
         /\ UNCHANGED totals
  BY <1>1 DEF Respond, record_success, Goto
<1>4. /\ \A s \in Request \ {r} :
           pc'[s] = pc[s] /\ answer'[s] = answer[s] /\ key_meta'[s] = key_meta[s]
      /\ answer'[r] \in {a, None}
      /\ pc'[r] \notin {"output", "gone"}
      /\ pc'[r] = "input" => answer'[r] = a
  BY <1>1, <1>3
<1>5. Recorded'
  <2> SUFFICES ASSUME NEW s \in Request
               PROVE  /\ answer'[s] \in Answer \cup {None}
                      /\ pc'[s] \in {"input", "output"} =>
                           answer'[s] # None /\ answer'[s].usage = usage'[s]
    BY AnswerRigid DEF Recorded
  <2>1. CASE s = r
    BY <1>1, <1>2, <1>4, <2>1
  <2>2. CASE s # r
    BY <1>1, <1>4, <2>2 DEF RecordedInv, Recorded
  <2> QED
    BY <2>1, <2>2
<1>6. ASSUME NEW k \in KeyId PROVE Balanced(k)'
  <2>1. r \notin Answered(k) /\ r \notin Counted(k) /\ r \notin Certain(k)
    BY <1>1 DEF Answered, Counted, Certain
  <2>2. r \notin Counted(k)' /\ r \notin Certain(k)'
    BY <1>1, <1>3, <1>4 DEF Counted, Certain, Answered
  <2>3. PICK x, y, z \in Nat :
          /\ Splits(Answered(k), "input_tokens", r, x)
          /\ Splits(Answered(k), "input_tokens", r, x)'
          /\ Splits(Counted(k), "output_tokens", r, y)
          /\ Splits(Counted(k), "output_tokens", r, y)'
          /\ Splits(Certain(k), "output_tokens", r, z)
          /\ Splits(Certain(k), "output_tokens", r, z)'
    BY <1>4, <1>5, Sums DEF RecordedInv
  <2>4. /\ Tokens(Counted(k), "output_tokens")' = Tokens(Counted(k), "output_tokens")
        /\ Tokens(Certain(k), "output_tokens")' = Tokens(Certain(k), "output_tokens")
    BY <2>1, <2>2, <2>3 DEF Splits
  <2>5. totals[k] \in [input : Nat, output : Nat]
    BY DEF RecordedInv, IInv, Typed
  <2>6. CASE /\ a.usage # None /\ key_meta[r].key_id = k
             /\ answer' = [answer EXCEPT ![r] = a] /\ pc' = [pc EXCEPT ![r] = "input"]
             /\ Add(r, "input", a.usage.input_tokens)
    <3>1. r \in Answered(k)' /\ answer'[r] = a
      BY <1>1, <1>2, <2>6 DEF Answered
    <3>2. totals'[k].input = totals[k].input + a.usage.input_tokens
      BY <1>1, <1>2, <2>6, Adding DEF RecordedInv, IInv
    <3>3. totals'[k].output = totals[k].output
      BY <1>1, <1>2, <2>6, Adding DEF RecordedInv, IInv
    <3>4. Tokens(Answered(k), "input_tokens")' = a.usage.input_tokens + x
      BY <2>3, <3>1 DEF Splits
    <3>5. Tokens(Answered(k), "input_tokens") = x
      BY <2>1, <2>3 DEF Splits
    <3> QED
      BY <1>2, <2>4, <2>5, <2>6, <3>2, <3>3, <3>4, <3>5 DEF RecordedInv, Balanced
  <2>7. CASE totals'[k] = totals[k] /\ r \notin Answered(k)'
    <3>1. Tokens(Answered(k), "input_tokens")' = Tokens(Answered(k), "input_tokens")
      BY <2>1, <2>3, <2>7 DEF Splits
    <3> QED
      BY <2>4, <2>7, <3>1 DEF RecordedInv, Balanced
  <2>8. \/ a.usage = None \/ answer' = answer \/ key_meta[r].key_id # k => r \notin Answered(k)'
    BY <1>1, <1>4 DEF Answered
  <2>9. key_meta[r].key_id # k => totals'[k] = totals[k]
    BY <1>1, <1>2, <1>3, Adding DEF RecordedInv, IInv
  <2> QED
    BY <1>3, <2>6, <2>7, <2>8, <2>9
<1> QED
  BY <1>5, <1>6

\* A hit is recorded with the usage that was cached.
LEMMA HitRecorded ==
  ASSUME RecordedInv, NEW r \in Request, Hit(r)
  PROVE  Recorded' /\ \A k \in KeyId : Balanced(k)'
<1> DEFINE a == cache[CacheKey(r)]
<1>1. a \in Answer /\ \A key \in DOMAIN cache' : cache'[key] \in Answer
  BY DEF Hit, IsHit, RecordedInv, Recorded
<1>2. /\ pc[r] = "precheck"
      /\ usage' = [usage EXCEPT ![r] = a.usage]
      /\ Respond(r, "precheck", a)
      /\ UNCHANGED <<current, call, key_meta, seen, snapshot>>
  BY DEF Hit
<1> HIDE DEF a
<1> QED
  BY <1>1, <1>2, AnsweredStep

\* A success of the upstream is stored, then recorded.
LEMMA UpstreamRecorded ==
  ASSUME RecordedInv, NEW r \in Request, NEW legible \in BOOLEAN, NEW u \in Usage \cup {None},
         UpstreamAnswers(r, legible, u)
  PROVE  Recorded' /\ \A k \in KeyId : Balanced(k)'
<1> DEFINE a == [asked |-> Asked(Snapshot[snapshot[r]], call[r]), legible |-> legible, usage |-> u]
<1>1. /\ pc[r] = "upstream"
      /\ usage' = [usage EXCEPT ![r] = a.usage]
      /\ Respond(r, "upstream", a)
      /\ UNCHANGED <<current, call, key_meta, seen, snapshot>>
  BY DEF UpstreamAnswers
<1>2. /\ snapshot[r] \in SnapshotIndex /\ call[r] \in Call
      /\ call[r].model \in DOMAIN Snapshot[snapshot[r]].models_by_name
  BY <1>1, SnapshotAssumption
     DEF RecordedInv, IInv, Typed, Established, Permitted, SnapshotIndex
<1>3. Asked(Snapshot[snapshot[r]], call[r]) \in Question
  BY <1>2 DEF Question
<1>4. a \in Answer
  BY <1>3 DEF Answer
<1>5. \/ cache' = cache
      \/ cache' = [k \in DOMAIN cache \cup {CacheKey(r)} |-> IF k = CacheKey(r) THEN a ELSE cache[k]]
  BY DEF UpstreamAnswers
<1> HIDE DEF a
<1>6. \A key \in DOMAIN cache' : cache'[key] \in Answer
  BY <1>4, <1>5 DEF RecordedInv, Recorded
<1> QED
  BY <1>1, <1>4, <1>6, AnsweredStep

-----------------------------------------------------------------------------
\* Nothing is billed at the start.
LEMMA InitRecorded == Init => RecordedInv
<1> SUFFICES ASSUME Init PROVE RecordedInv
  OBVIOUS
<1>1. Recorded
  BY DEF Init, Recorded
<1>2. ASSUME NEW k \in KeyId PROVE Balanced(k)
  <2>1. Answered(k) = {} /\ Counted(k) = {} /\ Certain(k) = {}
    BY DEF Init, Answered, Counted, Certain
  <2>2. \A field \in {"input_tokens", "output_tokens"} : Tokens({}, field) = 0
    <3> SUFFICES ASSUME NEW field \in {"input_tokens", "output_tokens"} PROVE Tokens({}, field) = 0
      OBVIOUS
    <3> DEFINE h == [s \in {} |-> answer[s].usage[field]]
    <3>1. SumFunction(h) = SumFunctionOnSet(h, {})
      BY Zenon DEF SumFunction
    <3>2. SumFunctionOnSet(h, {}) = 0
      <4> HIDE DEF h
      <4> QED
        BY FS_EmptySet, SumChosen
    <3> QED
      BY <3>1, <3>2 DEF Tokens
  <2>3. totals[k].input = 0 /\ totals[k].output = 0
    BY DEF Init
  <2> QED
    BY <2>1, <2>2, <2>3 DEF Balanced
<1> QED
  BY <1>1, <1>2, InitInv DEF RecordedInv

\* The totals stay balanced through every interleaving of the handlers.
THEOREM RecordedInvariance == Spec => []RecordedInv
<1>1. RecordedInv /\ [Next]_vars /\ IInv' => RecordedInv'
  <2> SUFFICES ASSUME RecordedInv, [Next]_vars PROVE Recorded' /\ \A k \in KeyId : Balanced(k)'
    BY DEF RecordedInv, KeyId, KeyMeta, SnapshotIndex
  <2>1. CASE PublishNext \/ UNCHANGED vars
    BY <2>1, NothingRecorded DEF PublishNext, vars
  <2>2. ASSUME NEW r \in Request, Handle(r) PROVE Recorded' /\ \A k \in KeyId : Balanced(k)'
    <3>1. CASE \E legible \in BOOLEAN, u \in Usage \cup {None} : UpstreamAnswers(r, legible, u)
      BY <3>1, UpstreamRecorded
    <3>2. CASE Authenticate(r) \/ Begin(r) \/ BeginMessages(r) \/ Fail(r) \/ Forward(r)
      BY <3>2, EarlySteps
    <3>3. CASE Cancel(r)
      BY <3>3, GoneStep
    <3>4. CASE Hit(r)
      BY <3>4, HitRecorded
    <3>5. CASE InputRecorded(r)
      BY <3>5, InputStep
    <3>6. CASE OutputRecorded(r)
      BY <3>6, OutputStep
    <3> QED
      BY <2>2, <3>1, <3>2, <3>3, <3>4, <3>5, <3>6 DEF Handle
  <2> QED
    BY <2>1, <2>2 DEF Next
<1> QED
  BY <1>1, InitRecorded, Invariance, PTL DEF Spec

\* Whatever the number of requests, of keys and of published snapshots: each
\* answer is billed once and to its own key, cached or not; a client that goes
\* away between the counters leaves at most the output of its answer uncounted.
THEOREM EachAnswerBilledOnce == Spec => []BilledOnce
<1>1. RecordedInv => BilledOnce
  <2> SUFFICES ASSUME RecordedInv, NEW k \in KeyId
               PROVE  LET before == {r \in Answered(k) : pc[r] = "input"}
                          unsure == {r \in Answered(k) : pc[r] = "gone"}
                          billed == Answered(k) \ before
                      IN  /\ totals[k].input = Tokens(Answered(k), "input_tokens")
                          /\ totals[k].output <= Tokens(billed, "output_tokens")
                          /\ totals[k].output >= Tokens(billed \ unsure, "output_tokens")
    BY DEF BilledOnce
  <2> DEFINE before == {r \in Answered(k) : pc[r] = "input"}
             unsure == {r \in Answered(k) : pc[r] = "gone"}
             billed == Answered(k) \ before
  <2>1. billed = Counted(k) /\ billed \ unsure = Certain(k)
    BY DEF Counted, Certain
  <2>2. /\ totals[k].input = Tokens(Answered(k), "input_tokens")
        /\ totals[k].output <= Tokens(billed, "output_tokens")
        /\ totals[k].output >= Tokens(billed \ unsure, "output_tokens")
    BY <2>1 DEF RecordedInv, Balanced
  <2> QED
    BY <2>2 DEF Tokens
<1> QED
  BY <1>1, RecordedInvariance, PTL
=============================================================================
