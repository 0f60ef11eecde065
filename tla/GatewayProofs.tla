----------------------------- MODULE GatewayProofs -----------------------------
(***************************************************************************)
(* Proofs about the gateway put together, for every number of requests,    *)
(* every set of keys, bodies and calls, every compiler that compiles what  *)
(* is there (CompileAssumption) and every bound: clients never see the     *)
(* configuration go back, and every answer is explained by committed       *)
(* contents of the prefix, over the cache, reloads and restarts.           *)
(***************************************************************************)
EXTENDS Gateway, EtcdStoreProofs

\* The tables of revision n, and whether they could ever be served.
At(n) == CompiledSnapshot(n, Compile(ContentAt(n)))

Loadable(n) == n \in 1..Revision /\ Compile(ContentAt(n)) # HardError

\* While there is something to serve, it is what was committed, and newer than all
\* that was served before.
ServesCommitted ==
  /\ up => /\ Loadable(snapshot.revision)
           /\ snapshot = SnapshotOf(snapshot.revision)
           /\ newest <= snapshot.revision
  /\ ~up => cache = <<>>

\* The key of a request is of a revision that was served after it came, ...
Authenticated(r, n) ==
  /\ n \in floor[r]..snapshot.revision /\ Loadable(n)
  /\ Known(At(n), call[r])
  /\ key_meta[r] = At(n).keys_by_token[call[r].token]

\* ... its route of the same or a later one, ...
Routed(r, n, m) ==
  /\ m \in n..snapshot.revision /\ Loadable(m)
  /\ context[r] = At(m)
  /\ call[r].endpoint = "messages" => n = m

\* ... and its answer one to its question.
Explained(r) ==
  /\ pc[r] = "body" =>
       call[r].endpoint # "messages" /\ \E n \in Nat : Authenticated(r, n)
  /\ pc[r] \in {"precheck", "upstream", "answered"} =>
       \E n, m \in Nat : Authenticated(r, n) /\ Routed(r, n, m)
  /\ answer[r] # None => pc[r] = "answered" /\ answer[r] = Asked(context[r], call[r])

RequestsAreExplained ==
  /\ DOMAIN answer = Request /\ DOMAIN context = Request /\ DOMAIN key_meta = Request
  /\ \A r \in Request : Explained(r)

\* The cache holds answers to questions that its keys determine.
CacheIsHonest ==
  \A k \in DOMAIN cache :
    \E m \in Nat, c \in Call :
      /\ Loadable(m)
      /\ k = cache_key_for_chat(At(m), c)
      /\ cache[k] = Asked(At(m), c)

IInv ==
  /\ TypeOK
  /\ ServesCommitted
  /\ RequestsAreExplained
  /\ CacheIsHonest

-----------------------------------------------------------------------------
(* The rules *)

\* With the revision in it, a key of the cache determines the question.
LEMMA KeyDeterminesQuestion ==
  ASSUME NEW m, NEW n, NEW c, NEW d,
         cache_key_for_chat(At(m), c) = cache_key_for_chat(At(n), d)
  PROVE  m = n /\ Asked(At(m), c) = Asked(At(n), d)
<1>1. /\ At(m).revision = At(n).revision
      /\ ProviderId(At(m), c) = ProviderId(At(n), d)
      /\ Model(At(m), c).upstream_model = Model(At(n), d).upstream_model
      /\ request_signature(c) = request_signature(d)
  BY DEF cache_key_for_chat
<1>2. m = n
  BY <1>1 DEF At, CompiledSnapshot
<1> QED
  BY <1>1, <1>2 DEF Asked, Provider

\* What is served while the process is up is a revision's tables.
LEMMA ServedIsCommitted ==
  ASSUME IInv, up
  PROVE  /\ Served = At(snapshot.revision)
         /\ Loadable(snapshot.revision)
         /\ snapshot.revision \in 1..Revision /\ Revision \in Nat
<1>1. snapshot.tables = Compile(ContentAt(snapshot.revision))
  BY DEF IInv, ServesCommitted, SnapshotOf
<1> QED
  BY <1>1, LatestIsContent, MaxRevisionAssumption
     DEF Served, At, IInv, TypeOK, ServesCommitted, Loadable

\* Requests are there only while the process is up.
LEMMA BusyMeansUp ==
  ASSUME IInv, NEW r \in Request, pc[r] # "idle"
  PROVE  up /\ call[r] \in Call /\ floor[r] \in 1..snapshot.revision
BY DEF IInv, TypeOK, Serving

-----------------------------------------------------------------------------
(* The inductive invariant *)

\* The invariant holds before the first start.
LEMMA InitInv == Init => IInv
<1> SUFFICES ASSUME Init PROVE IInv
  OBVIOUS
<1>1. EtcdTypeOK /\ Revision = 1
  BY HistoryBegins DEF Init, PublisherInit
<1>2. /\ up = FALSE /\ snapshot = NoSnapshot /\ stage = "down" /\ listening = {}
      /\ pc = [r \in Request |-> "idle"] /\ call = [r \in Request |-> NoCall]
      /\ floor = [r \in Request |-> 0] /\ newest = 0 /\ cache = <<>>
      /\ answer = [r \in Request |-> None] /\ context = [r \in Request |-> None]
      /\ key_meta = [r \in Request |-> None]
  BY DEF Init, PublisherInit
<1>3. TypeOK
  BY <1>1, <1>2 DEF TypeOK, Stage
<1>4. RequestsAreExplained
  BY <1>2 DEF RequestsAreExplained, Explained
<1>5. CacheIsHonest /\ ServesCommitted
  BY <1>2 DEF CacheIsHonest, ServesCommitted
<1> QED
  BY <1>3, <1>4, <1>5 DEF IInv

\* What was committed stays.
LEMMA RevisionsStay ==
  ASSUME EtcdTypeOK, Revision <= Revision', Revision' \in Nat,
         \A n \in 1..Revision : history'[n] = history[n]
  PROVE  \A n : Loadable(n) => Loadable(n)' /\ At(n)' = At(n) /\ SnapshotOf(n)' = SnapshotOf(n)
<1>1. Revision \in Nat
  BY LatestIsContent, MaxRevisionAssumption
<1>2. \A n \in 1..Revision : n \in 1..Revision' /\ ContentAt(n)' = ContentAt(n)
  BY <1>1 DEF ContentAt
<1> QED
  BY <1>2 DEF Loadable, At, SnapshotOf

\* A request that does not move stays explained while the configuration goes on.
LEMMA ExplainedStays ==
  ASSUME IInv, NEW r \in Request,
         Revision <= Revision', Revision' \in Nat,
         \A n \in 1..Revision : history'[n] = history[n],
         snapshot.revision <= snapshot'.revision, snapshot'.revision \in Nat,
         pc'[r] = pc[r], call'[r] = call[r], key_meta'[r] = key_meta[r],
         context'[r] = context[r], answer'[r] = answer[r], floor'[r] = floor[r]
  PROVE  Explained(r)'
<1>1. \A n : Loadable(n) => Loadable(n)' /\ At(n)' = At(n)
  BY RevisionsStay DEF IInv, TypeOK
<1>2. snapshot.revision \in Nat
  BY ServedIsCommitted DEF IInv, TypeOK, NoSnapshot
<1>3. \A n \in Nat : Authenticated(r, n) => Authenticated(r, n)'
  BY <1>1, <1>2 DEF Authenticated, IInv, TypeOK
<1>4. \A n, m \in Nat : Routed(r, n, m) => Routed(r, n, m)'
  BY <1>1, <1>2 DEF Routed
<1> QED
  BY <1>3, <1>4 DEF IInv, RequestsAreExplained, Explained

\* The configuration moves on, in the store or to the ArcSwap, under the requests.
LEMMA ConfigurationStep ==
  ASSUME IInv, UNCHANGED <<processVars, requestVars, cache, up>>,
         EtcdTypeOK', Revision <= Revision', Revision' \in Nat,
         \A n \in 1..Revision : history'[n] = history[n],
         snapshot.revision <= snapshot'.revision, snapshot'.revision \in Nat,
         newest' \in 0..Revision', ServesCommitted', up <=> snapshot' # NoSnapshot
  PROVE  IInv'
<1>1. UNCHANGED <<stage, listening, pc, call, key_meta, context, answer, floor, cache, up>>
  BY DEF processVars, requestVars
<1>2. Revision \in Nat /\ snapshot.revision \in Nat
  BY LatestIsContent, MaxRevisionAssumption, ServedIsCommitted DEF IInv, TypeOK, NoSnapshot
<1>3. TypeOK'
  <2>1. floor' \in [Request -> 0..Revision']
    BY <1>1, <1>2 DEF IInv, TypeOK
  <2>2. ASSUME NEW r \in Request, pc[r] # "idle"
        PROVE  Serving /\ call[r] \in Call /\ floor[r] \in 1..snapshot'.revision
    BY <1>2, <2>2 DEF IInv, TypeOK
  <2> QED
    BY <1>1, <2>1, <2>2 DEF IInv, TypeOK, Serving
<1>4. RequestsAreExplained'
  BY <1>1, ExplainedStays DEF IInv, RequestsAreExplained
<1>5. CacheIsHonest'
  <2>1. \A n : Loadable(n) => Loadable(n)' /\ At(n)' = At(n)
    BY RevisionsStay DEF IInv, TypeOK
  <2> QED
    BY <1>1, <2>1 DEF IInv, CacheIsHonest
<1> QED
  BY <1>3, <1>4, <1>5 DEF IInv

\* A write.
LEMMA WriteStep ==
  ASSUME IInv, Write, UNCHANGED <<up, snapshot, processVars, newest, requestVars, cache>>
  PROVE  IInv'
<1>1. PICK content \in Content, event \in BOOLEAN : Commit(content, event)
  BY WriteCommits DEF IInv, TypeOK
<1>2. /\ EtcdTypeOK' /\ Revision' = Revision + 1
      /\ \A n \in 1..Revision : history'[n] = history[n]
  BY <1>1, CommitAppends DEF IInv, TypeOK
<1>3. Revision \in Nat /\ snapshot.revision \in Nat
  BY LatestIsContent, MaxRevisionAssumption, ServedIsCommitted DEF IInv, TypeOK, NoSnapshot
<1>4. ServesCommitted'
  <2>1. \A n : Loadable(n) => Loadable(n)' /\ SnapshotOf(n)' = SnapshotOf(n)
    BY <1>2, <1>3, RevisionsStay DEF IInv, TypeOK
  <2> QED
    BY <2>1 DEF IInv, ServesCommitted
<1>5. /\ Revision <= Revision' /\ Revision' \in Nat /\ newest' \in 0..Revision'
      /\ snapshot' = snapshot /\ up' = up
  BY <1>2, <1>3 DEF IInv, TypeOK
<1>6. up <=> snapshot' # NoSnapshot
  BY <1>5 DEF IInv, TypeOK
<1> QED
  BY <1>2, <1>3, <1>4, <1>5, <1>6, ConfigurationStep

\* A reload that publishes.
LEMMA ReloadStep ==
  ASSUME IInv, Reload
  PROVE  IInv'
<1>1. PICK n \in 1..Revision :
        /\ n >= snapshot.revision /\ Compile(ContentAt(n)) # HardError
        /\ snapshot' = SnapshotOf(n)
  BY DEF Reload, Publish
<1>2. /\ up /\ up' = up /\ history' = history /\ compactRevision' = compactRevision
      /\ newest' = Larger(newest, snapshot'.revision)
      /\ UNCHANGED <<processVars, requestVars, cache>>
  BY DEF Reload, Publish, etcdVars
<1>3. EtcdTypeOK' /\ Revision' = Revision /\ Revision \in Nat
  BY <1>2, LatestIsContent, MaxRevisionAssumption DEF IInv, TypeOK, EtcdTypeOK, Revision
<1>4. snapshot.revision \in Nat /\ newest <= snapshot.revision
  BY <1>2, <1>3, ServedIsCommitted DEF IInv, ServesCommitted
<1>5. snapshot'.revision = n /\ newest' = n
  BY <1>1, <1>2, <1>3, <1>4 DEF SnapshotOf, Larger, IInv, TypeOK
<1>6. ServesCommitted'
  BY <1>1, <1>2, <1>3, <1>5 DEF ServesCommitted, Loadable, SnapshotOf, ContentAt
<1>7. up <=> snapshot' # NoSnapshot
  BY <1>1, <1>2, <1>3 DEF SnapshotOf, NoSnapshot
<1>8. /\ \A i \in 1..Revision : history'[i] = history[i]
      /\ Revision <= Revision' /\ Revision' \in Nat /\ newest' \in 0..Revision'
      /\ snapshot.revision <= snapshot'.revision /\ snapshot'.revision \in Nat
  BY <1>1, <1>2, <1>3, <1>4, <1>5
<1> QED
  BY <1>2, <1>3, <1>6, <1>7, <1>8, ConfigurationStep

\* A process that is down has neither requests nor a cache.
LEMMA DownIsEmpty ==
  ASSUME IInv, stage # "serve" \/ ~up
  PROVE  (\A r \in Request : pc[r] = "idle") /\ (~up => cache = <<>>)
BY DEF IInv, TypeOK, Serving, ServesCommitted

\* main, from one stage to the next.
LEMMA StartupStep ==
  ASSUME IInv, AdminReady \/ BindData \/ BindAdmin
  PROVE  IInv'
<1>1. /\ UNCHANGED <<history, compactRevision, up, snapshot, newest, cache>>
      /\ UNCHANGED <<pc, call, key_meta, context, answer, floor>>
  BY DEF AdminReady, BindData, BindAdmin, publisherVars, requestVars
<1>2. EtcdTypeOK' /\ Revision' = Revision
  BY <1>1 DEF IInv, TypeOK, EtcdTypeOK, Revision
<1>3. /\ stage' = "serve" /\ up
      /\ listening' \in {listening, {"data"}, {"data", "admin"}}
      /\ Serving => Serving'
  BY DEF AdminReady, BindData, BindAdmin, IInv, TypeOK, Serving
<1>4. \A n : (Loadable(n) <=> Loadable(n)') /\ At(n)' = At(n) /\ SnapshotOf(n)' = SnapshotOf(n)
  BY <1>1, <1>2 DEF Loadable, At, SnapshotOf, ContentAt
<1>5. TypeOK'
  BY <1>1, <1>2, <1>3 DEF IInv, TypeOK
<1>6. ServesCommitted' /\ CacheIsHonest'
  BY <1>1, <1>4 DEF IInv, ServesCommitted, CacheIsHonest
<1>7. Revision \in Nat /\ snapshot.revision \in Nat
  BY <1>3, ServedIsCommitted
<1>8. RequestsAreExplained'
  <2>1. \A n \in 1..Revision : history'[n] = history[n]
    BY <1>1
  <2>2. /\ Revision <= Revision' /\ Revision' \in Nat
        /\ snapshot.revision <= snapshot'.revision /\ snapshot'.revision \in Nat
    BY <1>1, <1>2, <1>7
  <2> QED
    BY <1>1, <2>1, <2>2, ExplainedStays DEF IInv, RequestsAreExplained
<1> QED
  BY <1>5, <1>6, <1>8 DEF IInv

\* A process comes up with the latest content, and newer than all before it.
LEMMA BootstrapStep ==
  ASSUME IInv, Bootstrap
  PROVE  IInv'
<1>1. /\ stage = "down" /\ ~up /\ stage' = "admin" /\ up' = TRUE
      /\ Compile(Latest) # HardError /\ snapshot' = SnapshotOf(Revision)
      /\ newest' = Larger(newest, snapshot'.revision)
      /\ UNCHANGED <<history, compactRevision, listening, cache>>
      /\ UNCHANGED <<pc, call, key_meta, context, answer, floor>>
  BY DEF Bootstrap, Start, etcdVars, requestVars, IInv, TypeOK
<1>2. EtcdTypeOK' /\ Revision' = Revision /\ Revision \in Nat \ {0}
  BY <1>1, LatestIsContent, MaxRevisionAssumption DEF IInv, TypeOK, EtcdTypeOK, Revision
<1>3. snapshot'.revision = Revision /\ newest' = Revision /\ snapshot' # NoSnapshot
  BY <1>1, <1>2 DEF SnapshotOf, NoSnapshot, Larger, IInv, TypeOK
<1>4. \A r \in Request : pc[r] = "idle"
  BY <1>1, DownIsEmpty
<1>5. TypeOK'
  BY <1>1, <1>2, <1>3, <1>4 DEF IInv, TypeOK, Serving
<1>6. ServesCommitted'
  BY <1>1, <1>2, <1>3 DEF ServesCommitted, Loadable, SnapshotOf, ContentAt, Latest
<1>7. RequestsAreExplained'
  BY <1>1, <1>4 DEF IInv, RequestsAreExplained, Explained
<1>8. CacheIsHonest'
  BY <1>1, DownIsEmpty DEF CacheIsHonest
<1> QED
  BY <1>5, <1>6, <1>7, <1>8 DEF IInv

\* A process ends with all it had.
LEMMA ExitStep ==
  ASSUME IInv, Exit
  PROVE  IInv'
<1>1. /\ stage' = "down" /\ up' = FALSE /\ snapshot' = NoSnapshot /\ listening' = {}
      /\ pc' = [r \in Request |-> "idle"] /\ call' = [r \in Request |-> NoCall]
      /\ floor' = [r \in Request |-> 0] /\ newest' = newest /\ cache' = <<>>
      /\ answer' = [r \in Request |-> None] /\ context' = [r \in Request |-> None]
      /\ key_meta' = [r \in Request |-> None]
      /\ history' = history /\ compactRevision' = compactRevision
  BY DEF Exit, Stop, etcdVars
<1>2. EtcdTypeOK' /\ Revision' = Revision /\ Revision \in Nat
  BY <1>1, LatestIsContent, MaxRevisionAssumption DEF IInv, TypeOK, EtcdTypeOK, Revision
<1>3. TypeOK'
  BY <1>1, <1>2 DEF IInv, TypeOK, Stage
<1>4. RequestsAreExplained'
  BY <1>1 DEF RequestsAreExplained, Explained
<1>5. CacheIsHonest' /\ ServesCommitted'
  BY <1>1 DEF CacheIsHonest, ServesCommitted
<1> QED
  BY <1>3, <1>4, <1>5 DEF IInv

\* What a step of one request has to show.
LEMMA RequestStep ==
  ASSUME IInv, NEW r \in Request, Serving,
         UNCHANGED <<publisherVars, processVars, newest>>,
         pc' \in [Request -> Stage], call' \in [Request -> Call \cup {NoCall}],
         floor' \in [Request -> 0..Revision],
         DOMAIN answer' = Request, DOMAIN context' = Request, DOMAIN key_meta' = Request,
         \A q \in Request \ {r} :
           /\ pc'[q] = pc[q] /\ call'[q] = call[q] /\ key_meta'[q] = key_meta[q]
           /\ context'[q] = context[q] /\ answer'[q] = answer[q] /\ floor'[q] = floor[q],
         pc'[r] # "idle" => call'[r] \in Call /\ floor'[r] \in 1..snapshot.revision,
         pc'[r] \in {"precheck", "upstream", "answered"} =>
           Permitted(key_meta'[r], context'[r], call'[r]),
         Explained(r)', cache' = cache \/ CacheIsHonest'
  PROVE  IInv'
<1>1. UNCHANGED <<history, compactRevision, up, snapshot, stage, listening, newest>>
  BY DEF publisherVars, processVars
<1>2. EtcdTypeOK' /\ Revision' = Revision
  BY <1>1 DEF IInv, TypeOK, EtcdTypeOK, Revision
<1>3. up /\ Revision \in Nat /\ snapshot.revision \in Nat
  BY ServedIsCommitted DEF IInv, TypeOK, Serving
<1>4. TypeOK'
  <2>1. ASSUME NEW q \in Request
        PROVE  /\ pc'[q] # "idle" => call'[q] \in Call /\ floor'[q] \in 1..snapshot.revision
               /\ pc'[q] \in {"precheck", "upstream", "answered"} =>
                    Permitted(key_meta'[q], context'[q], call'[q])
    BY <2>1 DEF IInv, TypeOK
  <2> QED
    BY <1>1, <1>2, <2>1 DEF IInv, TypeOK, Serving
<1>5. ServesCommitted'
  BY <1>1, <1>2, <1>3 DEF IInv, ServesCommitted, Loadable, SnapshotOf, ContentAt
<1>6. RequestsAreExplained'
  <2>1. /\ Revision <= Revision' /\ Revision' \in Nat
        /\ \A n \in 1..Revision : history'[n] = history[n]
        /\ snapshot.revision <= snapshot'.revision /\ snapshot'.revision \in Nat
    BY <1>1, <1>2, <1>3
  <2>2. \A q \in Request \ {r} : Explained(q)'
    BY <2>1, ExplainedStays
  <2> QED
    BY <2>2 DEF RequestsAreExplained
<1>7. CacheIsHonest'
  <2>1. \A n : Loadable(n) => Loadable(n)' /\ At(n)' = At(n)
    BY <1>1, <1>2 DEF Loadable, At, ContentAt
  <2> QED
    BY <2>1 DEF IInv, CacheIsHonest
<1> QED
  BY <1>4, <1>5, <1>6, <1>7 DEF IInv

\* Under an unchanged configuration, revisions mean what they meant.
LEMMA SameConfiguration ==
  ASSUME UNCHANGED <<publisherVars, processVars, newest>>
  PROVE  /\ \A n : (Loadable(n)' <=> Loadable(n)) /\ At(n)' = At(n)
         /\ snapshot' = snapshot /\ Served' = Served
<1>1. UNCHANGED <<history, compactRevision, up, snapshot, stage, listening>>
  BY DEF publisherVars, processVars
<1> QED
  BY <1>1 DEF Loadable, At, ContentAt, Revision, Served

\* A request that comes is let in by what is served, or turned away.
LEMMA ArriveStep ==
  ASSUME IInv, NEW r \in Request, NEW c \in Call,
         Authenticate(r, c) \/ BeginMessages(r, c) \/ Refuse(r, c)
  PROVE  IInv'
<1>1. PICK to \in {"body", "precheck", "refused"} :
        /\ Serving /\ pc[r] = "idle" /\ pc' = [pc EXCEPT ![r] = to]
        /\ call' = [call EXCEPT ![r] = c]
        /\ floor' = [floor EXCEPT ![r] = snapshot.revision]
        /\ UNCHANGED <<publisherVars, processVars, newest>>
        /\ cache' = cache /\ answer' = answer
  BY DEF Authenticate, BeginMessages, Refuse, Arrive, Goto
<1>2. up
  BY <1>1 DEF IInv, TypeOK, Serving
<1>3. /\ Served = At(snapshot.revision) /\ Loadable(snapshot.revision)
      /\ snapshot.revision \in 1..Revision /\ Revision \in Nat
  BY <1>2, ServedIsCommitted
<1>4. /\ to = "refused" => key_meta' = key_meta /\ context' = context
      /\ to = "body" => /\ key_meta' = [key_meta EXCEPT ![r] = Served.keys_by_token[c.token]]
                         /\ context' = context
                         /\ c.endpoint # "messages" /\ Known(Served, c)
      /\ to = "precheck" =>
           /\ key_meta' = [key_meta EXCEPT ![r] = Served.keys_by_token[c.token]]
           /\ context' = [context EXCEPT ![r] = Served]
           /\ Known(Served, c) /\ Permitted(Served.keys_by_token[c.token], Served, c)
  <2>1. pc'[r] = to
    BY <1>1 DEF IInv, TypeOK
  <2>2. CASE Authenticate(r, c)
    BY <2>1, <2>2 DEF Authenticate, Arrive, Goto, IInv, TypeOK
  <2>3. CASE BeginMessages(r, c)
    BY <2>1, <2>3 DEF BeginMessages, Arrive, Goto, Admits, IInv, TypeOK
  <2>4. CASE Refuse(r, c)
    BY <2>1, <2>4 DEF Refuse, Arrive, Goto, IInv, TypeOK
  <2> QED
    BY <2>2, <2>3, <2>4
<1>5. /\ pc' \in [Request -> Stage] /\ call' \in [Request -> Call \cup {NoCall}]
      /\ floor' \in [Request -> 0..Revision]
      /\ pc'[r] = to /\ call'[r] = c /\ floor'[r] = snapshot.revision
  BY <1>1, <1>3 DEF IInv, TypeOK, Stage
<1>6. /\ DOMAIN answer' = Request /\ DOMAIN context' = Request /\ DOMAIN key_meta' = Request
      /\ \A q \in Request \ {r} :
           /\ pc'[q] = pc[q] /\ call'[q] = call[q] /\ key_meta'[q] = key_meta[q]
           /\ context'[q] = context[q] /\ answer'[q] = answer[q] /\ floor'[q] = floor[q]
  BY <1>1, <1>4 DEF IInv, RequestsAreExplained
<1>7. /\ to \in {"body", "precheck"} => key_meta'[r] = Served.keys_by_token[c.token]
      /\ to = "precheck" => context'[r] = Served
      /\ answer'[r] = None
  BY <1>1, <1>4 DEF IInv, RequestsAreExplained, Explained
<1>8. to \in {"body", "precheck"} => Authenticated(r, snapshot.revision)'
  BY <1>1, <1>3, <1>4, <1>5, <1>7, SameConfiguration DEF Authenticated
<1>9. to = "precheck" => Routed(r, snapshot.revision, snapshot.revision)'
  BY <1>1, <1>3, <1>5, <1>7, SameConfiguration DEF Routed
<1>10. Explained(r)'
  <2>1. snapshot'.revision \in Nat /\ snapshot' = snapshot
    BY <1>1, <1>3, SameConfiguration
  <2> QED
    BY <1>4, <1>5, <1>7, <1>8, <1>9, <2>1 DEF Explained
<1>11. pc'[r] \in {"precheck", "upstream", "answered"} =>
         Permitted(key_meta'[r], context'[r], call'[r])
  BY <1>4, <1>5, <1>7
<1> QED
  BY <1>1, <1>3, <1>5, <1>6, <1>10, <1>11, RequestStep

\* What is known of a request stays true on its way.
LEMMA StillKnown ==
  ASSUME NEW r \in Request, UNCHANGED <<publisherVars, processVars, newest>>,
         call' = call, key_meta' = key_meta, floor' = floor
  PROVE  /\ \A n : Authenticated(r, n) => Authenticated(r, n)'
         /\ context'[r] = context[r] =>
              \A n, m : Routed(r, n, m) => Routed(r, n, m)'
<1>1. /\ \A n : (Loadable(n)' <=> Loadable(n)) /\ At(n)' = At(n)
      /\ snapshot' = snapshot
  BY SameConfiguration
<1> QED
  BY <1>1 DEF Authenticated, Routed

\* The request that has its body gets its context.
LEMMA BeginStep ==
  ASSUME IInv, NEW r \in Request, Begin(r)
  PROVE  IInv'
<1>1. /\ pc[r] = "body" /\ pc' = [pc EXCEPT ![r] = "precheck"]
      /\ Permitted(key_meta[r], Served, call[r])
      /\ context' = [context EXCEPT ![r] = Served]
      /\ UNCHANGED <<publisherVars, processVars, newest>>
      /\ call' = call /\ key_meta' = key_meta /\ answer' = answer
      /\ floor' = floor /\ cache' = cache
  BY DEF Begin, Goto
<1>2. up /\ Serving
  BY <1>1 DEF IInv, TypeOK, Serving
<1>3. /\ Served = At(snapshot.revision) /\ Loadable(snapshot.revision)
      /\ snapshot.revision \in 1..Revision /\ Revision \in Nat
  BY <1>2, ServedIsCommitted
<1>4. pc'[r] = "precheck" /\ context'[r] = Served
  BY <1>1 DEF IInv, TypeOK, RequestsAreExplained
<1>5. PICK n \in Nat : Authenticated(r, n) /\ call[r].endpoint # "messages"
  BY <1>1 DEF IInv, RequestsAreExplained, Explained
<1>6. Authenticated(r, n)'
  BY <1>1, <1>5, StillKnown
<1>7. Routed(r, n, snapshot.revision)'
  <2>1. snapshot.revision \in n..snapshot.revision
    BY <1>3, <1>5 DEF Authenticated
  <2> QED
    BY <1>1, <1>3, <1>4, <1>5, <2>1, SameConfiguration DEF Routed
<1>8. Explained(r)'
  <2>1. answer'[r] = None
    BY <1>1 DEF IInv, RequestsAreExplained, Explained
  <2>2. snapshot'.revision \in Nat
    BY <1>1, <1>3, SameConfiguration
  <2> QED
    BY <1>4, <1>6, <1>7, <2>1, <2>2 DEF Explained
<1>9. /\ pc' \in [Request -> Stage] /\ call' \in [Request -> Call \cup {NoCall}]
      /\ floor' \in [Request -> 0..Revision]
      /\ call'[r] \in Call /\ floor'[r] \in 1..snapshot.revision
  BY <1>1 DEF IInv, TypeOK, Stage
<1>10. /\ DOMAIN answer' = Request /\ DOMAIN context' = Request /\ DOMAIN key_meta' = Request
       /\ \A q \in Request \ {r} :
            /\ pc'[q] = pc[q] /\ call'[q] = call[q] /\ key_meta'[q] = key_meta[q]
            /\ context'[q] = context[q] /\ answer'[q] = answer[q] /\ floor'[q] = floor[q]
  BY <1>1 DEF IInv, RequestsAreExplained
<1>11. Permitted(key_meta'[r], context'[r], call'[r])
  BY <1>1, <1>4
<1> QED
  BY <1>1, <1>2, <1>8, <1>9, <1>10, <1>11, RequestStep

\* A request with a context goes on to the upstream or to an answer that fits it.
LEMMA ServeStep ==
  ASSUME IInv, NEW r \in Request, NEW from \in {"precheck", "upstream"},
         NEW to \in {"upstream", "answered"},
         pc[r] = from, pc' = [pc EXCEPT ![r] = to],
         UNCHANGED <<publisherVars, processVars, newest>>,
         call' = call, key_meta' = key_meta, context' = context, floor' = floor,
         \/ answer' = answer
         \/ to = "answered" /\ answer' = [answer EXCEPT ![r] = Asked(context[r], call[r])],
         cache' = cache \/ CacheIsHonest'
  PROVE  IInv'
<1>1. Serving /\ answer[r] = None /\ pc'[r] = to
  BY DEF IInv, TypeOK, RequestsAreExplained, Explained
<1>2. PICK n \in Nat, m \in Nat : Authenticated(r, n) /\ Routed(r, n, m)
  BY DEF IInv, RequestsAreExplained, Explained
<1>3. Authenticated(r, n)' /\ Routed(r, n, m)'
  BY <1>2, StillKnown
<1>4. answer'[r] # None => to = "answered" /\ answer'[r] = Asked(context'[r], call'[r])
  BY <1>1 DEF IInv, RequestsAreExplained
<1>5. Explained(r)'
  BY <1>1, <1>3, <1>4 DEF Explained
<1>6. /\ pc' \in [Request -> Stage] /\ call' \in [Request -> Call \cup {NoCall}]
      /\ floor' \in [Request -> 0..Revision]
      /\ call'[r] \in Call /\ floor'[r] \in 1..snapshot.revision
      /\ Permitted(key_meta'[r], context'[r], call'[r])
  BY DEF IInv, TypeOK, Stage
<1>7. /\ DOMAIN answer' = Request /\ DOMAIN context' = Request /\ DOMAIN key_meta' = Request
      /\ \A q \in Request \ {r} :
           /\ pc'[q] = pc[q] /\ call'[q] = call[q] /\ key_meta'[q] = key_meta[q]
           /\ context'[q] = context[q] /\ answer'[q] = answer[q] /\ floor'[q] = floor[q]
  BY DEF IInv, RequestsAreExplained
<1> QED
  BY <1>1, <1>5, <1>6, <1>7, RequestStep

\* What the cache has for a request is the answer to its question.
LEMMA HitStep ==
  ASSUME IInv, NEW r \in Request, Hit(r)
  PROVE  IInv'
<1>1. /\ pc[r] = "precheck" /\ pc' = [pc EXCEPT ![r] = "answered"]
      /\ CacheKey(r) \in DOMAIN cache
      /\ answer' = [answer EXCEPT ![r] = cache[CacheKey(r)]]
      /\ UNCHANGED <<publisherVars, processVars, newest>>
      /\ call' = call /\ key_meta' = key_meta /\ context' = context
      /\ floor' = floor /\ cache' = cache
  BY DEF Hit, Goto, IsHit
<1>2. PICK n \in Nat, m \in Nat : Routed(r, n, m)
  BY <1>1 DEF IInv, RequestsAreExplained, Explained
<1>3. context[r] = At(m) /\ CacheKey(r) = cache_key_for_chat(At(m), call[r])
  BY <1>2 DEF Routed, CacheKey
<1>4. PICK i \in Nat, c \in Call :
        /\ CacheKey(r) = cache_key_for_chat(At(i), c)
        /\ cache[CacheKey(r)] = Asked(At(i), c)
  BY <1>1 DEF IInv, CacheIsHonest
<1>5. cache[CacheKey(r)] = Asked(context[r], call[r])
  <2>1. cache_key_for_chat(At(i), c) = cache_key_for_chat(At(m), call[r])
    BY <1>3, <1>4
  <2>2. Asked(At(i), c) = Asked(At(m), call[r])
    BY <2>1, KeyDeterminesQuestion
  <2> QED
    BY <1>3, <1>4, <2>2
<1> QED
  BY <1>1, <1>5, ServeStep

\* The upstream answers what it was asked, and that is what is cached.
LEMMA UpstreamAnswersStep ==
  ASSUME IInv, NEW r \in Request, UpstreamAnswers(r)
  PROVE  IInv'
<1> DEFINE asked == Asked(context[r], call[r])
<1>1. /\ pc[r] = "upstream" /\ pc' = [pc EXCEPT ![r] = "answered"]
      /\ answer' = [answer EXCEPT ![r] = asked]
      /\ cache' = IF LooksUp(r)
                  THEN [k \in DOMAIN cache \cup {CacheKey(r)} |->
                          IF k = CacheKey(r) THEN asked ELSE cache[k]]
                  ELSE cache
      /\ UNCHANGED <<publisherVars, processVars, newest>>
      /\ call' = call /\ key_meta' = key_meta /\ context' = context /\ floor' = floor
  BY DEF UpstreamAnswers, Goto
<1>2. PICK n \in Nat, m \in Nat : Routed(r, n, m)
  BY <1>1 DEF IInv, RequestsAreExplained, Explained
<1>3. /\ Loadable(m) /\ CacheKey(r) = cache_key_for_chat(At(m), call[r])
      /\ asked = Asked(At(m), call[r]) /\ call[r] \in Call
  BY <1>1, <1>2, BusyMeansUp DEF Routed, CacheKey
<1> HIDE DEF asked
<1>4. ASSUME LooksUp(r) PROVE CacheIsHonest'
  <2> SUFFICES ASSUME NEW k \in DOMAIN cache'
               PROVE  \E i \in Nat, c \in Call :
                        /\ Loadable(i)' /\ k = cache_key_for_chat(At(i)', c)
                        /\ cache'[k] = Asked(At(i)', c)
    BY DEF CacheIsHonest
  <2>0. \A i : (Loadable(i)' <=> Loadable(i)) /\ At(i)' = At(i)
    BY <1>1, SameConfiguration
  <2>1. CASE k = CacheKey(r)
    <3>1. cache'[k] = asked
      BY <1>1, <1>4, <2>1
    <3> QED
      BY <1>3, <2>0, <2>1, <3>1
  <2>2. CASE k # CacheKey(r)
    <3>1. k \in DOMAIN cache /\ cache'[k] = cache[k]
      BY <1>1, <1>4, <2>2
    <3> QED
      BY <2>0, <3>1 DEF IInv, CacheIsHonest
  <2> QED
    BY <2>1, <2>2
<1> QED
  BY <1>1, <1>4, ServeStep DEF asked

\* A request that is over leaves its slot empty.
LEMMA LeaveStep ==
  ASSUME IInv, NEW r \in Request, Leave(r)
  PROVE  IInv'
<1>1. /\ pc[r] # "idle" /\ pc' = [pc EXCEPT ![r] = "idle"]
      /\ call' = [call EXCEPT ![r] = NoCall] /\ key_meta' = [key_meta EXCEPT ![r] = None]
      /\ context' = [context EXCEPT ![r] = None] /\ answer' = [answer EXCEPT ![r] = None]
      /\ floor' = [floor EXCEPT ![r] = 0] /\ cache' = cache
      /\ UNCHANGED <<publisherVars, processVars, newest>>
  BY DEF Leave
<1>2. Serving /\ Revision \in Nat
  BY <1>1, LatestIsContent, MaxRevisionAssumption DEF IInv, TypeOK
<1>3. pc'[r] = "idle" /\ answer'[r] = None
  BY <1>1 DEF IInv, TypeOK, RequestsAreExplained
<1>4. Explained(r)'
  BY <1>3 DEF Explained
<1>5. /\ pc' \in [Request -> Stage] /\ call' \in [Request -> Call \cup {NoCall}]
      /\ floor' \in [Request -> 0..Revision]
  BY <1>1, <1>2 DEF IInv, TypeOK, Stage
<1>6. /\ DOMAIN answer' = Request /\ DOMAIN context' = Request /\ DOMAIN key_meta' = Request
      /\ \A q \in Request \ {r} :
           /\ pc'[q] = pc[q] /\ call'[q] = call[q] /\ key_meta'[q] = key_meta[q]
           /\ context'[q] = context[q] /\ answer'[q] = answer[q] /\ floor'[q] = floor[q]
  BY <1>1 DEF IInv, RequestsAreExplained
<1> QED
  BY <1>1, <1>2, <1>3, <1>4, <1>5, <1>6, RequestStep

\* Every step keeps the invariant.
LEMMA NextInv == IInv /\ [Next]_vars => IInv'
<1> SUFFICES ASSUME IInv, [Next]_vars PROVE IInv'
  OBVIOUS
<1>1. CASE Process
  BY <1>1, BootstrapStep, StartupStep, ExitStep DEF Process
<1>2. CASE Reload
  BY <1>2, ReloadStep
<1>3. CASE Write /\ UNCHANGED <<up, snapshot, processVars, newest, requestVars, cache>>
  BY <1>3, WriteStep
<1>4. ASSUME NEW r \in Request, Handle(r)
      PROVE  IInv'
  <2>1. CASE Forward(r)
    BY <2>1, ServeStep DEF Forward, Goto
  <2> QED
    BY <1>4, <2>1, ArriveStep, BeginStep, HitStep, UpstreamAnswersStep, LeaveStep DEF Handle
<1>5. CASE UNCHANGED vars
  <2>1. /\ UNCHANGED <<history, compactRevision, up, snapshot, stage, listening, newest, cache>>
        /\ UNCHANGED <<pc, call, key_meta, context, answer, floor>>
    BY <1>5 DEF vars, publisherVars, processVars, requestVars
  <2>2. EtcdTypeOK' /\ Revision' = Revision
    BY <2>1 DEF IInv, TypeOK, EtcdTypeOK, Revision
  <2>3. \A n : (Loadable(n)' <=> Loadable(n)) /\ At(n)' = At(n) /\ SnapshotOf(n)' = SnapshotOf(n)
    BY <2>1, <2>2 DEF Loadable, At, SnapshotOf, ContentAt
  <2>4. TypeOK' /\ ServesCommitted' /\ CacheIsHonest'
    BY <2>1, <2>2, <2>3 DEF IInv, TypeOK, Serving, ServesCommitted, CacheIsHonest
  <2>5. \A r \in Request : Explained(r)'
    BY <2>1, <2>3 DEF IInv, RequestsAreExplained, Explained, Authenticated, Routed
  <2> QED
    BY <2>1, <2>4, <2>5 DEF IInv, RequestsAreExplained
<1> QED
  BY <1>1, <1>2, <1>3, <1>4, <1>5 DEF Next

\* The invariant holds always.
LEMMA Invariance == Spec => []IInv
<1>1. Spec => Init /\ [][Next]_vars
  BY DEF Spec
<1> QED
  BY <1>1, InitInv, NextInv, PTL

\* The type invariant: listeners are there only while a snapshot is served, requests only
\* while the data plane listens, and past their authorization they may use their model.
THEOREM TypeCorrect == Spec => []TypeOK
<1>1. IInv => TypeOK
  BY DEF IInv
<1> QED
  BY <1>1, Invariance, PTL

\* Over reloads and restarts, what is served is never older than what was ever served.
THEOREM NeverGoesBack == Spec => []ServedInOrder
<1>1. IInv => ServedInOrder
  <2> SUFFICES ASSUME IInv, Serving PROVE snapshot.revision >= newest
    BY DEF ServedInOrder
  <2>1. up
    BY DEF IInv, TypeOK, Serving
  <2> QED
    BY <2>1, ServedIsCommitted DEF IInv, TypeOK, ServesCommitted
<1> QED
  BY <1>1, Invariance, PTL

\* Every answer comes from where a committed content sends the request, for a key that a
\* committed content grants the model, both not older than the request.
THEOREM AnswersComeFromConfiguration == Spec => []AnswersAreConfigured
<1>1. ASSUME IInv PROVE AnswersAreConfigured
  <2> SUFFICES ASSUME NEW r \in Request, answer[r] # None
               PROVE  /\ answer[r].content = request_signature(call[r])
                      /\ \E n, m \in floor[r]..Revision :
                           /\ n <= m /\ (call[r].endpoint = "messages" => n = m)
                           /\ Compile(ContentAt(n)) # HardError
                           /\ Compile(ContentAt(m)) # HardError
                           /\ Grants(ContentAt(n), call[r])
                           /\ Routes(ContentAt(m), call[r], answer[r])
    BY DEF AnswersAreConfigured
  <2>1. pc[r] = "answered" /\ answer[r] = Asked(context[r], call[r])
    BY <1>1 DEF IInv, RequestsAreExplained, Explained
  <2>2. up /\ call[r] \in Call /\ floor[r] \in 1..snapshot.revision
        /\ Permitted(key_meta[r], context[r], call[r])
    BY <1>1, <2>1, BusyMeansUp DEF IInv, TypeOK
  <2>3. snapshot.revision \in 1..Revision /\ Revision \in Nat
    BY <1>1, <2>2, ServedIsCommitted
  <2>4. PICK n \in Nat, m \in Nat : Authenticated(r, n) /\ Routed(r, n, m)
    BY <1>1, <2>1 DEF IInv, RequestsAreExplained, Explained
  <2>5. /\ n \in floor[r]..Revision /\ m \in floor[r]..Revision /\ n <= m
        /\ n \in 1..Revision /\ m \in 1..Revision
        /\ Compile(ContentAt(n)) # HardError /\ Compile(ContentAt(m)) # HardError
        /\ call[r].endpoint = "messages" => n = m
    BY <2>2, <2>3, <2>4 DEF Authenticated, Routed, Loadable
  <2>6. ContentAt(n) \in Content /\ ContentAt(m) \in Content
    BY <1>1, <2>5, LatestIsContent DEF IInv, TypeOK
  <2>7. Grants(ContentAt(n), call[r])
    <3> DEFINE tables == CompiledSnapshot(0, Compile(ContentAt(n)))
    <3>1. tables.keys_by_token = At(n).keys_by_token
      BY DEF At, CompiledSnapshot
    <3>2. Known(tables, call[r])
      BY <2>4, <3>1 DEF Authenticated, Known
    <3>3. call[r].model \in tables.keys_by_token[call[r].token].allowed_models
      BY <2>2, <2>4, <3>1 DEF Authenticated, Permitted
    <3> QED
      BY <2>2, <2>5, <2>6, <3>2, <3>3, CompileAssumption
  <2>8. Routes(ContentAt(m), call[r], answer[r])
    <3> DEFINE tables == CompiledSnapshot(0, Compile(ContentAt(m)))
    <3>1. /\ tables.models_by_name = At(m).models_by_name
          /\ tables.providers_by_id = At(m).providers_by_id
      BY DEF At, CompiledSnapshot
    <3>2. call[r].model \in DOMAIN tables.models_by_name
      BY <2>2, <2>4, <3>1 DEF Routed, Permitted
    <3>3. answer[r] = Asked(tables, call[r])
      BY <2>1, <2>4, <3>1 DEF Routed, Asked, Provider, ProviderId, Model
    <3> QED
      BY <2>2, <2>5, <2>6, <3>2, <3>3, CompileAssumption
  <2>9. answer[r].content = request_signature(call[r])
    BY <2>1 DEF Asked
  <2> QED
    BY <2>5, <2>7, <2>8, <2>9
<1> QED
  BY <1>1, Invariance, PTL

-----------------------------------------------------------------------------
(* The compiler *)

CONSTANT Undecodable

C == INSTANCE ConfigPrefixProofs WITH kv <- Latest, Bodies <- [k \in Key |-> BodyFor(k)]

\* What is taken for granted of Compile above holds of the compiler there is, for
\* keys of two segments and whatever bodies.
THEOREM CompilerIsHonest ==
  ASSUME NEW Collection, NEW Id, Key \subseteq Collection \X Id,
         NEW content \in Content, NEW c \in Call,
         C!compile_snapshot_from_entries(content, 0) # HardError
  PROVE  LET tables == CompiledSnapshot(0, C!compile_snapshot_from_entries(content, 0)) IN
         /\ Known(tables, c) /\ c.model \in tables.keys_by_token[c.token].allowed_models =>
              Grants(content, c)
         /\ c.model \in DOMAIN tables.models_by_name => Routes(content, c, Asked(tables, c))
<1> DEFINE compiled == C!compile_snapshot_from_entries(content, 0)
           tables == CompiledSnapshot(0, compiled)
<1>1. DOMAIN content = Key
  BY DEF Content
<1>2. /\ tables.keys_by_token = compiled.keys_by_token
      /\ tables.models_by_name = compiled.models_by_name
      /\ tables.providers_by_id = compiled.providers_by_id
  BY DEF CompiledSnapshot
<1>3. ASSUME Known(tables, c), c.model \in tables.keys_by_token[c.token].allowed_models
      PROVE  Grants(content, c)
  <2>1. c.token \in DOMAIN compiled.keys_by_token
    BY <1>2, <1>3 DEF Known
  <2>2. PICK k \in DOMAIN content :
          /\ k[1] = "apikeys" /\ content[k] # Absent /\ content[k].key = c.token
          /\ compiled.keys_by_token[c.token].allowed_models = content[k].allowed_models
    BY <2>1, C!KnownTokensAreStored
  <2> QED
    BY <1>1, <1>2, <1>3, <2>2 DEF Grants
<1>4. ASSUME c.model \in DOMAIN tables.models_by_name
      PROVE  Routes(content, c, Asked(tables, c))
  <2> DEFINE model == compiled.models_by_name[c.model]
             provider == compiled.providers_by_id[model.provider_id]
  <2>1. /\ model # Absent /\ model = content[<<"models", c.model>>]
        /\ provider # Absent /\ provider = content[<<"providers", model.provider_id>>]
    <3>1. \A k \in DOMAIN content : k = <<k[1], k[2]>>
      BY <1>1
    <3>2. c.model \in DOMAIN compiled.models_by_name
      BY <1>2, <1>4
    <3>3. LET t == C!compile_snapshot_from_entries(content, 0)
              m == t.models_by_name[c.model]
          IN  /\ m # Absent /\ m = content[<<"models", c.model>>]
              /\ m.provider_id \in DOMAIN t.providers_by_id
              /\ t.providers_by_id[m.provider_id] # Absent
              /\ t.providers_by_id[m.provider_id] = content[<<"providers", m.provider_id>>]
      BY <3>1, <3>2, C!PublishedRoutesAreStored
    <3> QED
      BY <3>3
  <2>2. /\ Asked(tables, c).base_url = provider.base_url
        /\ Asked(tables, c).model = model.upstream_model
    BY <1>2 DEF Asked, Provider, ProviderId, Model
  <2> QED
    BY <2>1, <2>2 DEF Routes
<1> QED
  BY <1>3, <1>4
=============================================================================
