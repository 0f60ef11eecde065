------------------------------- MODULE Gateway -------------------------------
(***************************************************************************)
(* The running gateway put together: etcd and its writers, the publisher   *)
(* (which SnapshotWatcher implements), the process from main to its end,   *)
(* and the requests on its data plane listener, over the rules of module   *)
(* PipelineRules.  The parts meet in the ArcSwap: the publisher stores the *)
(* snapshot there, and each request loads it when it needs it and keeps    *)
(* what it loaded.  A process that ends takes its requests, its cache and  *)
(* its snapshot with it; etcd and what clients remember stay.              *)
(*                                                                         *)
(* Of the handlers, what concerns the configuration is here; their usage   *)
(* counters and the ways to fail are in RequestPipeline, the rate limit in *)
(* RateLimit.  A slot of Request is used for one request after another.    *)
(***************************************************************************)
EXTENDS ConfigPublisher, PipelineRules

CONSTANTS
  None,
  Request,         \* slots for concurrent requests
  Call,            \* [endpoint, token, model, body, stream]
  listen_port, admin_port, admin_enabled   \* of the startup config

ASSUME ListenerAssumption ==
  listen_port \in Nat /\ admin_port \in Nat /\ admin_enabled \in BOOLEAN

VARIABLES
  stage,      \* of main: "down", "admin" (AdminState::from_startup_config), "serve"
  listening,  \* which listeners are bound
  pc,         \* where each request is
  call,       \* what its client sent
  key_meta,   \* ctx.key_meta
  context,    \* ctx.snapshot
  answer,     \* what it is answered
  cache,      \* MemoryCache
  floor,      \* ghost: the revision that was served when the request arrived
  newest      \* ghost: the highest revision ever served, by this process or another

processVars == <<stage, listening>>
requestVars == <<pc, call, key_meta, context, answer, floor>>
vars == <<publisherVars, processVars, newest, requestVars, cache>>

Stage == {"idle", "body", "precheck", "upstream", "refused", "answered"}

NoCall == [endpoint |-> None]

\* As far as the rules look at it.
CompiledSnapshot(revision, tables) ==
  [revision |-> revision,
   keys_by_token |-> tables.keys_by_token, models_by_name |-> tables.models_by_name,
   providers_by_id |-> tables.providers_by_id,
   model_cache_modes |-> tables.model_cache_modes,
   provider_cache_modes |-> tables.provider_cache_modes]

\* Slip: the handlers' state holds the tables it was built with, not the ArcSwap.
ServedSinceStart == CompiledSnapshot(snapshot.revision, Compile(ContentAt(1)))

\* What is in the ArcSwap.
Served == CompiledSnapshot(snapshot.revision, snapshot.tables)

Serving == "data" \in listening

Larger(m, n) == IF m > n THEN m ELSE n

Init ==
  /\ PublisherInit
  /\ stage = "down"
  /\ listening = {}
  /\ pc = [r \in Request |-> "idle"]
  /\ call = [r \in Request |-> NoCall]
  /\ key_meta = [r \in Request |-> None]
  /\ context = [r \in Request |-> None]
  /\ answer = [r \in Request |-> None]
  /\ floor = [r \in Request |-> 0]
  /\ cache = <<>>
  /\ newest = 0

-----------------------------------------------------------------------------
(* The process: main and bootstrap.  Every `?` on the way, like a crash later,
   is Exit. *)

Bootstrap ==
  /\ stage = "down"
  /\ Start
  /\ stage' = "admin"
  /\ newest' = Larger(newest, snapshot'.revision)
  /\ UNCHANGED <<listening, requestVars, cache>>

\* validate_server_listeners: the two listeners have ports of their own.
PortsApart ==
  admin_enabled => listen_port = 0 \/ listen_port # admin_port

AdminReady ==
  /\ stage = "admin"
  /\ PortsApart
  /\ stage' = "serve"
  /\ UNCHANGED <<publisherVars, listening, newest, requestVars, cache>>

\* serve_data_plane is polled first by try_join, and alone without an admin API.
BindData ==
  /\ stage = "serve" /\ listening = {}
  /\ listening' = {"data"}
  /\ UNCHANGED <<publisherVars, stage, newest, requestVars, cache>>

BindAdmin ==
  /\ admin_enabled
  /\ stage = "serve" /\ listening = {"data"}
  /\ listening' = {"data", "admin"}
  /\ UNCHANGED <<publisherVars, stage, newest, requestVars, cache>>

Exit ==
  /\ stage # "down"
  /\ Stop
  /\ stage' = "down"
  /\ listening' = {}
  /\ pc' = [r \in Request |-> "idle"]
  /\ call' = [r \in Request |-> NoCall]
  /\ key_meta' = [r \in Request |-> None]
  /\ context' = [r \in Request |-> None]
  /\ answer' = [r \in Request |-> None]
  /\ floor' = [r \in Request |-> 0]
  /\ cache' = <<>>
  /\ UNCHANGED newest

-----------------------------------------------------------------------------
(* Requests *)

Goto(r, from, to) == pc[r] = from /\ pc' = [pc EXCEPT ![r] = to]

\* A client's request reaches an idle slot and is handled under the snapshot of
\* the moment.
Arrive(r, c, to) ==
  /\ Serving
  /\ Goto(r, "idle", to)
  /\ call' = [call EXCEPT ![r] = c]
  /\ floor' = [floor EXCEPT ![r] = snapshot.revision]

\* AuthenticatedKey::from_request_parts.
Authenticate(r, c) ==
  /\ c.endpoint # "messages"
  /\ Arrive(r, c, "body")
  /\ Known(Served, c)
  /\ key_meta' = [key_meta EXCEPT ![r] = Served.keys_by_token[c.token]]
  /\ UNCHANGED <<publisherVars, processVars, newest, context, answer, cache>>

\* Slip: the handler does not check the key's models.
BeginUnauthorized(r) ==
  /\ Goto(r, "body", "precheck")
  /\ context' = [context EXCEPT ![r] = Served]
  /\ UNCHANGED <<publisherVars, processVars, newest, call, key_meta, answer, floor, cache>>

\* chat_completions and embeddings load the snapshot again once they have the body.
Begin(r) ==
  /\ Goto(r, "body", "precheck")
  /\ Permitted(key_meta[r], Served, call[r])
  /\ context' = [context EXCEPT ![r] = Served]
  /\ UNCHANGED <<publisherVars, processVars, newest, call, key_meta, answer, floor, cache>>

\* messages: one load for the key and the context.
Admits(served, c) ==
  /\ Known(served, c)
  /\ c.endpoint = "messages" => Permitted(served.keys_by_token[c.token], served, c)

BeginMessages(r, c) ==
  /\ c.endpoint = "messages"
  /\ Arrive(r, c, "precheck")
  /\ Admits(Served, c)
  /\ key_meta' = [key_meta EXCEPT ![r] = Served.keys_by_token[c.token]]
  /\ context' = [context EXCEPT ![r] = Served]
  /\ UNCHANGED <<publisherVars, processVars, newest, answer, cache>>

\* 401, and for messages 403 or 404 as well, on arrival.
Refuse(r, c) ==
  /\ Arrive(r, c, "refused")
  /\ ~Admits(Served, c)
  /\ UNCHANGED <<publisherVars, processVars, newest, key_meta, context, answer, cache>>

LooksUp(r) == cache_enabled_for_chat(context[r], call[r])

CacheKey(r) == cache_key_for_chat(context[r], call[r])

IsHit(r) == LooksUp(r) /\ CacheKey(r) \in DOMAIN cache

Hit(r) ==
  /\ Goto(r, "precheck", "answered")
  /\ IsHit(r)
  /\ answer' = [answer EXCEPT ![r] = cache[CacheKey(r)]]
  /\ UNCHANGED <<publisherVars, processVars, call, key_meta, context, floor, newest, cache>>

Forward(r) ==
  /\ Goto(r, "precheck", "upstream")
  /\ ~IsHit(r)
  /\ Executable(context[r], call[r])
  /\ UNCHANGED <<publisherVars, processVars, call, key_meta, context, answer, floor, newest, cache>>

UpstreamAnswers(r) ==
  LET asked == Asked(context[r], call[r]) IN
  /\ Goto(r, "upstream", "answered")
  /\ answer' = [answer EXCEPT ![r] = asked]
  /\ cache' = IF LooksUp(r)
              THEN [k \in DOMAIN cache \cup {CacheKey(r)} |->
                      IF k = CacheKey(r) THEN asked ELSE cache[k]]
              ELSE cache
  /\ UNCHANGED <<publisherVars, processVars, call, key_meta, context, floor, newest>>

\* The response is sent, an error takes its place at any stage, or the client goes.
Leave(r) ==
  /\ pc[r] # "idle"
  /\ pc' = [pc EXCEPT ![r] = "idle"]
  /\ call' = [call EXCEPT ![r] = NoCall]
  /\ key_meta' = [key_meta EXCEPT ![r] = None]
  /\ context' = [context EXCEPT ![r] = None]
  /\ answer' = [answer EXCEPT ![r] = None]
  /\ floor' = [floor EXCEPT ![r] = 0]
  /\ UNCHANGED <<publisherVars, processVars, newest, cache>>

Handle(r) ==
  \/ \E c \in Call : Authenticate(r, c) \/ BeginMessages(r, c) \/ Refuse(r, c)
  \/ Begin(r) \/ Hit(r) \/ Forward(r) \/ UpstreamAnswers(r) \/ Leave(r)

-----------------------------------------------------------------------------
Process == Bootstrap \/ AdminReady \/ BindData \/ BindAdmin \/ Exit

Reload ==
  /\ Publish
  /\ newest' = Larger(newest, snapshot'.revision)
  /\ UNCHANGED <<processVars, requestVars, cache>>

Next ==
  \/ Process
  \/ Reload
  \/ Write /\ UNCHANGED <<up, snapshot, processVars, newest, requestVars, cache>>
  \/ \E r \in Request : Handle(r)

\* The publisher's liveness is the only thing taken for granted: it is what the
\* watcher is checked to provide (Converges).
Spec == Init /\ [][Next]_vars /\ Converging

-----------------------------------------------------------------------------
\* The type invariant, with what ties the parts to each other: listeners are only
\* there while a snapshot is served (so /ready answers 200 only then), and
\* requests only while the data plane listens.
TypeOK ==
  /\ EtcdTypeOK
  /\ stage \in {"down", "admin", "serve"} /\ (up <=> stage # "down")
  /\ up <=> snapshot # NoSnapshot
  /\ listening \in {{}, {"data"}, {"data", "admin"}} /\ (listening # {} => stage = "serve")
  /\ pc \in [Request -> Stage] /\ call \in [Request -> Call \cup {NoCall}]
  /\ floor \in [Request -> 0..Revision] /\ newest \in 0..Revision
  /\ \A r \in Request :
       /\ pc[r] # "idle" => Serving /\ call[r] \in Call /\ floor[r] \in 1..snapshot.revision
       /\ pc[r] \in {"precheck", "upstream", "answered"} =>
            Permitted(key_meta[r], context[r], call[r])

\* What the prefix itself, without the compiler, says a token may use and where a
\* model's calls go.
Grants(content, c) ==
  \E k \in Key :
    /\ k[1] = "apikeys" /\ content[k] # Absent
    /\ content[k].key = c.token /\ c.model \in content[k].allowed_models

Routes(content, c, asked) ==
  LET model == content[<<"models", c.model>>] IN
  /\ model # Absent
  /\ content[<<"providers", model.provider_id>>] # Absent
  /\ asked.base_url = content[<<"providers", model.provider_id>>].base_url
  /\ asked.model = model.upstream_model

\* The compiler grants and routes what the content does, and nothing else.
ASSUME CompileAssumption ==
  \A content \in Content, c \in Call :
    LET tables == CompiledSnapshot(0, Compile(content)) IN
    Compile(content) # HardError =>
      /\ Known(tables, c) /\ c.model \in tables.keys_by_token[c.token].allowed_models =>
           Grants(content, c)
      /\ c.model \in DOMAIN tables.models_by_name => Routes(content, c, Asked(tables, c))

\* Whatever is written, reloaded, cached and restarted while requests wait, an
\* answer comes from where a committed configuration sends the request, for a key
\* that a committed configuration grants the model, neither of them older than
\* what was served when the request arrived, the route not older than the grant,
\* and both of one revision for the messages endpoint.
AnswersAreConfigured ==
  \A r \in Request :
    answer[r] # None =>
      /\ answer[r].content = request_signature(call[r])
      /\ \E n, m \in floor[r]..Revision :
           /\ n <= m /\ (call[r].endpoint = "messages" => n = m)
           /\ Compile(ContentAt(n)) # HardError /\ Compile(ContentAt(m)) # HardError
           /\ Grants(ContentAt(n), call[r])
           /\ Routes(ContentAt(m), call[r], answer[r])

\* Configuration never goes back for clients, over reloads and restarts: what is
\* served is not older than what this process or one before it ever served.
ServedInOrder == Serving => snapshot.revision >= newest

\* A step of a request that decides by the configuration decides by the latest one.
DecidesByLatest(r) ==
  Compile(Latest) # HardError =>
    /\ pc[r] = "idle" /\ pc'[r] # "idle" =>
         (pc'[r] = "refused" <=> ~Admits(Compile(Latest), call'[r]))
    /\ pc[r] = "body" /\ pc'[r] = "precheck" =>
         context'[r] = CompiledSnapshot(context'[r].revision, Compile(Latest))

\* A change of access takes effect: if the process stays up and the prefix comes to
\* rest in a content that compiles, from some moment on requests are let in, turned
\* away and routed as that content says, whatever requests, caches and reloads
\* there were before.
AccessConverges ==
  (<>[]Serving /\ <>[](Compile(Latest) # HardError)) =>
    <>[][\A r \in Request : DecidesByLatest(r)]_vars
=============================================================================
