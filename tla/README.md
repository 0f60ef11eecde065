# A TLA+ model of the AISIX gateway

The repository is a Rust gateway in front of LLM providers. This directory models
it from the entries in etcd to the bytes a client reads: what the gateway makes of
its configuration, how it keeps up with it while serving, how it limits requests,
how a request passes through its handlers, its response cache and its usage
counters, how requests and answers are translated between two APIs, whole and
streamed, how the Admin API writes, and how these run together in one process that
may end and start again. TLC checks the models on small instances; TLAPS proves every
safety property they have for every value of the constants. Paths below are relative
to `src/crates/` unless they start with `src/`.

## The system

| Component | State | Operations | Talks to |
|---|---|---|---|
| Compiler and loader (`aisix-config/src/compile.rs`, `loader.rs`) | none | decode entries, check ids and tokens, skip what dangles, resolve limits and cache modes | called by the watcher |
| Snapshot watcher (`aisix-config/src/watcher.rs`) | published snapshot (`ArcSwap`), applied revision, watch stream | initial load, watch, drain a burst, reload, retry | etcd; readers of the `ArcSwap` |
| etcd wrapper (`aisix-config/src/etcd.rs`) | none (the store is etcd) | load_prefix, watch_prefix, put/get/list/delete | etcd |
| Rate limiting (`aisix-ratelimit`) | in-flight counts, shadow windows | precheck, guard drop | Redis counters; the handlers |
| Redis client, counters (`aisix-storage`) | local totals | INCR with EXPIRE, INCRBY | Redis |
| Handlers and pipeline (`aisix-server/src/handlers`, `pipeline`) | request context | chat, embeddings, messages | all of the above, the upstream |
| Response cache (`aisix-cache`, `pipeline/cache.rs`) | map from key to answer | decide, look up, store | the handlers |
| Usage recording (`aisix-spend`) | counters | record_success | the handlers |
| Provider codecs (`aisix-providers`) | none | build requests, JSON and streamed calls, SSE normalisation | upstreams |
| Request forms (`aisix-types`) | none | chat and Messages requests into one canonical request; errors | the handlers, the codecs, the cache's key |
| Anthropic protocol (`aisix-server/src/protocol`) | stream rendering state | parse, render | the handlers |
| Admin API (`aisix-server/src/admin`) | a mutex around the store | put, get, list, delete | etcd |
| Bootstrap (`aisix-runtime`, `src/bin/aisix-gateway/src/main.rs`, `app.rs`) | listeners | load, check the ports, bind, serve, end | all |
| Health, UI, OpenAPI document, observability | none that others read | answer by constants, serve static files, log | |

What is hard in it:

- **The watcher** follows a store that moves between any two of its awaits.
  Events only say that something changed; the reload reads the latest content on
  a connection of its own. Errors, compaction and contents that do not compile
  all lead to a retry from the last applied revision. Right means: never serve
  what was not committed, never go back, never wait while stale, and converge.
- **The compiler** cascades skips over three levels of references while other
  errors fail the load. Right means: publish exactly what can serve.
- **The limiters** are shared by requests on several threads that may be dropped
  at any await, under configurations that change in between, with a Redis that
  may be silent, slow or forgetful. Right means: no slot is leaked or doubled and
  no limiter admits more than it should.
- **The handlers** load the snapshot once or twice, wait on clients, Redis and
  upstreams, and share one cache across configurations. Right means: the answer
  is the upstream's to this request under its own snapshot, and is counted once.

- **The stream codecs** translate twice, between APIs with different vocabularies,
  from upstreams that may stop anywhere. Right means: text, reason and counts
  arrive as they were sent, and what is billed is what is said.
- **The message codecs** take two kinds of request apart, keep what the canonical
  form has room for and put it together again for two kinds of upstream. Right
  means: what is said arrives, in order and in its role, and the cache tells apart
  whatever the upstream is told apart.
- **The Admin API** queues its calls behind one mutex held over an await of etcd,
  while clients go away. Right means: what is acknowledged is committed, nothing
  answered is stale, nobody waits for a handler that has gone, and what the API
  lets in the loader can load.
- **The process** starts from whatever etcd holds, and a crash loses snapshot,
  cache and requests but neither etcd nor what clients were told. Right means: no
  process serves an older configuration than any before it, every answer was granted
  and routed by committed configurations, and a change of access takes effect.

`PROJECT.json` lists the components with their sources and what is left out of
each, and the hazards with the line each bites at.

## The modules

| Module | Models |
|---|---|
| `ConfigCompile` | the compiler and loader as operators: `compile_snapshot_from_entries(kv, revision)` from etcd content to tables or `HardError` |
| `ConfigPrefix` | the prefix under writers who create, overwrite and delete entries in any order; what is compiled of every content |
| `EtcdStore` | etcd as the gateway sees it: revisions, prefix events, compaction; the writers are the Admin API and anyone else |
| `ConfigPublisher` | the abstract promise: what is served is the compilation of a committed content, a start serves the latest, revisions do not go back, a content that stays gets served |
| `SnapshotWatcher` | the watcher task, one action per await; implements `ConfigPublisher` |
| `RateLimit` | `precheck`, the guard's drop, Redis, the shadow window, the clock |
| `PipelineRules` | what the handlers ask of one snapshot about one call: rights, routes, cache decision and cache key |
| `RequestPipeline` | the three handlers, cache and usage, while snapshots are published |
| `Gateway` | the composition: etcd, publisher, the process from `main` to its end, requests and cache |
| `JsonValues` | what the codecs of bodies and of streams share: missing values, what is not JSON, counts of tokens |
| `MessageCodecs` | the translations of requests, JSON answers and errors as operators |
| `RequestTranslation` | calls one after another through `MessageCodecs`, the upstream and the cache |
| `SseCodecs` | the stream translations as operators: both normalisers, one operator per kind of frame, and the rendering for Messages clients |
| `StreamRelay` | one streamed request: any upstream body, frame by frame, to the answer |
| `AdminService` | the abstract promise: one table on which each call is carried out at one moment or not at all |
| `AdminStore` | the Admin API's handlers, their mutex and their etcd calls; implements `AdminService` |
| `MC*` | instances for TLC |
| `ConfigPrefixProofs`, `EtcdStoreProofs`, `SnapshotWatcherProofs`, `RateLimitProofs`, `RequestPipelineProofs`, `GatewayProofs`, `AdminStoreProofs`, `TranslationProofs` | theorems |

How they are put together:

- `SnapshotWatcher`, `ConfigPublisher` and `AdminStore` each EXTEND `EtcdStore`. The
  watcher and the publisher take the compiler as a constant operator;
  `MCSnapshotWatcher` and `MCGateway` give them `ConfigCompile`'s.
- `SnapshotWatcher` instantiates `ConfigPublisher` as `Publisher`, with `up` replaced
  by whether the task is past its first load and the other variables by those of the
  same name. `ImplementsPublisher` is `Publisher!PublisherSafety` and `Converges` is
  `Publisher!Converging`: the two halves of `PublisherSpec`.
- `Gateway` EXTENDS `ConfigPublisher` and `PipelineRules`. Since the watcher
  implements the publisher, what holds of the gateway over the one holds over the
  other, and the gateway's state space does not multiply with the watcher's.
- `MessageCodecs` and `SseCodecs` EXTEND `JsonValues`, so that whole answers and chunks
  are billed by one `extract_usage`, as the two functions of that name in the code do the
  same. `StreamRelay`'s specification has names of its own (`RelayInit`, `RelayNext`,
  `RelaySpec`), since `TranslationProofs` EXTENDS it together with `RequestTranslation`.
- `RequestPipeline` and `Gateway` both use `PipelineRules`. There the content of a
  request is one opaque value; `MessageCodecs` spells it out, and
  `HitsAnswerTheirQuestion` shows that the cache may take it for one.
- `MCRequestPipeline` compiles its two snapshots with `ConfigCompile`, so the tables
  the handlers read are tables the compiler makes.
- `AdminStore` instantiates `AdminService` as `Service` with `content <- Latest`; the
  phase, the effect and what a client is told are defined from the handler's state,
  the wire and the recorded result.

Each action that has a plausible slip is preceded by an operator with the slip in
it (commented "Slip"); the mutation table of `PROJECT.json` replaces the one by
the other and expects the named property to fail.

### Correspondence with the code

*ConfigCompile.* Lists are sets (order only affects which duplicate wins, and
duplicates are errors: `compile.rs:28-32`). A key outside the prefix, with a
wrong number of segments or of an unknown collection is one whose collection is
not among the four. `LargestClosedSubset` compares the three loops with a
definition that has no loops. `ConfigPrefix` has the content as its only variable:
`Put` and `Delete` are what the Admin API, etcdctl or a script may do to one entry.

*SnapshotWatcher.* `pc` is the await the task is at:

| `pc` | code |
|---|---|
| `boot` | `load_initial_snapshot` in `bootstrap` |
| `exited` | `main` returned the error |
| `connect` | `EtcdStore::connect` and `watch_prefix` in `watch_once` |
| `receive` | `stream.message()` in `watch_once` |
| `drain` | `select!` of `drain_watch_burst` |
| `load` | `connect` and `load_prefix` of `reload_snapshot_and_revision` |
| `publish` | compile and the two stores after it (no await) |
| `sleep` | the second of sleep in `spawn_snapshot_watcher` |

`stream.next` is the first revision not yet delivered. `Deliver` takes any number
of revisions with at least one event in them, which covers every way etcd may
batch. `Fail` is every `?` that returns to the retry loop.

*Gateway.* `stage` is how far `main` has come: `down`, `admin` (the admin state is
being made), `serve`. `Bootstrap` is `load_initial_snapshot` and what `main` does
with it, `PortsApart` the check of the two ports, `BindData` and `BindAdmin` the two
futures of `try_join` in the order in which they are polled. `Exit` is every `?` on
the way, either listener's error and a crash: it forgets snapshot, cache and
requests. `floor` and `newest` are ghosts for what a client saw when it called and
for what any process ever served. A request's stages are `RequestPipeline`'s without
the usage counters; `Leave` frees the slot at any stage, for whatever reason.

*RateLimit.* `pc` is where a request is inside `precheck` and after it: `new`,
`connect` (to Redis), `reply` (reading), `lock` (before the shadow mutex),
`serving`, `unwinding` (a refusal that still holds the guard), `ended`. An INCR
on the wire is a step of the server's, which may happen after its request has
gone. `verdict` and `reply` of an ended request are kept as ghosts, so that what
was admitted can be counted.

*RequestPipeline.* `body` is the await of the body extractor, reached after
`AuthenticatedKey`; `precheck` the rate-limit await; `upstream` the codec's;
`input` and `output` the Redis awaits after each counter. `messages` loads one
snapshot for authentication and context, chat and embeddings load two. Snapshots
are a sequence in the order they are published.

*MessageCodecs, RequestTranslation.* A content is a string or a list of parts, each
with words; joining parts and joining texts by a blank line are one operation on
sequences of words, as they are in the code. A canonical request keeps what
`CanonicalRequest` keeps: for chat the raw messages beside the split ones, and no
parameters, as `ChatRequest` has none. `build_upstream_request` is
`OpenAiBody` or `AnthropicBody`. `RequestTranslation` has one call at a time, since
the translations share nothing but the cache; two in a row are enough for a hit.
The `Json` branch of `stream_chunk::proxy` is `UpstreamAnswers`, which stores before
it renders.

*SseCodecs, StreamRelay.* The codec reads the whole body and then loops over its
frames; nothing reaches the client before the end. So a body is chosen frame by
frame, each with the iteration that handles it, and `Respond`, which is always
enabled, is the end of the body: a body that breaks off is as ordinary as a whole
one. `normal` holds the loop's locals. A frame is what its JSON says; a frame
without data lines and one the loop does not know change nothing. The answer for a
Messages client is built from the rendered chunks, parsed once more; since every
one of them was serialised a moment before, that parse is the identity on chunks
and is left out. `Read` is a reader of either API, written from the meaning of the
streams and not from the codecs; the properties compare what it understands of the
upstream's body with what it understands of the answer.

*AdminStore.* `pc` is `lock` at `self.etcd.lock().await` and `etcd` at the client
call after it. A call that was sent is carried out by `ExecuteRead` or
`ExecuteWrite` whether its handler is still there or not (`Fail` and `Cancel` leave
it on the wire). `Valid` is the handlers'
checks in one: schema and serde are two ways to be `Malformed`. The four
collections have the same handlers, which differ in the type they decode.

## The runs

| Run | Asks | Result |
|---|---|---|
| `config_compile` | does the compiler publish the largest closed set, name tokens unambiguously, and leave existing resources alone on a creation? | holds; 2,592 contents |
| `watcher` | is what is served committed and fresh when waiting, is the watcher a publisher, and does a prefix that comes to rest get served? | holds; 64,772 states |
| `rate_limit` | are slots exact, and does each limiter keep its limit? | holds; 577,886 states |
| `layered_limits` | is a provider's limit a limit of the provider? | refuted |
| `redis_hang` | is a request decided whatever Redis does? | refuted |
| `pipeline` | is each request answered its own question and billed once? | holds; 1,064,672 states |
| `gateway` | over reloads, caching, crashes and restarts: is every answer configured, does configuration never go back, does a change of access take effect? | holds; 202,480 states |
| `requests` | does the upstream get the question, does a chained gateway understand it, do hits answer their question, does the client get the answer? | holds; 48,702 states |
| `streams` | do text, reason and counts arrive, and is what is told billed? | holds; 1,271,924 states |
| `admin` | is the API one atomic table, is what is acknowledged committed and current, does everyone get a turn, can the API block reloads? | holds; 220,609 states |
| `one_snapshot` | does a request use one snapshot? | refuted |
| `hits_billed` | is a cache hit free? | refuted |

Bounds, and why they are enough for what they ask:

- `config_compile`: nine keys with one or two bodies each, chosen so that every
  test of the compiler is decided both ways, alone and in cascade; the bodies
  include a token clash across keys, an id that differs from its key, a body that
  does not decode, and a key of a sibling prefix.
- `watcher`: `MaxRevision = 4` and `MaxRestarts = 1`. Four revisions hold a
  write before the load, one during the drain, one between load and publish and
  one after. Two API keys give contents that compile, that fail on a duplicate
  token, and that skip a resource (a key with a model that is not there). Any number
  of compactions, failures and retries.
- `rate_limit`: three requests is the least with which two can race for the last
  slot or window while a third interferes; two minutes for the window to turn;
  one loss of a Redis counter. The calls are one key before and after a reload
  that lowers its limits or removes it.
- `layered_limits`, `redis_hang`: two requests; a counterexample needs no more.
- `pipeline`: three requests, two snapshots between which the provider moves and
  two keys change; seven calls over the three endpoints. All requests have one
  body: a cache that confuses bodies would have to build a key without one, and
  `requests` has bodies of all shapes.
- `gateway`: `MaxRevision = 3` holds two changes after the start, the least with
  which an answer can be granted by one revision, routed by the next and be put into
  the cache beside a third; the key is created, deleted and garbled, the provider
  moves, the model is deleted. Two slots, used any number of times, and any number of
  crashes. One call that is cached and authenticated in two steps (chat) and one that
  is neither (a streamed message).
- `requests`: two calls, the second of which can find the first's answer. Eleven
  chat conversations and eight for Messages (instructions in front and in between,
  strings, parts, parts that join to a string said elsewhere, names, tool messages,
  images), five forms of the system field besides none, every parameter alone and
  all at once, requests without a version or with an unsupported field; six answers.
- `streams`: five frames are a start, two pieces of text, a reason and an end, or
  four of them and a stray one anywhere. Nine chunks and twelve events, with and
  without each field the codecs read.
- `admin`: three calls of nine kinds in every combination (requests are alike, so
  each combination is there once), on two initial contents. Two calls race for the
  mutex while a third, given up, is still on the wire. `MaxRevision = 5` is never
  reached by three writes.

Deadlock is checked in `config_compile` only. Elsewhere the system may really stop:
the watcher after a failed start with no restarts left (and, at the bound, with no
writes left), the gateway when nothing that compiles is stored, and the calls of the
other runs once each has ended.

Symmetry (over requests) is used in `rate_limit` and `pipeline`, which check no
liveness.

### Fairness

`SnapshotWatcher!FairSpec`: tokio polls what is ready, so timers fire and
`publish`, which awaits nothing, completes (weak fairness). Steps that depend on
the network (`Connect`, `ReceiveEvents` or the compaction notice, the end of a
drain, `Load`) have failing twins, so they get strong fairness: a network that
fails forever at one place promises nothing. Failures, writes and compactions
have none. `Converges` also assumes that the process stays up and the content
comes to rest in one that compiles.

`RateLimit!FairSpec`: only steps whose waiting ends by itself are fair: acquiring,
the connect (it has a timeout of 250 ms, `redis_pool.rs:41,69-71`), a reply that
is there, a connection that broke, the mutex, a return. Nothing obliges Redis to
answer, and the code has no timeout there; `redis_hang` shows what follows.

`Gateway!Spec` assumes `Converging` and nothing else: the promise that the `watcher`
run checks of the watcher. Requests have no fairness, so `AccessConverges` says what
a step of a request does when it is taken, not that it is. It assumes that the
process stays up and that the prefix comes to rest in a content that compiles.

`AdminStore!AdminFairness`: handlers that can go on do, and an etcd call is carried
out or fails. The calls have no timeout, so the second half is a hypothesis about
etcd and the connection; cancellation has no fairness.

## What is proved

For every value of the constants that satisfies the named assumptions (finite
sets of requests, limits that are numbers or absent, keys of two segments):

- `ConfigPrefixProofs`: `PublishesTheLargestClosedSubset`,
  `TokensAreUnambiguous` and `CreationIsHarmless` (the three properties of
  `config_compile`), for every set of keys and bodies. There is no induction over the
  content: references have four levels (a policy refers to nothing, a provider to
  a policy, and so on), so a closed set is compared with the tables level by level.
  `KnownTokensAreStored` and `PublishedRoutesAreStored` say that what the tables grant
  and route is stored; the other proofs cite them instead of the compiler.
- `EtcdStoreProofs`: the lemmas on revisions and writes that the watcher's users share.
- `SnapshotWatcherProofs`: `TypeCorrect`, `PublishedWasCommitted`
  (`SnapshotIsCommitted`), `NeverWaitsStale` (`WaitingMeansFresh`) and
  `WatcherImplementsPublisher` (`ImplementsPublisher`). The invariant adds to the
  properties that a stretch without events leaves the content as it was, that a
  load in hand is a committed content which is not older than what is served and
  has seen every event the stream delivered, that the two stores of a reload
  agree, and that a task waiting on its stream has nothing delivered and
  unapplied. Without these `WaitingMeansFresh` is not inductive: the load in hand
  carries the obligation from an event to the snapshot.
- `RateLimitProofs`: `TypeCorrect`, `NoSlotLeaks` (`InFlightCountsGuards`),
  `ConcurrencyHolds` (`AdmittedUnderLimit`), `RedisHolds`
  (`RedisAdmitsAtMostLimit`) and `ShadowHolds` (`ShadowOvershootBounded`). The first
  is inductive with the types; the second follows from it at the moment of the grant
  and is kept as guards only go away; the third rests on each reply having a count of
  its own within a counter's life, so that requests admitted under a limit map
  one-to-one into `1..limit`. The last rests on `WindowsForget`: of the admissions of
  a minute under a limit of at most L, all but those the window still counts were
  forgotten, at most L for each request that was checked under another minute.
- `RequestPipelineProofs`: `TypeCorrect`, `CacheAnswersHonestly`
  (`OwnUpstreamAnswer`) and `EachAnswerBilledOnce` (`BilledOnce`). The invariant of the
  first two adds that every cache entry was stored for
  some call under some snapshot with the entry's key; since a key contains the
  revision and revisions are distinct, equal keys mean equal questions
  (`KeyDeterminesQuestion`). That revisions are distinct is an assumption here and a
  consequence in `Gateway`, where snapshots come from the publisher. For the third,
  `RecordedInv` adds that a request between its counters has been answered with the
  usage its context holds (`Recorded`), without which the second counter could add
  anything, and keeps the three sums of a key apart (`Balanced`): the inputs of all its
  answers, the outputs that may be counted and those that are. A step moves one request,
  so each sum changes by that request's share and the rest of it stays (`OneShare`,
  `Sums`). The lemmas on sums over finite sets (`SumChosen`, `SumRemove`, `SumSame`) are
  proved here from the definition of `SumFunction` in the community modules.
- `GatewayProofs`: `TypeCorrect`, `NeverGoesBack` (`ServedInOrder`) and
  `AnswersComeFromConfiguration` (`AnswersAreConfigured`). The invariant says of each
  request which revision its key is of and which its route (`Authenticated`,
  `Routed`, `Explained`) and of each cache entry which question it answers
  (`CacheIsHonest`); a restart makes all of it vacuous but `newest`, which only a
  start from the latest content respects. The last step from tables to contents is
  `CompileAssumption`, and `CompilerIsHonest` proves that assumption of the compiler
  in `ConfigCompile`.
- `AdminStoreProofs`: `TypeCorrect`, `ChangesAreCommitted`
  (`AcknowledgedMeansCommitted`), `ReadersAreCurrent` (`ReadsAreCurrent`),
  `AcceptedCanBeLoaded` (`OnlySharedTokensBreakTheLoad`) and `AdminImplementsService`
  (`ImplementsService`). The invariant orders a call's stages and its wire
  (`CallsInOrder`), ties answers to results (`AnswersAreResults`) and results to a
  revision after the call (`ResultsAreHistory`); the fourth theorem adds that every
  entry decodes if the first content's did (`EntriesDecode`). In the refinement a
  call takes effect when etcd carries it out, also when its handler has gone.

- `TranslationProofs`, about whole bodies: `TypeCorrect`, `QuestionsArrive`
  (`QuestionReachesUpstream`), `ChainUnderstands` (`ChainedGatewayUnderstands`),
  `HitsAreAnswers` (`HitsAnswerTheirQuestion`) and `AnswersArrive`
  (`AnswerReachesClient`), for conversations of any length and whatever upstreams answer.
  `CallsInv` ties each local of a call to what it was computed from (the canonical
  request to the client's, what was sent to the canonical request, the answer to the
  upstream's answer or to the cache entry it came from) and says of every cache entry
  that some request with that key was answered so (`Honest`); with that the five
  properties are facts about the operators of `MessageCodecs`. The lemmas on
  `At` and `FlattenSeq` over sequences joined carry the order of messages through
  taking instructions and turns apart and putting them together again.
- `TranslationProofs`, about streams: `RelayTypeCorrect`, `TextArrives`
  (`TextReachesClient`), `FinishArrives` (`FinishReachesClient`), `BilledAsTold`
  (`BilledIsTold`) and `ChainAgrees` (`ChainedGatewayAgrees`), for bodies of any length
  (`MaxFrames` is any bound). `RelayInv` says what the normaliser's locals are in terms of
  the frames so far: for an OpenAI upstream the events are the frames, for an Anthropic
  one the texts, the last reason and the merged counts are collected, and from the first
  `message_stop` on the events begin with the whole answer (`AnthropicSide`). None of the
  properties is inductive without it, since they speak of the answer and the locals decide
  it. `RenderedIsMessage` writes a rendered answer down as one list of events, and
  `MessageReadBack` follows the second gateway's normaliser through that list.

The inductions over naturals, sequences and finite sets that these two modules need are
lemmas of their own (`SetInduction`, `AppendInduction`): the property is given as a set
and the step is `WFMin` of the library, whose induction theorems with an operator
parameter no installed prover can instantiate. The loop of the Anthropic normaliser and
`At` (a `SelectSeq` by place) are recursive functions for that reason.

Assumed of the data, in the modules that declare the constants: `None` is no number, word
or field (`NoneAssumption`, `FieldsAssumption`, `FieldAssumption`, and `AnswerAssumption`
of `RequestPipeline`); a request has the fields its endpoint's parser leaves
(`RequestAssumption`), a frame those of its kind (`OpenAiAssumption`,
`AnthropicAssumption`); an upstream of one API does not use the other's word for the token
limit (`max_tokens`, `length`), without which a reason would be translated twice. The
instances that TLC runs satisfy all of them.

Only model-checked: everything under fairness, which is `Converges`, `AccessConverges` and
`EveryCallEnds`.

## Where the documents and the code differ

Four runs refute what a document says (`findings` in `PROJECT.json`): layered
limits, the Redis fallback, one snapshot per request, hits that cost nothing. Met while reading and
modelled as the code has them, without a run:

- cache hits pass the rate limit (`handlers/chat.rs:25-32`), which
  `src/docs/architecture.md:460` says they skip;
- a token-per-minute limit is resolved and never enforced;
- the cache has no TTL and no bound (`aisix-cache/src/memory.rs`), the documents
  describe both;
- `*` in `allowed_models` is no wildcard (`aisix-policy/src/access.rs`); the
  compiler skips such a key for a missing model;
- upstream calls have no timeout (`aisix-providers/src/openai_compat.rs`);
- the debounce is 50 ms (`watcher.rs:128`), the hot-reload page says 250-500 ms.

Met in the codecs, without a run, as what is right is not said in one place:

- chat completions lose `temperature`, `max_tokens` and every other parameter on their
  way in (`aisix-types/src/request.rs`): an OpenAI upstream gets none, an Anthropic
  one always `max_tokens` 1024, and a gateway behind a gateway loses the parameters
  of Messages clients (`ChainedGatewayUnderstands` excepts them);
- an embeddings request keeps model and input only; `top_k` is dropped for OpenAI
  upstreams and `user` for Anthropic ones; `temperature` and `top_p` go through 32 bits;
- the Messages endpoint refuses fields it does not know
  (`reject_unsupported_top_level_fields`), of which the ingress design in
  `src/docs/superpowers` lists some to be accepted with best effort;
- a cache hit is always answered with status 200, whatever success filled it.

Met in the stream codecs and the Admin API, where no document says what is right;
the properties state their limits:

- a Messages client is sent a finished message (`message_stop`, `stop_reason` null)
  when the upstream broke off; an Anthropic upstream that breaks off before
  `message_stop` loses all its text, and its usage is billed
  (`TextReachesClient` claims visibility for chat clients only);
- a second `message_stop` sends all text again, which only Messages clients read;
- of several usage chunks the first is billed (`BilledIsTold` assumes one);
- `stop_sequence` becomes `stop` and then `end_turn`;
- a model name is put into `message_start` without JSON quoting;
- the Admin API accepts two keys with one token, which blocks every later reload
  until one is changed (`src/README.md:48` allows for it; the only such way, by
  `OnlySharedTokensBreakTheLoad`).

## What is not modelled

- Observability: logs and metrics, on which no state of the gateway depends.
- The admin UI (`aisix-server/ui/app.mjs`), browser code in front of the Admin API.
  It has races of its own (answers of list and editor calls that overtake each other,
  `app.mjs:1042-1067`, `:1256-1299`, `:1366-1417`), which show stale rows and change
  nothing that is stored. The OpenAPI document is static.
- The startup file and its parsing, CORS, what axum answers to a body that is not
  JSON, upstream addresses and authentication headers, the wording of errors.
- The RESP encoding, and the counters INCRBY keeps in Redis, which the gateway never
  reads.
- In `Gateway`, the rate limit (a request may leave at any stage, so a refusal is
  there, but not what it depends on) and usage; both have modules of their own that
  share no variable with the configuration.
- An etcd restored from a backup, whose revisions go back: the applied revision
  would then be ahead of the store and cache keys could repeat. A watch connection
  whose peer vanished without a reset.

## Plan

Done, in this order: `ConfigCompile`; `EtcdStore`, `ConfigPublisher`,
`SnapshotWatcher` and its proofs; `RateLimit` and its proofs; `RequestPipeline` and
its proofs; `SseCodecs`, `StreamRelay`; `AdminStore`; `PipelineRules`, `Gateway` and
its proofs; `MessageCodecs`, `RequestTranslation`; `AdminService` and the proofs of
`AdminStore`; `ConfigPrefix` and the proofs about the compiler; the proofs about both
translations and about billing.

Left:

1. `RateLimit` composed into `Gateway`, for what a reload does to limits end to end;
   `rate_limit` has the reload, but not the snapshot it comes from.
2. The admin UI's editor and list while calls are in flight.
3. Theorems beyond the runs' properties: that `RequestTranslation`'s cache refines the
   opaque one of `PipelineRules`, so that `CacheAnswersHonestly` is about the requests
   clients send; that the assumptions on snapshots and on answers in `RequestPipeline` hold
   of what `Gateway` publishes.
