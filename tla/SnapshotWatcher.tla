--------------------------- MODULE SnapshotWatcher ---------------------------
(***************************************************************************)
(* crates/aisix-config/src/watcher.rs: the task that keeps the published   *)
(* snapshot in step with etcd, from process start.                         *)
(*                                                                         *)
(* One action per await of the code: between two of them the etcd store    *)
(* moves on, is compacted, or the network fails.  The stretch of           *)
(* reload_snapshot_and_revision after load_prefix (compile, snapshot.store,*)
(* revision.store) has no await and its second store is read by this task  *)
(* only, so it is one action.  What the events say is never used, only     *)
(* that there were some, hence a stream is the next revision the server    *)
(* has not delivered.                                                      *)
(***************************************************************************)
EXTENDS EtcdStore

CONSTANTS
  Compile(_),   \* compile_snapshot_from_entries: tables or HardError
  HardError,
  MaxRestarts   \* bound: the process is restarted at most this often

ASSUME MaxRestartsAssumption == MaxRestarts \in Nat

VARIABLES
  pc,          \* where the task is
  stream,      \* the watch: [open, next]; not open once it has ended
  reconnect,   \* the reload under way ends watch_once (ReloadAndReconnect)
  loaded,      \* the revision and content load_prefix returned, until published
  revision,    \* AtomicI64: last revision applied
  snapshot,    \* ArcSwap<CompiledSnapshot>: [revision, tables]
  restarts

taskVars == <<pc, stream, reconnect, loaded, revision, snapshot, restarts>>
vars == <<history, compactRevision, pc, stream, reconnect, loaded, revision, snapshot, restarts>>

Location ==
  {"boot", "exited", "connect", "receive", "drain", "load", "publish", "sleep"}

NoStream == [open |-> FALSE, next |-> 1]

NotLoaded == [revision |-> 0, content |-> [k \in Key |-> Absent]]

\* The publisher the request path sees: it is up while a snapshot is served.
Serving == pc \notin {"boot", "exited"}

Publisher ==
  INSTANCE ConfigPublisher WITH
    history <- history, compactRevision <- compactRevision,
    up <- Serving, snapshot <- snapshot

NoSnapshot == Publisher!NoSnapshot

Goto(from, to) == pc = from /\ pc' = to

Init ==
  /\ EtcdInit
  /\ pc = "boot"
  /\ stream = NoStream
  /\ reconnect = FALSE
  /\ loaded = NotLoaded
  /\ revision = 0
  /\ snapshot = NoSnapshot
  /\ restarts = 0

-----------------------------------------------------------------------------
(* Process start: load_initial_snapshot, then spawn_snapshot_watcher. *)

\* A content that compiles is served and its revision is where the watch starts.
LoadInitial ==
  /\ Compile(Latest) # HardError
  /\ Goto("boot", "connect")
  /\ snapshot' = [revision |-> Revision, tables |-> Compile(Latest)]
  /\ revision' = Revision
  /\ UNCHANGED <<etcdVars, stream, reconnect, loaded, restarts>>

\* etcd cannot be reached, or what it holds does not compile: main returns Err.
BootFails ==
  /\ Goto("boot", "exited")
  /\ UNCHANGED <<etcdVars, stream, reconnect, loaded, revision, snapshot, restarts>>

\* The process ends (crash, or SnapshotWatcher dropped with it) and is started again.
Restart ==
  /\ pc # "boot"
  /\ restarts < MaxRestarts
  /\ restarts' = restarts + 1
  /\ pc' = "boot"
  /\ stream' = NoStream
  /\ reconnect' = FALSE
  /\ loaded' = NotLoaded
  /\ revision' = 0
  /\ snapshot' = NoSnapshot
  /\ UNCHANGED etcdVars

-----------------------------------------------------------------------------
(* watch_once: connect, then follow the stream.  Every error returns to the
   loop of spawn_snapshot_watcher, which sleeps a second; the stream is dropped. *)

\* Slip: the watch starts from the present instead of the last applied revision.
ConnectFromNow ==
  /\ Goto("connect", "receive")
  /\ stream' = [open |-> TRUE, next |-> Revision + 1]
  /\ UNCHANGED <<etcdVars, reconnect, loaded, revision, snapshot, restarts>>

Connect ==
  /\ Goto("connect", "receive")
  /\ stream' = [open |-> TRUE, next |-> revision + 1]
  /\ UNCHANGED <<etcdVars, reconnect, loaded, revision, snapshot, restarts>>

Fail(from) ==
  /\ Goto(from, "sleep")
  /\ stream' = NoStream
  /\ reconnect' = FALSE
  /\ loaded' = NotLoaded
  /\ UNCHANGED <<etcdVars, revision, snapshot, restarts>>

ConnectFails == Fail("connect")

\* Slip: an error ends the task.
WakeNever == FALSE /\ UNCHANGED vars

Wake ==
  /\ Goto("sleep", "connect")
  /\ UNCHANGED <<etcdVars, stream, reconnect, loaded, revision, snapshot, restarts>>

\* One WatchResponse: the server's events from stream.next up to some revision,
\* at least one of them (responses without events are `Continue`: no step).
Deliver ==
  /\ stream.open
  /\ \E hi \in stream.next..Revision :
       /\ ~Quiet(stream.next - 1, hi)
       /\ stream' = [stream EXCEPT !.next = hi + 1]

\* The server cancels a watch that is behind the compaction.
CancelledByCompaction == stream.open /\ stream.next < compactRevision

\* classify_watch_response = Reload: drain the burst before reloading.
ReceiveEvents ==
  /\ Goto("receive", "drain")
  /\ Deliver
  /\ UNCHANGED <<etcdVars, reconnect, loaded, revision, snapshot, restarts>>

\* classify_watch_response = ReloadAndReconnect, in watch_once or in the drain.
Compacted(from) ==
  /\ Goto(from, "load")
  /\ CancelledByCompaction
  /\ stream' = [stream EXCEPT !.open = FALSE]
  /\ reconnect' = TRUE
  /\ UNCHANGED <<etcdVars, loaded, revision, snapshot, restarts>>

\* The connection breaks, the stream ends, or the server cancels for another reason.
ReceiveFails == Fail("receive")

\* drain_watch_burst: each further event restarts the 50 ms debounce.
DrainEvents ==
  /\ pc = "drain"
  /\ Deliver
  /\ UNCHANGED <<etcdVars, pc, reconnect, loaded, revision, snapshot, restarts>>

DebounceElapses ==
  /\ Goto("drain", "load")
  /\ UNCHANGED <<etcdVars, stream, reconnect, loaded, revision, snapshot, restarts>>

\* The stream ends during the burst: reload at once; the next receive will fail.
DrainEnds ==
  /\ Goto("drain", "load")
  /\ stream' = [stream EXCEPT !.open = FALSE]
  /\ UNCHANGED <<etcdVars, reconnect, loaded, revision, snapshot, restarts>>

DrainFails == Fail("drain")

-----------------------------------------------------------------------------
(* reload_snapshot_and_revision *)

\* Slip: a serializable read, which a lagging etcd member answers from its past.
LoadStale ==
  /\ Goto("load", "publish")
  /\ \E r \in 1..Revision : loaded' = [revision |-> r, content |-> ContentAt(r)]
  /\ UNCHANGED <<etcdVars, stream, reconnect, revision, snapshot, restarts>>

\* A connection of its own, and a linearizable range read with its revision.
Load ==
  /\ Goto("load", "publish")
  /\ loaded' = [revision |-> Revision, content |-> Latest]
  /\ UNCHANGED <<etcdVars, stream, reconnect, revision, snapshot, restarts>>

LoadFails == Fail("load")

\* Slip: the snapshot is stored whatever the compiler said.
PublishUnchecked ==
  /\ Goto("publish", IF reconnect THEN "connect" ELSE "receive")
  /\ snapshot' = [revision |-> loaded.revision, tables |-> Compile(loaded.content)]
  /\ revision' = loaded.revision
  /\ stream' = IF reconnect THEN NoStream ELSE stream
  /\ reconnect' = FALSE
  /\ loaded' = NotLoaded
  /\ UNCHANGED <<etcdVars, restarts>>

\* Slip: the applied revision is stored one too high.
PublishOffByOne ==
  /\ Compile(loaded.content) # HardError
  /\ Goto("publish", IF reconnect THEN "connect" ELSE "receive")
  /\ snapshot' = [revision |-> loaded.revision, tables |-> Compile(loaded.content)]
  /\ revision' = loaded.revision + 1
  /\ stream' = IF reconnect THEN NoStream ELSE stream
  /\ reconnect' = FALSE
  /\ loaded' = NotLoaded
  /\ UNCHANGED <<etcdVars, restarts>>

\* snapshot.store, revision.store, and back to the stream or to a new watch.
Publish ==
  /\ Compile(loaded.content) # HardError
  /\ Goto("publish", IF reconnect THEN "connect" ELSE "receive")
  /\ snapshot' = [revision |-> loaded.revision, tables |-> Compile(loaded.content)]
  /\ revision' = loaded.revision
  /\ stream' = IF reconnect THEN NoStream ELSE stream
  /\ reconnect' = FALSE
  /\ loaded' = NotLoaded
  /\ UNCHANGED <<etcdVars, restarts>>

\* The compile error returns before either store.
Reject == Compile(loaded.content) = HardError /\ Fail("publish")

-----------------------------------------------------------------------------
Task ==
  \/ LoadInitial \/ BootFails \/ Connect \/ ConnectFails \/ Wake
  \/ ReceiveEvents \/ Compacted("receive") \/ ReceiveFails
  \/ DrainEvents \/ Compacted("drain") \/ DebounceElapses \/ DrainEnds \/ DrainFails
  \/ Load \/ LoadFails \/ Publish \/ Reject

Next == Task \/ Restart \/ (EtcdNext /\ UNCHANGED taskVars)

\* The runtime schedules the task, its timers fire, and the network does not fail
\* forever at the same place: a step with a failing twin that is offered again
\* and again is taken in the end.  A stream that has ended says so when asked.
Fairness ==
  /\ WF_vars(LoadInitial)
  /\ WF_vars(Wake)
  /\ WF_vars(Publish \/ Reject)
  /\ WF_vars(~stream.open /\ ReceiveFails)
  /\ SF_vars(Connect)
  /\ SF_vars(ReceiveEvents \/ Compacted("receive"))
  /\ SF_vars(DebounceElapses \/ DrainEnds \/ Compacted("drain"))
  /\ SF_vars(Load)

Spec == Init /\ [][Next]_vars

FairSpec == Spec /\ Fairness

-----------------------------------------------------------------------------
\* The type invariant of the watcher task and of the store it reads.
TypeOK ==
  /\ EtcdTypeOK
  /\ pc \in Location
  /\ stream \in [open : BOOLEAN, next : 1..(MaxRevision + 1)]
  /\ reconnect \in BOOLEAN
  /\ loaded \in [revision : 0..Revision, content : Content]
  /\ revision \in 0..Revision
  /\ snapshot.revision \in 0..Revision
  /\ restarts \in 0..MaxRestarts

\* What reload_snapshot_and_revision publishes is the compilation of the prefix
\* as it was at the very revision it is labelled with (the response cache keys
\* on that revision), never a mix of two reads and never a failed compilation.
SnapshotIsCommitted ==
  \/ snapshot = NoSnapshot
  \/ \E r \in 1..Revision :
       /\ Compile(ContentAt(r)) # HardError
       /\ snapshot = [revision |-> r, tables |-> Compile(ContentAt(r))]

\* watch_once never waits on a stream while serving something stale: blocked in
\* stream.message() with nothing left to deliver, through every burst, failed
\* reload, reconnection and compaction, the snapshot is what the latest content
\* compiles to.
WaitingMeansFresh ==
  (pc = "receive" /\ stream.open /\ Quiet(stream.next - 1, Revision))
    => snapshot.tables = Compile(Latest)

\* The watcher implements the publisher the request path relies on: a start serves
\* the latest content, later only committed contents that compile follow, in
\* revision order, until the process ends.
ImplementsPublisher == Publisher!PublisherSafety

\* Hot reload converges, the other half of what a publisher promises: if the
\* process stays up and the prefix comes to rest in a content that compiles, the
\* gateway ends up serving exactly that, whatever bad contents, compactions and
\* network failures came before.
Converges == Publisher!Converging
=============================================================================
