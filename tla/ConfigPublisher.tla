--------------------------- MODULE ConfigPublisher ---------------------------
(***************************************************************************)
(* What the configuration plane promises to the request path, and nothing  *)
(* of how.  A process that comes up serves what the prefix holds at that   *)
(* moment.  While it is up it serves the compilation of the prefix as it   *)
(* really was at one committed revision, never of an earlier one than      *)
(* before; a content that does not compile is never served, the previous   *)
(* snapshot stays.  If the process stays up and the prefix comes to rest   *)
(* in a content that compiles, that content is what it ends up serving.    *)
(***************************************************************************)
EXTENDS EtcdStore

CONSTANTS
  Compile(_),   \* compile_snapshot_from_entries: tables or HardError
  HardError

VARIABLES
  up,        \* a process has loaded its first snapshot and not ended since
  snapshot   \* its ArcSwap: [revision, tables]

publisherVars == <<history, compactRevision, up, snapshot>>

SnapshotOf(r) == [revision |-> r, tables |-> Compile(ContentAt(r))]

\* Nothing is served (etcd has no revision 0).
NoSnapshot == [revision |-> 0, tables |-> HardError]

PublisherInit ==
  /\ EtcdInit
  /\ up = FALSE
  /\ snapshot = NoSnapshot

\* Slip: the first load is answered by an etcd member that lags behind.
StartStale ==
  /\ ~up
  /\ \E r \in 1..Revision :
       Compile(ContentAt(r)) # HardError /\ snapshot' = SnapshotOf(r)
  /\ up' = TRUE
  /\ UNCHANGED etcdVars

\* load_initial_snapshot: the latest content, or no start.
Start ==
  /\ ~up
  /\ Compile(Latest) # HardError
  /\ up' = TRUE
  /\ snapshot' = SnapshotOf(Revision)
  /\ UNCHANGED etcdVars

\* reload_snapshot_and_revision, as far as a reader of the ArcSwap can tell.
Publish ==
  /\ up
  /\ \E r \in 1..Revision :
       /\ r >= snapshot.revision
       /\ Compile(ContentAt(r)) # HardError
       /\ snapshot' = SnapshotOf(r)
  /\ UNCHANGED <<etcdVars, up>>

\* The process ends, whatever for, and its memory with it.
Stop ==
  /\ up' = FALSE
  /\ snapshot' = NoSnapshot
  /\ UNCHANGED etcdVars

PublisherNext == Start \/ Publish \/ Stop \/ (EtcdNext /\ UNCHANGED <<up, snapshot>>)

\* The liveness half of the promise.
Converging ==
  (<>[]up /\ <>[](Compile(Latest) # HardError)) => <>[](snapshot.tables = Compile(Latest))

PublisherSafety == PublisherInit /\ [][PublisherNext]_publisherVars

PublisherSpec == PublisherSafety /\ Converging
=============================================================================
