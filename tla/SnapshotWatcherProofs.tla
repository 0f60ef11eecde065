------------------------ MODULE SnapshotWatcherProofs ------------------------
(***************************************************************************)
(* Proofs about the watcher, for every set of keys and bodies, every       *)
(* compiler and every bound: its type invariant, that what it publishes    *)
(* was committed, that it never waits on something stale, and that it      *)
(* implements the abstract publisher.                                      *)
(***************************************************************************)
EXTENDS SnapshotWatcher, EtcdStoreProofs

\* A stretch of revisions without events leaves the prefix as it was.
QuietMeansSame ==
  \A lo, hi \in 1..Revision : lo <= hi /\ Quiet(lo, hi) => ContentAt(lo) = ContentAt(hi)

\* A load in hand is a committed content, not older than what is served, and it
\* has seen every event the stream delivered.
LoadedIsCommitted ==
  pc = "publish" =>
    /\ loaded.revision \in 1..Revision
    /\ loaded.content = ContentAt(loaded.revision)
    /\ revision <= loaded.revision
    /\ stream.next - 1 <= loaded.revision

\* The two stores of a reload agree, and a running watcher has something to serve.
AppliedIsPublished ==
  /\ snapshot.revision = revision
  /\ pc \notin {"boot", "exited"} => revision >= 1

\* The stream has delivered nothing beyond the store, and while the task waits on
\* it, nothing that was not applied.
NothingUnapplied ==
  /\ stream.next - 1 <= Revision
  /\ pc = "receive" => Quiet(revision, stream.next - 1)

IInv ==
  /\ TypeOK
  /\ QuietMeansSame
  /\ LoadedIsCommitted
  /\ AppliedIsPublished
  /\ NothingUnapplied
  /\ SnapshotIsCommitted

-----------------------------------------------------------------------------
(* The store *)

\* A step of the store keeps what was committed.
LEMMA StoreGrows ==
  ASSUME EtcdTypeOK, QuietMeansSame, EtcdNext
  PROVE  /\ EtcdTypeOK' /\ QuietMeansSame'
         /\ Revision <= Revision'
         /\ \A r \in 1..Revision : history'[r] = history[r]
<1>1. CASE Compact
  BY <1>1 DEF Compact, EtcdTypeOK, Revision, QuietMeansSame, Quiet, ContentAt
<1>2. CASE Write
  <2>1. PICK content \in Content, event \in BOOLEAN :
          Commit(content, event) /\ (~event => content = Latest)
    BY <1>2, WriteCommits
  <2>2. /\ EtcdTypeOK'
        /\ Revision' = Revision + 1
        /\ \A r \in 1..Revision : history'[r] = history[r]
        /\ history'[Revision'] = [content |-> content, event |-> event]
    BY <2>1, CommitAppends
  <2>3. Revision \in 1..MaxRevision
    BY LatestIsContent
  <2>4. ASSUME NEW lo \in 1..Revision', NEW hi \in 1..Revision', lo <= hi, Quiet(lo, hi)'
        PROVE  ContentAt(lo)' = ContentAt(hi)'
    <3>1. CASE hi <= Revision
      <4>1. Quiet(lo, hi)
        BY <2>2, <2>3, <2>4, <3>1 DEF Quiet
      <4> QED
        BY <2>2, <2>3, <2>4, <3>1, <4>1 DEF QuietMeansSame, ContentAt
    <3>2. CASE hi = Revision + 1 /\ lo <= Revision
      <4>1. Quiet(lo, Revision)
        BY <2>2, <2>3, <2>4, <3>2 DEF Quiet
      <4>2. ~history'[hi].event
        BY <2>2, <2>3, <2>4, <3>2 DEF Quiet
      <4>3. content = Latest
        BY <2>1, <2>2, <3>2, <4>2
      <4>4. ContentAt(lo) = Latest
        BY <2>3, <3>2, <4>1 DEF QuietMeansSame, Latest
      <4> QED
        BY <2>2, <2>3, <3>2, <4>3, <4>4 DEF ContentAt
    <3>3. CASE lo = hi
      BY <3>3
    <3> QED
      BY <2>2, <2>3, <2>4, <3>1, <3>2, <3>3
  <2>5. QuietMeansSame'
    BY <2>4 DEF QuietMeansSame
  <2> QED
    BY <2>2, <2>3, <2>5
<1> QED
  BY <1>1, <1>2 DEF EtcdNext

-----------------------------------------------------------------------------
(* The inductive invariant *)

\* The invariant holds before the process starts.
LEMMA InitInv == Init => IInv
<1> SUFFICES ASSUME Init PROVE IInv
  OBVIOUS
<1>1. EtcdTypeOK /\ Revision = 1
  BY HistoryBegins DEF Init
<1>2. TypeOK
  <2>1. NotLoaded \in [revision : 0..Revision, content : Content]
    BY <1>1 DEF NotLoaded, Content
  <2>2. NoStream \in [open : BOOLEAN, next : 1..(MaxRevision + 1)]
    BY MaxRevisionAssumption DEF NoStream
  <2>3. snapshot.revision = 0
    BY DEF Init, NoSnapshot, Publisher!NoSnapshot
  <2>4. pc \in Location /\ reconnect \in BOOLEAN
    BY DEF Init, Location
  <2>5. stream = NoStream /\ loaded = NotLoaded /\ revision = 0 /\ restarts = 0
    BY DEF Init
  <2> QED
    BY <1>1, <2>1, <2>2, <2>3, <2>4, <2>5, MaxRestartsAssumption DEF TypeOK
<1>3. QuietMeansSame
  BY <1>1 DEF QuietMeansSame
<1> QED
  BY <1>1, <1>2, <1>3
     DEF Init, IInv, LoadedIsCommitted, AppliedIsPublished, NothingUnapplied,
         SnapshotIsCommitted, NoStream, NoSnapshot, Publisher!NoSnapshot

\* A step of the store alone keeps the invariant.
LEMMA StoreStep ==
  ASSUME IInv, EtcdNext, UNCHANGED taskVars
  PROVE  IInv'
<1>1. /\ EtcdTypeOK' /\ QuietMeansSame'
      /\ Revision <= Revision'
      /\ \A r \in 1..Revision : history'[r] = history[r]
  BY StoreGrows DEF IInv, TypeOK
<1>2. Revision \in 1..MaxRevision /\ Revision' \in Nat
  BY <1>1, LatestIsContent, MaxRevisionAssumption DEF IInv, TypeOK, EtcdTypeOK
<1>3. \A r \in 1..Revision : r \in 1..Revision' /\ ContentAt(r)' = ContentAt(r)
  BY <1>1, <1>2 DEF ContentAt
<1>4. TypeOK'
  BY <1>1, <1>2 DEF IInv, TypeOK, taskVars
<1>5. LoadedIsCommitted'
  BY <1>3 DEF IInv, LoadedIsCommitted, taskVars
<1>6. AppliedIsPublished'
  BY DEF IInv, AppliedIsPublished, taskVars
<1>7. NothingUnapplied'
  <2>1. stream.next \in Nat /\ stream.next - 1 <= Revision /\ revision \in Nat
    BY <1>2, MaxRevisionAssumption DEF IInv, NothingUnapplied, TypeOK
  <2>2. stream' = stream /\ pc' = pc /\ revision' = revision
    BY DEF taskVars
  <2>3. ASSUME pc = "receive" PROVE Quiet(revision, stream.next - 1)'
    BY <1>1, <1>2, <2>1, <2>2, <2>3 DEF IInv, NothingUnapplied, Quiet
  <2> QED
    BY <1>1, <1>2, <2>1, <2>2, <2>3 DEF NothingUnapplied
<1>8. SnapshotIsCommitted'
  <2>1. CASE snapshot = NoSnapshot
    BY <2>1 DEF SnapshotIsCommitted, taskVars, NoSnapshot, Publisher!NoSnapshot
  <2>2. CASE snapshot # NoSnapshot
    <3>1. PICK r \in 1..Revision :
            /\ Compile(ContentAt(r)) # HardError
            /\ snapshot = [revision |-> r, tables |-> Compile(ContentAt(r))]
      BY <2>2 DEF IInv, SnapshotIsCommitted
    <3> QED
      BY <1>3, <3>1 DEF SnapshotIsCommitted, taskVars
  <2> QED
    BY <2>1, <2>2
<1> QED
  BY <1>1, <1>4, <1>5, <1>6, <1>7, <1>8 DEF IInv

\* What every step of the task leaves alone.
LEMMA TaskKeepsStore ==
  ASSUME IInv, UNCHANGED etcdVars
  PROVE  /\ EtcdTypeOK' /\ QuietMeansSame'
         /\ Revision' = Revision /\ Revision \in 1..MaxRevision /\ Latest' = Latest
         /\ history' = history
         /\ \A r : ContentAt(r)' = ContentAt(r)
         /\ snapshot' = snapshot => SnapshotIsCommitted'
<1>1. history' = history /\ compactRevision' = compactRevision
  BY DEF etcdVars
<1>2. Revision \in 1..MaxRevision
  BY LatestIsContent DEF IInv, TypeOK
<1>3. EtcdTypeOK' /\ Revision' = Revision /\ Latest' = Latest /\ \A r : ContentAt(r)' = ContentAt(r)
  BY <1>1 DEF IInv, TypeOK, EtcdTypeOK, Revision, ContentAt, Latest
<1>4. QuietMeansSame'
  BY <1>1 DEF IInv, QuietMeansSame, Quiet, Revision, ContentAt
<1>5. ASSUME snapshot' = snapshot PROVE SnapshotIsCommitted'
  BY <1>1, <1>5
     DEF IInv, SnapshotIsCommitted, Revision, ContentAt, NoSnapshot, Publisher!NoSnapshot
<1> QED
  BY <1>1, <1>2, <1>3, <1>4, <1>5

\* The task holds no stream, no load and nothing to reload.
LEMMA IdleTyped ==
  ASSUME IInv
  PROVE  /\ NoStream \in [open : BOOLEAN, next : 1..(MaxRevision + 1)]
         /\ NotLoaded \in [revision : 0..Revision, content : Content]
BY LatestIsContent, MaxRevisionAssumption DEF IInv, TypeOK, NoStream, NotLoaded, Content

\* Every error path keeps the invariant.
LEMMA FailStep ==
  ASSUME IInv, NEW from \in {"connect", "receive", "drain", "load", "publish"}, Fail(from)
  PROVE  IInv'
<1>1. /\ pc = from /\ pc' = "sleep" /\ stream' = NoStream /\ reconnect' = FALSE
      /\ loaded' = NotLoaded /\ UNCHANGED etcdVars
      /\ revision' = revision /\ snapshot' = snapshot /\ restarts' = restarts
  BY DEF Fail, Goto
<1>2. /\ EtcdTypeOK' /\ QuietMeansSame' /\ SnapshotIsCommitted'
      /\ Revision' = Revision /\ Revision \in 1..MaxRevision
  BY <1>1, TaskKeepsStore
<1>3. TypeOK'
  BY <1>1, <1>2, IdleTyped DEF IInv, TypeOK, Location
<1> QED
  BY <1>1, <1>2, <1>3
     DEF IInv, LoadedIsCommitted, AppliedIsPublished, NothingUnapplied, NoStream

\* A delivery moves the stream forward, not beyond the store.
LEMMA DeliverStep ==
  ASSUME IInv, Deliver
  PROVE  /\ stream' \in [open : BOOLEAN, next : 1..(MaxRevision + 1)]
         /\ stream'.next - 1 <= Revision
<1>1. PICK hi \in stream.next..Revision : stream' = [stream EXCEPT !.next = hi + 1]
  BY DEF Deliver
<1>2. stream \in [open : BOOLEAN, next : 1..(MaxRevision + 1)] /\ Revision \in 1..MaxRevision
  BY LatestIsContent DEF IInv, TypeOK
<1> QED
  BY <1>1, <1>2, MaxRevisionAssumption

\* Every step of the task keeps the invariant.
LEMMA TaskStep ==
  ASSUME IInv, Task
  PROVE  IInv'
<1>1. CASE LoadInitial
  <2>1. /\ EtcdTypeOK' /\ QuietMeansSame'
        /\ Revision' = Revision /\ Revision \in 1..MaxRevision
        /\ \A r : ContentAt(r)' = ContentAt(r)
    BY <1>1, TaskKeepsStore DEF LoadInitial
  <2>2. /\ pc' = "connect" /\ revision' = Revision
        /\ snapshot' = [revision |-> Revision, tables |-> Compile(ContentAt(Revision))]
        /\ Compile(ContentAt(Revision)) # HardError
        /\ stream' = stream /\ reconnect' = reconnect /\ loaded' = loaded /\ restarts' = restarts
    BY <1>1 DEF LoadInitial, Goto, Latest
  <2>3. TypeOK'
    BY <2>1, <2>2 DEF IInv, TypeOK, Location
  <2>4. SnapshotIsCommitted'
    BY <2>1, <2>2 DEF SnapshotIsCommitted
  <2> QED
    BY <2>1, <2>2, <2>3, <2>4 DEF IInv, LoadedIsCommitted, AppliedIsPublished, NothingUnapplied
<1>2. CASE BootFails
  <2>1. /\ EtcdTypeOK' /\ QuietMeansSame' /\ Revision' = Revision /\ SnapshotIsCommitted'
    BY <1>2, TaskKeepsStore DEF BootFails
  <2> QED
    BY <1>2, <2>1
       DEF BootFails, Goto, IInv, TypeOK, Location, LoadedIsCommitted, AppliedIsPublished,
           NothingUnapplied
<1>3. CASE Connect
  <2>1. /\ EtcdTypeOK' /\ QuietMeansSame' /\ SnapshotIsCommitted'
        /\ Revision' = Revision /\ Revision \in 1..MaxRevision
    BY <1>3, TaskKeepsStore DEF Connect
  <2>2. /\ pc = "connect" /\ pc' = "receive" /\ stream' = [open |-> TRUE, next |-> revision + 1]
        /\ reconnect' = reconnect /\ loaded' = loaded /\ revision' = revision
        /\ snapshot' = snapshot /\ restarts' = restarts
    BY <1>3 DEF Connect, Goto
  <2>3. revision \in 0..Revision
    BY DEF IInv, TypeOK
  <2>4. stream' \in [open : BOOLEAN, next : 1..(MaxRevision + 1)] /\ stream'.next = revision + 1
    BY <2>1, <2>2, <2>3, MaxRevisionAssumption
  <2>5. TypeOK'
    BY <2>1, <2>2, <2>4 DEF IInv, TypeOK, Location
  <2>6. NothingUnapplied'
    BY <2>1, <2>2, <2>3, <2>4 DEF NothingUnapplied, Quiet
  <2> QED
    BY <2>1, <2>2, <2>5, <2>6 DEF IInv, LoadedIsCommitted, AppliedIsPublished
<1>4. CASE \/ ConnectFails \/ ReceiveFails \/ DrainFails \/ LoadFails \/ Reject
  BY <1>4, FailStep DEF ConnectFails, ReceiveFails, DrainFails, LoadFails, Reject
<1>5. CASE Wake
  <2>1. /\ EtcdTypeOK' /\ QuietMeansSame' /\ Revision' = Revision /\ SnapshotIsCommitted'
    BY <1>5, TaskKeepsStore DEF Wake
  <2> QED
    BY <1>5, <2>1
       DEF Wake, Goto, IInv, TypeOK, Location, LoadedIsCommitted, AppliedIsPublished,
           NothingUnapplied
<1>6. CASE ReceiveEvents \/ DrainEvents
  <2>1. /\ UNCHANGED etcdVars /\ pc \in {"receive", "drain"} /\ pc' = "drain"
        /\ reconnect' = reconnect /\ loaded' = loaded /\ revision' = revision
        /\ snapshot' = snapshot /\ restarts' = restarts /\ Deliver
    BY <1>6 DEF ReceiveEvents, DrainEvents, Goto
  <2>2. /\ EtcdTypeOK' /\ QuietMeansSame' /\ Revision' = Revision /\ SnapshotIsCommitted'
    BY <2>1, TaskKeepsStore
  <2>3. /\ stream' \in [open : BOOLEAN, next : 1..(MaxRevision + 1)]
        /\ stream'.next - 1 <= Revision
    BY <2>1, DeliverStep
  <2>4. TypeOK'
    BY <2>1, <2>2, <2>3 DEF IInv, TypeOK, Location
  <2> QED
    BY <2>1, <2>2, <2>3, <2>4 DEF IInv, LoadedIsCommitted, AppliedIsPublished, NothingUnapplied
<1>7. CASE Compacted("receive") \/ Compacted("drain") \/ DebounceElapses \/ DrainEnds
  <2>1. /\ UNCHANGED etcdVars /\ pc \in {"receive", "drain"} /\ pc' = "load"
        /\ loaded' = loaded /\ revision' = revision
        /\ snapshot' = snapshot /\ restarts' = restarts
        /\ stream' = stream \/ stream' = [stream EXCEPT !.open = FALSE]
    BY <1>7 DEF Compacted, DebounceElapses, DrainEnds, Goto
  <2>2. reconnect' \in BOOLEAN
    BY <1>7 DEF Compacted, DebounceElapses, DrainEnds, IInv, TypeOK
  <2>3. /\ EtcdTypeOK' /\ QuietMeansSame' /\ Revision' = Revision /\ SnapshotIsCommitted'
    BY <2>1, TaskKeepsStore
  <2>4. stream' \in [open : BOOLEAN, next : 1..(MaxRevision + 1)] /\ stream'.next = stream.next
    BY <2>1 DEF IInv, TypeOK
  <2>5. TypeOK'
    BY <2>1, <2>2, <2>3, <2>4 DEF IInv, TypeOK, Location
  <2> QED
    BY <2>1, <2>3, <2>4, <2>5 DEF IInv, LoadedIsCommitted, AppliedIsPublished, NothingUnapplied
<1>8. CASE Load
  <2>1. /\ EtcdTypeOK' /\ QuietMeansSame' /\ SnapshotIsCommitted'
        /\ Revision' = Revision /\ Revision \in 1..MaxRevision
        /\ \A r : ContentAt(r)' = ContentAt(r)
    BY <1>8, TaskKeepsStore DEF Load
  <2>2. /\ pc = "load" /\ pc' = "publish"
        /\ loaded' = [revision |-> Revision, content |-> ContentAt(Revision)]
        /\ stream' = stream /\ reconnect' = reconnect /\ revision' = revision
        /\ snapshot' = snapshot /\ restarts' = restarts
    BY <1>8 DEF Load, Goto, Latest
  <2>3. loaded' \in [revision : 0..Revision, content : Content]
    BY <2>1, <2>2, LatestIsContent DEF IInv, TypeOK
  <2>4. TypeOK'
    BY <2>1, <2>2, <2>3 DEF IInv, TypeOK, Location
  <2>5. LoadedIsCommitted'
    BY <2>1, <2>2 DEF IInv, TypeOK, NothingUnapplied, LoadedIsCommitted
  <2> QED
    BY <2>1, <2>2, <2>4, <2>5 DEF IInv, AppliedIsPublished, NothingUnapplied
<1>9. CASE Publish
  <2>1. /\ EtcdTypeOK' /\ QuietMeansSame'
        /\ Revision' = Revision /\ Revision \in 1..MaxRevision
        /\ history' = history /\ \A r : ContentAt(r)' = ContentAt(r)
    BY <1>9, TaskKeepsStore DEF Publish
  <2>2. /\ pc = "publish" /\ pc' = IF reconnect THEN "connect" ELSE "receive"
        /\ snapshot' = [revision |-> loaded.revision, tables |-> Compile(loaded.content)]
        /\ revision' = loaded.revision
        /\ stream' = IF reconnect THEN NoStream ELSE stream
        /\ reconnect' = FALSE /\ loaded' = NotLoaded /\ restarts' = restarts
        /\ Compile(loaded.content) # HardError
    BY <1>9 DEF Publish, Goto
  <2>3. /\ loaded.revision \in 1..Revision
        /\ loaded.content = ContentAt(loaded.revision)
        /\ stream.next - 1 <= loaded.revision
    BY <2>2 DEF IInv, LoadedIsCommitted
  <2>4. /\ stream \in [open : BOOLEAN, next : 1..(MaxRevision + 1)]
        /\ NoStream \in [open : BOOLEAN, next : 1..(MaxRevision + 1)]
        /\ NotLoaded \in [revision : 0..Revision, content : Content]
    BY IdleTyped DEF IInv, TypeOK
  <2>5. stream'.next - 1 <= loaded.revision /\ stream'.next \in Nat
    BY <2>2, <2>3, <2>4, MaxRevisionAssumption DEF NoStream
  <2>6. TypeOK'
    <3>1. pc' \in Location /\ reconnect' \in BOOLEAN
      BY <2>2 DEF Location
    <3>2. stream' \in [open : BOOLEAN, next : 1..(MaxRevision + 1)]
      BY <2>2, <2>4
    <3>3. revision' \in 0..Revision /\ snapshot'.revision \in 0..Revision
      BY <2>1, <2>2, <2>3
    <3>4. restarts' \in 0..MaxRestarts
      BY <2>2 DEF IInv, TypeOK
    <3>5. loaded' \in [revision : 0..Revision, content : Content]
      BY <2>2, <2>4
    <3> QED
      BY <2>1, <3>1, <3>2, <3>3, <3>4, <3>5 DEF TypeOK
  <2>7. SnapshotIsCommitted'
    BY <2>1, <2>2, <2>3 DEF SnapshotIsCommitted
  <2>8. NothingUnapplied'
    BY <2>1, <2>2, <2>3, <2>5 DEF NothingUnapplied, Quiet
  <2>9. LoadedIsCommitted' /\ AppliedIsPublished'
    BY <2>1, <2>2, <2>3 DEF LoadedIsCommitted, AppliedIsPublished
  <2> QED
    BY <2>1, <2>6, <2>7, <2>8, <2>9 DEF IInv
<1> QED
  BY <1>1, <1>2, <1>3, <1>4, <1>5, <1>6, <1>7, <1>8, <1>9 DEF Task

\* A restart keeps the invariant.
LEMMA RestartStep ==
  ASSUME IInv, Restart
  PROVE  IInv'
<1>1. /\ EtcdTypeOK' /\ QuietMeansSame' /\ Revision' = Revision /\ Revision \in 1..MaxRevision
  BY TaskKeepsStore DEF Restart
<1>2. snapshot' = NoSnapshot /\ snapshot'.revision = 0
  BY DEF Restart, NoSnapshot, Publisher!NoSnapshot
<1>3. TypeOK'
  <2>1. /\ pc' = "boot" /\ stream' = NoStream /\ reconnect' = FALSE /\ loaded' = NotLoaded
        /\ revision' = 0 /\ restarts' = restarts + 1 /\ restarts < MaxRestarts
    BY DEF Restart
  <2>2. pc' \in Location /\ reconnect' \in BOOLEAN
    BY <2>1 DEF Location
  <2>3. restarts' \in 0..MaxRestarts
    BY <2>1, MaxRestartsAssumption DEF IInv, TypeOK
  <2> QED
    BY <1>1, <1>2, <2>1, <2>2, <2>3, IdleTyped DEF TypeOK
<1>4. SnapshotIsCommitted'
  BY <1>2 DEF SnapshotIsCommitted, NoSnapshot, Publisher!NoSnapshot
<1> QED
  BY <1>1, <1>2, <1>3, <1>4
     DEF Restart, IInv, LoadedIsCommitted, AppliedIsPublished, NothingUnapplied, NoStream

\* The invariant holds throughout.
THEOREM Invariance == Spec => []IInv
<1>1. Init => IInv
  BY InitInv
<1>2. IInv /\ [Next]_vars => IInv'
  <2> SUFFICES ASSUME IInv, [Next]_vars PROVE IInv'
    OBVIOUS
  <2>1. CASE Task
    BY <2>1, TaskStep
  <2>2. CASE Restart
    BY <2>2, RestartStep
  <2>3. CASE EtcdNext /\ UNCHANGED taskVars
    BY <2>3, StoreStep
  <2>4. CASE UNCHANGED vars
    BY <2>4
       DEF vars, IInv, TypeOK, EtcdTypeOK, QuietMeansSame, Quiet, ContentAt, Revision,
           LoadedIsCommitted, AppliedIsPublished, NothingUnapplied, SnapshotIsCommitted,
           NoSnapshot, Publisher!NoSnapshot
  <2> QED
    BY <2>1, <2>2, <2>3, <2>4 DEF Next
<1> QED
  BY <1>1, <1>2, PTL DEF Spec

-----------------------------------------------------------------------------
(* What follows from the invariant *)

\* The watcher's variables stay in their types.
THEOREM TypeCorrect == Spec => []TypeOK
<1>1. IInv => TypeOK
  BY DEF IInv
<1> QED
  BY <1>1, Invariance, PTL

\* The published snapshot is always the compilation of a committed content,
\* labelled with that content's revision.
THEOREM PublishedWasCommitted == Spec => []SnapshotIsCommitted
<1>1. IInv => SnapshotIsCommitted
  BY DEF IInv
<1> QED
  BY <1>1, Invariance, PTL

\* The watcher never waits on its stream while serving something stale.
THEOREM NeverWaitsStale == Spec => []WaitingMeansFresh
<1>1. IInv => WaitingMeansFresh
  <2> SUFFICES ASSUME IInv, pc = "receive", Quiet(stream.next - 1, Revision)
               PROVE  snapshot.tables = Compile(Latest)
    BY DEF WaitingMeansFresh
  <2>1. /\ Revision \in 1..MaxRevision
        /\ revision \in 1..Revision /\ snapshot.revision = revision
        /\ stream.next \in Nat
    BY LatestIsContent, MaxRevisionAssumption DEF IInv, TypeOK, AppliedIsPublished
  <2>2. Quiet(revision, Revision)
    BY <2>1 DEF IInv, NothingUnapplied, Quiet
  <2>3. ContentAt(revision) = Latest
    BY <2>1, <2>2 DEF IInv, QuietMeansSame, Latest
  <2>4. snapshot # NoSnapshot
    BY <2>1 DEF NoSnapshot, Publisher!NoSnapshot
  <2>5. PICK r \in 1..Revision : snapshot = [revision |-> r, tables |-> Compile(ContentAt(r))]
    BY <2>4 DEF IInv, SnapshotIsCommitted
  <2>6. r = revision
    BY <2>1, <2>5
  <2> QED
    BY <2>3, <2>5, <2>6
<1> QED
  BY <1>1, Invariance, PTL

\* The abstract publisher's store is this store.
LEMMA SameStore ==
  /\ Publisher!EtcdInit <=> EtcdInit
  /\ Publisher!EtcdNext <=> EtcdNext
  /\ Publisher!Revision = Revision
  /\ Publisher!Latest = Latest
  /\ \A r : Publisher!ContentAt(r) = ContentAt(r)
<1>1. Publisher!EtcdInit <=> EtcdInit
  BY DEF EtcdInit, Publisher!EtcdInit
<1>2. Publisher!EtcdNext <=> EtcdNext
  BY DEF EtcdNext, Write, Put, Delete, WriteElsewhere, Compact, Commit, Latest, ContentAt,
         Revision, Publisher!EtcdNext, Publisher!Write, Publisher!Put, Publisher!Delete,
         Publisher!WriteElsewhere, Publisher!Compact, Publisher!Commit, Publisher!Latest,
         Publisher!ContentAt, Publisher!Revision
<1> QED
  BY <1>1, <1>2
     DEF Revision, ContentAt, Latest, Publisher!Revision, Publisher!ContentAt, Publisher!Latest

\* Every behaviour of the watcher is one of the abstract publisher, under the
\* refinement mapping up <- Serving: the initial load starts it, the reload
\* publishes, a restart stops it, everything else is the store's or invisible.
THEOREM Implementation == Spec => Publisher!PublisherSafety
<1>1. Init => Publisher!PublisherInit
  BY SameStore DEF Init, Publisher!PublisherInit, NoSnapshot, Serving
<1>2. IInv /\ [Next]_vars
        => [Publisher!PublisherNext]_<<history, compactRevision, Serving, snapshot>>
  <2> SUFFICES ASSUME IInv, [Next]_vars
               PROVE  \/ Publisher!PublisherNext
                      \/ UNCHANGED <<history, compactRevision, Serving, snapshot>>
    OBVIOUS
  <2> USE DEF etcdVars, Publisher!etcdVars
  <2>1. CASE LoadInitial
    <3>1. ~Serving /\ Serving'
      BY <2>1 DEF LoadInitial, Goto, Serving
    <3>2. Publisher!Start
      BY <2>1, <3>1, SameStore DEF LoadInitial, Publisher!Start, Publisher!SnapshotOf, Latest
    <3> QED
      BY <3>2 DEF Publisher!PublisherNext
  <2>2. CASE Publish
    <3>1. /\ loaded.revision \in 1..Revision
          /\ loaded.content = ContentAt(loaded.revision)
          /\ loaded.revision >= snapshot.revision
      BY <2>2, LatestIsContent
         DEF Publish, Goto, IInv, LoadedIsCommitted, AppliedIsPublished, TypeOK
    <3>2. Serving /\ Serving' /\ Serving' = Serving
      BY <2>2 DEF Publish, Goto, Serving
    <3>3. Publisher!Publish
      BY <2>2, <3>1, <3>2, SameStore DEF Publish, Publisher!Publish, Publisher!SnapshotOf
    <3> QED
      BY <3>3 DEF Publisher!PublisherNext
  <2>3. CASE Restart
    BY <2>3 DEF Restart, Publisher!Stop, Publisher!PublisherNext, NoSnapshot, Serving
  <2>4. CASE EtcdNext /\ UNCHANGED taskVars
    BY <2>4, SameStore DEF Publisher!PublisherNext, taskVars, Serving
  <2>5. CASE Task /\ ~LoadInitial /\ ~Publish
    <3>1. UNCHANGED <<history, compactRevision, snapshot>>
      BY <2>5
         DEF Task, BootFails, Connect, ConnectFails, Wake, ReceiveEvents, Compacted, ReceiveFails,
             DrainEvents, DebounceElapses, DrainEnds, DrainFails, Load, LoadFails, Reject, Fail
    <3>2. UNCHANGED Serving
      BY <2>5
         DEF Task, BootFails, Connect, ConnectFails, Wake, ReceiveEvents, Compacted, ReceiveFails,
             DrainEvents, DebounceElapses, DrainEnds, DrainFails, Load, LoadFails, Reject, Fail,
             Goto, Serving
    <3> QED
      BY <3>1, <3>2
  <2>6. CASE UNCHANGED vars
    BY <2>6 DEF vars, Serving
  <2> QED
    BY <2>1, <2>2, <2>3, <2>4, <2>5, <2>6 DEF Next
<1> QED
  BY <1>1, <1>2, Invariance, PTL DEF Spec, Publisher!PublisherSafety, Publisher!publisherVars

\* The property the runs check under its own name.
COROLLARY WatcherImplementsPublisher == Spec => ImplementsPublisher
BY Implementation DEF ImplementsPublisher

=============================================================================
