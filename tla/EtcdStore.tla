------------------------------ MODULE EtcdStore ------------------------------
(***************************************************************************)
(* The etcd keyspace as the gateway uses it: a multi-version store in      *)
(* which every write makes a revision, reads are linearizable, and a watch *)
(* can be asked for the events after a revision unless they have been      *)
(* compacted away.  The writers are the Admin API (EtcdStore::put_json and *)
(* EtcdStore::delete of crates/aisix-config/src/etcd.rs) and whoever else  *)
(* shares the cluster.                                                     *)
(***************************************************************************)
EXTENDS Integers, Sequences

CONSTANTS
  Key,          \* the keys load_prefix returns, <<collection, id>>
  Body,         \* what may be stored
  BodyFor(_),   \* what writers store under a key
  Absent,       \* the value of a key that is not there
  Stored,       \* what may be under the prefix when the history begins
  MaxRevision   \* bound: no write beyond this revision

ASSUME BodyAssumption == Absent \notin Body /\ \A k \in Key : BodyFor(k) \subseteq Body
ASSUME MaxRevisionAssumption == MaxRevision \in Nat \ {0}

VARIABLES
  history,          \* history[r]: content of the prefix at revision r, and
                    \* whether revision r is an event of the prefix
  compactRevision   \* events before this revision are gone

etcdVars == <<history, compactRevision>>

Content == [Key -> Body \cup {Absent}]

ASSUME StoredAssumption == Stored \subseteq Content

Revision == Len(history)

ContentAt(r) == history[r].content

Latest == ContentAt(Revision)

\* The first revision anyone reads is called 1.
EtcdInit ==
  /\ \E content \in Stored : history = <<[content |-> content, event |-> FALSE]>>
  /\ compactRevision = 0

Commit(content, event) ==
  /\ Revision < MaxRevision
  /\ history' = Append(history, [content |-> content, event |-> event])
  /\ UNCHANGED compactRevision

\* put_json: create or overwrite, an event even when nothing changes.
Put(k, body) == Commit([Latest EXCEPT ![k] = body], TRUE)

\* delete: deleting a key that is not there makes no revision.
Delete(k) ==
  /\ Latest[k] # Absent
  /\ Commit([Latest EXCEPT ![k] = Absent], TRUE)

\* A write outside the prefix moves the revision of the whole store.
WriteElsewhere == Commit(Latest, FALSE)

Compact ==
  /\ \E r \in (compactRevision + 1)..Revision : compactRevision' = r
  /\ UNCHANGED history

Write ==
  \/ \E k \in Key : \E body \in BodyFor(k) : Put(k, body)
  \/ \E k \in Key : Delete(k)
  \/ WriteElsewhere

EtcdNext == Write \/ Compact

\* The prefix has no event in the revisions after lo up to hi.
Quiet(lo, hi) == \A r \in (lo + 1)..hi : ~history[r].event

EtcdTypeOK ==
  /\ history \in Seq([content : Content, event : BOOLEAN])
  /\ Revision \in 1..MaxRevision
  /\ compactRevision \in 0..Revision
=============================================================================
