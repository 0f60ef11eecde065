--------------------------- MODULE EtcdStoreProofs ---------------------------
(***************************************************************************)
(* What the proofs about the store's users rest on: each write adds one    *)
(* revision of a content, and none changes what was committed before.      *)
(***************************************************************************)
EXTENDS EtcdStore, SequenceTheorems, TLAPS

\* A new history has one revision, whose content was there.
LEMMA HistoryBegins ==
  ASSUME EtcdInit
  PROVE  EtcdTypeOK /\ Revision = 1 /\ Latest \in Stored
<1>1. PICK content \in Stored : history = <<[content |-> content, event |-> FALSE]>>
  BY DEF EtcdInit
<1> DEFINE Entry == [content : Content, event : BOOLEAN]
           e == [content |-> content, event |-> FALSE]
<1>2. e \in Entry /\ history = <<e>> /\ compactRevision = 0
  BY <1>1, StoredAssumption DEF EtcdInit
<1>3. history \in Seq(Entry) /\ Len(history) = 1 /\ history[1] = e
  BY <1>2
<1>4. EtcdTypeOK
  <2> HIDE DEF Entry, e
  <2> QED
    BY <1>2, <1>3, MaxRevisionAssumption DEF EtcdTypeOK, Revision, Entry
<1> QED
  BY <1>3, <1>4 DEF Revision, Latest, ContentAt

\* A commit appends one revision and rewrites none.
LEMMA CommitAppends ==
  ASSUME EtcdTypeOK, NEW content \in Content, NEW event \in BOOLEAN, Commit(content, event)
  PROVE  /\ EtcdTypeOK'
         /\ Revision' = Revision + 1
         /\ \A r \in 1..Revision : history'[r] = history[r]
         /\ history'[Revision'] = [content |-> content, event |-> event]
<1> DEFINE Entry == [content : Content, event : BOOLEAN]
           e == [content |-> content, event |-> event]
<1>1. history \in Seq(Entry) /\ e \in Entry /\ history' = Append(history, e)
  BY DEF EtcdTypeOK, Commit
<1>2. history' \in Seq(Entry) /\ Len(history') = Len(history) + 1
  BY <1>1, AppendProperties
<1>3. \A r \in 1..Len(history) : history'[r] = history[r]
  BY <1>1, AppendProperties
<1>4. history'[Len(history) + 1] = e
  BY <1>1, AppendProperties
<1>5. Len(history) \in Nat
  BY <1>1, LenProperties
<1>6. compactRevision' = compactRevision /\ Len(history) < MaxRevision
  BY DEF Commit, Revision
<1> HIDE DEF Entry, e
<1>7. EtcdTypeOK'
  BY <1>2, <1>5, <1>6, MaxRevisionAssumption DEF EtcdTypeOK, Revision, Entry
<1> QED
  BY <1>2, <1>3, <1>4, <1>7 DEF Revision, e

\* The latest content is a content.
LEMMA LatestIsContent ==
  ASSUME EtcdTypeOK
  PROVE  /\ Revision \in 1..MaxRevision
         /\ \A r \in 1..Revision : ContentAt(r) \in Content /\ history[r].event \in BOOLEAN
         /\ Latest \in Content
<1> DEFINE Entry == [content : Content, event : BOOLEAN]
<1>1. history \in Seq(Entry) /\ Len(history) \in 1..MaxRevision
  BY DEF EtcdTypeOK, Revision
<1>2. \A r \in 1..Len(history) : history[r] \in Entry
  BY <1>1, ElementOfSeq
<1> QED
  BY <1>1, <1>2, MaxRevisionAssumption DEF Revision, ContentAt, Latest

\* Every write is a commit of a content, and one without an event changes nothing.
LEMMA WriteCommits ==
  ASSUME EtcdTypeOK, Write
  PROVE  \E content \in Content, event \in BOOLEAN :
           Commit(content, event) /\ (~event => content = Latest)
<1>1. Latest \in Content
  BY LatestIsContent
<1>2. CASE \E k \in Key : \E body \in BodyFor(k) : Put(k, body)
  <2>1. PICK k \in Key : \E body \in BodyFor(k) : Put(k, body)
    BY <1>2
  <2>2. PICK body \in BodyFor(k) : Put(k, body)
    BY <2>1
  <2>3. [Latest EXCEPT ![k] = body] \in Content
    BY <1>1, BodyAssumption DEF Content
  <2> QED
    BY <2>2, <2>3 DEF Put
<1>3. CASE \E k \in Key : Delete(k)
  <2>1. PICK k \in Key : Delete(k)
    BY <1>3
  <2>2. [Latest EXCEPT ![k] = Absent] \in Content
    BY <1>1 DEF Content
  <2> QED
    BY <2>1, <2>2 DEF Delete
<1>4. CASE WriteElsewhere
  BY <1>1, <1>4 DEF WriteElsewhere
<1> QED
  BY <1>2, <1>3, <1>4 DEF Write
=============================================================================
