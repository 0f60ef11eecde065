--------------------------- MODULE AdminStoreProofs ---------------------------
(***************************************************************************)
(* Proofs about the Admin API, for every number of calls, every set of     *)
(* keys and bodies and every bound: its type invariant, that acknowledged  *)
(* changes are committed, that reads are current, and that handlers,       *)
(* mutex and wire together implement one atomic table.                     *)
(***************************************************************************)
EXTENDS AdminStore, EtcdStoreProofs

\* Only a call that may be carried out gets as far as the mutex and the wire; a
\* handler at its etcd call has it on the wire or its result; what is still on the
\* wire when its handler has ended was given up.
CallsInOrder ==
  \A r \in Request :
    /\ pc[r] \in {"new", "lock"} => wire[r] = "unsent"
    /\ pc[r] = "etcd" => wire[r] = "sent" \/ result[r] # NoResult
    /\ pc[r] \in {"lock", "etcd"} \/ wire[r] # "unsent" =>
         call[r].authorized /\ Valid(call[r])
    /\ pc[r] = "ended" /\ wire[r] = "sent" => answer[r].status \in {"internal", "gone"}

\* An answer with a result has the one etcd gave, and says what it is.
AnswersAreResults ==
  \A r \in Request :
    IF answer[r].status \in {"ok", "not_found"}
    THEN /\ answer[r].result = result[r] /\ result[r] # NoResult
         /\ answer[r].status = "not_found" <=>
              call[r].op \in {"get", "delete"} /\ result[r].value = Absent
    ELSE answer[r].result = NoResult

\* A result of a write is the revision that made it, of a read one that it shows; and
\* both are of the time after the call.
HistoryShows(h, c, n, value, low) ==
  /\ n >= low
  /\ c.op \in {"get", "list"} => value = Reading(c, h[n].content)
  /\ c.op = "put" \/ (c.op = "delete" /\ value # Absent) =>
       /\ n > 1 /\ n > low /\ h[n].event
       /\ h[n].content =
            [h[n - 1].content EXCEPT ![KeyOf(c)] = IF c.op = "put" THEN c.body ELSE Absent]

ResultsAreHistory ==
  \A r \in Request :
    result[r] # NoResult =>
      HistoryShows(history, call[r], result[r].revision, result[r].value, floor[r])

IInv ==
  /\ TypeOK
  /\ CallsInOrder
  /\ AnswersAreResults
  /\ ResultsAreHistory

-----------------------------------------------------------------------------
(* The inductive invariant *)

\* A change of one key is a revision of its own.
LEMMA ChangeOfOneKey ==
  ASSUME EtcdTypeOK, NEW k, NEW value \in Body \cup {Absent},
         Commit([Latest EXCEPT ![k] = value], TRUE)
  PROVE  /\ EtcdTypeOK'
         /\ Revision \in Nat \ {0} /\ Revision' = Revision + 1
         /\ \A r \in 1..Revision : history'[r] = history[r]
         /\ history'[Revision'].event
         /\ Latest' = [Latest EXCEPT ![k] = value]
<1>1. Latest \in Content /\ Revision \in 1..MaxRevision
  BY LatestIsContent
<1>2. [Latest EXCEPT ![k] = value] \in Content
  BY <1>1 DEF Content
<1>3. /\ EtcdTypeOK' /\ Revision' = Revision + 1
      /\ \A r \in 1..Revision : history'[r] = history[r]
      /\ history'[Revision'] = [content |-> [Latest EXCEPT ![k] = value], event |-> TRUE]
  BY <1>2, CommitAppends
<1> QED
  BY <1>1, <1>3, MaxRevisionAssumption DEF Latest, ContentAt

\* The invariant holds before the first call.
LEMMA InitInv == AdminInit => IInv
<1> SUFFICES ASSUME AdminInit PROVE IInv
  OBVIOUS
<1>1. EtcdTypeOK /\ Revision = 1
  BY HistoryBegins DEF AdminInit
<1>2. /\ pc = [r \in Request |-> "new"] /\ call \in [Request -> Call]
      /\ holder = None /\ None \notin Request /\ wire = [r \in Request |-> "unsent"]
      /\ result = [r \in Request |-> NoResult] /\ answer = [r \in Request |-> NoAnswer]
      /\ newest = 0 /\ floor = [r \in Request |-> 0]
  BY CallsAssumption, NamesAssumption DEF AdminInit
<1>3. TypeOK
  BY <1>1, <1>2 DEF TypeOK, NoAnswer
<1>4. CallsInOrder /\ ResultsAreHistory
  BY <1>2 DEF CallsInOrder, ResultsAreHistory
<1>5. AnswersAreResults
  <2>1. \A r \in Request : answer[r].status = None /\ answer[r].result = NoResult
    BY <1>2 DEF NoAnswer
  <2>2. \A r \in Request : answer[r].status \notin {"ok", "not_found"}
    BY <2>1, NamesAssumption DEF Status
  <2> QED
    BY <2>1, <2>2 DEF AnswersAreResults
<1> QED
  BY <1>3, <1>4, <1>5 DEF IInv

\* What a step that leaves the store and the results alone keeps of the results.
LEMMA QuietStep ==
  ASSUME IInv, UNCHANGED <<etcdVars, call, result>>
  PROVE  /\ EtcdTypeOK' /\ Revision' = Revision /\ Revision \in Nat
         /\ floor' = floor => ResultsAreHistory'
<1>1. history' = history /\ compactRevision' = compactRevision
  BY DEF etcdVars
<1>2. EtcdTypeOK' /\ Revision' = Revision /\ Revision \in Nat
  BY <1>1, LatestIsContent, MaxRevisionAssumption DEF IInv, TypeOK, EtcdTypeOK, Revision
<1>3. ASSUME floor' = floor PROVE ResultsAreHistory'
  BY <1>1, <1>3 DEF IInv, ResultsAreHistory
<1> QED
  BY <1>2, <1>3

\* A call that begins knows what was acknowledged, and has no result.
LEMMA BeginStep ==
  ASSUME IInv, NEW r \in Request, Begin(r)
  PROVE  IInv'
<1>1. /\ EtcdTypeOK' /\ Revision' = Revision /\ Revision \in Nat
  BY QuietStep DEF Begin
<1>2. /\ pc[r] = "new" /\ floor' = [floor EXCEPT ![r] = newest]
      /\ UNCHANGED <<etcdVars, call, holder, wire, result, newest>>
  BY DEF Begin
<1>3. wire[r] = "unsent" /\ result[r] = NoResult /\ answer[r] = NoAnswer
  BY <1>2 DEF IInv, TypeOK, CallsInOrder
<1>4. CASE /\ call[r].authorized /\ Valid(call[r])
           /\ pc' = [pc EXCEPT ![r] = "lock"] /\ UNCHANGED answer
  <2>1. TypeOK'
    BY <1>1, <1>2, <1>3, <1>4 DEF IInv, TypeOK
  <2>2. CallsInOrder'
    BY <1>2, <1>3, <1>4 DEF IInv, TypeOK, CallsInOrder
  <2>3. AnswersAreResults'
    BY <1>2, <1>4 DEF IInv, AnswersAreResults
  <2>4. ResultsAreHistory'
    BY <1>2, <1>3 DEF IInv, TypeOK, ResultsAreHistory, etcdVars
  <2> QED
    BY <2>1, <2>2, <2>3, <2>4 DEF IInv
<1>5. CASE \E status \in {"unauthorized", "invalid"} : EndWith(r, status, NoResult)
  <2>1. PICK status \in {"unauthorized", "invalid"} : EndWith(r, status, NoResult)
    BY <1>5
  <2>2. /\ pc' = [pc EXCEPT ![r] = "ended"]
        /\ answer' = [answer EXCEPT ![r] = [status |-> status, result |-> NoResult]]
    BY <2>1 DEF EndWith
  <2>3. TypeOK'
    BY <1>1, <1>2, <1>3, <2>2 DEF IInv, TypeOK, Status
  <2>4. CallsInOrder'
    BY <1>2, <1>3, <2>2 DEF IInv, TypeOK, CallsInOrder
  <2>5. AnswersAreResults'
    BY <1>2, <2>2 DEF IInv, TypeOK, AnswersAreResults
  <2>6. ResultsAreHistory'
    BY <1>2, <1>3 DEF IInv, TypeOK, ResultsAreHistory, etcdVars
  <2> QED
    BY <2>3, <2>4, <2>5, <2>6 DEF IInv
<1> QED
  BY <1>4, <1>5 DEF Begin

\* The call that gets the mutex is the one on the wire.
LEMMA LockStep ==
  ASSUME IInv, NEW r \in Request, Lock(r)
  PROVE  IInv'
<1>1. /\ EtcdTypeOK' /\ Revision' = Revision /\ ResultsAreHistory'
  BY QuietStep DEF Lock
<1>2. /\ pc[r] = "lock" /\ holder = None /\ holder' = r
      /\ pc' = [pc EXCEPT ![r] = "etcd"] /\ wire' = [wire EXCEPT ![r] = "sent"]
      /\ UNCHANGED <<etcdVars, call, result, answer, newest, floor>>
  BY DEF Lock
<1>3. result[r] = NoResult
  BY <1>2 DEF IInv, TypeOK, CallsInOrder
<1>4. TypeOK'
  BY <1>1, <1>2, <1>3, NamesAssumption DEF IInv, TypeOK
<1>5. CallsInOrder'
  BY <1>2 DEF IInv, TypeOK, CallsInOrder
<1>6. AnswersAreResults'
  BY <1>2 DEF IInv, AnswersAreResults
<1> QED
  BY <1>1, <1>4, <1>5, <1>6 DEF IInv

\* Whoever executes a call has it on the wire and no result yet; if the result is
\* history, so are all.
LEMMA ExecuteKeeps ==
  ASSUME IInv, NEW r \in Request, wire[r] = "sent",
         result' = [result EXCEPT ![r] = result'[r]], wire' = [wire EXCEPT ![r] = "done"],
         UNCHANGED <<pc, call, holder, answer, newest, floor>>,
         EtcdTypeOK', Revision <= Revision', Revision' \in Nat,
         \A n \in 1..Revision : history'[n] = history[n],
         result'[r] # NoResult, result'[r].revision \in 1..Revision',
         HistoryShows(history', call[r], result'[r].revision, result'[r].value, floor[r])
  PROVE  IInv'
<1>1. result[r] = NoResult /\ answer[r].status \notin {"ok", "not_found"}
  BY NamesAssumption DEF IInv, TypeOK, CallsInOrder, AnswersAreResults, Status, NoAnswer
<1>2. Revision \in Nat \ {0}
  BY LatestIsContent, MaxRevisionAssumption DEF IInv, TypeOK
<1>3. TypeOK'
  <2>1. newest' \in 0..Revision' /\ floor' \in [Request -> 0..newest']
    BY <1>2 DEF IInv, TypeOK
  <2>2. /\ call' \in [Request -> Call] /\ pc' \in [Request -> {"new", "lock", "etcd", "ended"}]
        /\ holder' \in Request \cup {None} /\ wire' \in [Request -> {"unsent", "sent", "done"}]
        /\ DOMAIN result' = Request /\ DOMAIN answer' = Request
    BY DEF IInv, TypeOK
  <2>3. ASSUME NEW q \in Request
        PROVE  /\ result'[q] # NoResult => wire'[q] = "done" /\ result'[q].revision \in 1..Revision'
               /\ answer'[q].result \in {NoResult, result'[q]}
    BY <1>1, <1>2, <2>3 DEF IInv, TypeOK
  <2> QED
    BY <2>1, <2>2, <2>3 DEF IInv, TypeOK
<1>4. CallsInOrder'
  BY DEF IInv, TypeOK, CallsInOrder
<1>5. AnswersAreResults'
  BY <1>1 DEF IInv, TypeOK, AnswersAreResults
<1>6. ResultsAreHistory'
  <2> SUFFICES ASSUME NEW q \in Request, result'[q] # NoResult
               PROVE  HistoryShows(history', call[q], result'[q].revision, result'[q].value,
                                   floor[q])
    BY DEF ResultsAreHistory
  <2>1. CASE q = r
    BY <2>1
  <2>2. CASE q # r
    <3>1. result'[q] = result[q] /\ result[q].revision \in 1..Revision
      BY <2>2 DEF IInv, TypeOK
    <3>2. HistoryShows(history, call[q], result[q].revision, result[q].value, floor[q])
      BY <3>1 DEF IInv, ResultsAreHistory
    <3> QED
      BY <1>2, <3>1, <3>2 DEF HistoryShows
  <2> QED
    BY <2>1, <2>2
<1> QED
  BY <1>3, <1>4, <1>5, <1>6 DEF IInv

\* A read shows the latest revision.
LEMMA ReadStep ==
  ASSUME IInv, NEW r \in Request, ExecuteRead(r)
  PROVE  IInv'
<1>1. /\ wire[r] = "sent" /\ call[r].op \in {"get", "list"}
      /\ result' = [result EXCEPT ![r] = [revision |-> Revision,
                                          value |-> Reading(call[r], Latest)]]
      /\ wire' = [wire EXCEPT ![r] = "done"]
      /\ UNCHANGED <<etcdVars, pc, call, holder, answer, newest, floor>>
  BY DEF ExecuteRead
<1>2. history' = history /\ compactRevision' = compactRevision
  BY <1>1 DEF etcdVars
<1>3. EtcdTypeOK' /\ Revision' = Revision /\ Revision \in Nat \ {0}
  BY <1>2, LatestIsContent, MaxRevisionAssumption DEF IInv, TypeOK, EtcdTypeOK, Revision
<1>4. /\ result'[r] = [revision |-> Revision, value |-> Reading(call[r], Latest)]
      /\ result' = [result EXCEPT ![r] = result'[r]]
  BY <1>1 DEF IInv, TypeOK
<1>5. /\ result'[r].revision = Revision /\ result'[r] # NoResult
      /\ result'[r].value = Reading(call[r], history'[Revision].content)
  BY <1>2, <1>3, <1>4 DEF NoResult, Latest, ContentAt
<1>6. floor[r] <= Revision
  BY <1>3 DEF IInv, TypeOK
<1>7. HistoryShows(history', call[r], result'[r].revision, result'[r].value, floor[r])
  BY <1>1, <1>3, <1>5, <1>6 DEF HistoryShows
<1>8. /\ Revision <= Revision' /\ Revision' \in Nat /\ result'[r].revision \in 1..Revision'
      /\ \A n \in 1..Revision : history'[n] = history[n]
  BY <1>2, <1>3, <1>5
<1>9. UNCHANGED <<pc, call, holder, answer, newest, floor>>
  BY <1>1
<1> QED
  BY <1>1, <1>3, <1>4, <1>5, <1>7, <1>8, <1>9, ExecuteKeeps

\* A write makes its revision, and leaves those before it as they are.
LEMMA WriteStep ==
  ASSUME IInv, NEW r \in Request, ExecuteWrite(r)
  PROVE  IInv'
<1> DEFINE c == call[r]
           k == KeyOf(c)
           new == IF c.op = "put" THEN c.body ELSE Absent
<1>1. /\ wire[r] = "sent" /\ c.op \in {"put", "delete"}
      /\ result' = [result EXCEPT ![r] = [revision |-> Revision', value |-> Latest[k]]]
      /\ wire' = [wire EXCEPT ![r] = "done"]
      /\ UNCHANGED <<pc, call, holder, answer, newest, floor>>
  BY DEF ExecuteWrite, Revision
<1>2. /\ result'[r] = [revision |-> Revision', value |-> Latest[k]]
      /\ result'[r].revision = Revision' /\ result'[r].value = Latest[k]
      /\ result' = [result EXCEPT ![r] = result'[r]]
  BY <1>1 DEF IInv, TypeOK
<1>3. Revision \in Nat \ {0} /\ EtcdTypeOK
  BY LatestIsContent, MaxRevisionAssumption DEF IInv, TypeOK
<1>4. Valid(c) /\ c \in Call /\ floor[r] <= Revision /\ floor[r] \in Nat
  BY <1>1, <1>3 DEF IInv, TypeOK, CallsInOrder
<1>5. CASE Commit([Latest EXCEPT ![k] = new], TRUE)
  <2>1. new \in Body \cup {Absent}
    BY <1>4, PayloadAssumption
  <2>2. /\ EtcdTypeOK' /\ Revision' = Revision + 1
        /\ \A n \in 1..Revision : history'[n] = history[n]
        /\ history'[Revision'].event
        /\ Latest' = [Latest EXCEPT ![k] = new]
    <3> HIDE DEF new, k, c
    <3> QED
      BY <1>3, <1>5, <2>1, ChangeOfOneKey
  <2>3. result'[r] # NoResult /\ result'[r].revision \in 1..Revision'
    BY <1>2, <1>3, <2>2 DEF NoResult
  <2>4. history'[Revision'].content = [history'[Revision' - 1].content EXCEPT ![k] = new]
    BY <1>3, <2>2 DEF Latest, ContentAt
  <2>5. HistoryShows(history', c, result'[r].revision, result'[r].value, floor[r])
    BY <1>1, <1>2, <1>3, <1>4, <2>2, <2>4 DEF HistoryShows
  <2>6. Revision <= Revision' /\ Revision' \in Nat
    BY <1>3, <2>2
  <2> HIDE DEF c, k, new
  <2> QED
    BY <1>1, <1>2, <2>2, <2>3, <2>5, <2>6, ExecuteKeeps DEF c
<1>6. CASE c.op = "delete" /\ Latest[k] = Absent /\ UNCHANGED etcdVars
  <2>1. history' = history /\ compactRevision' = compactRevision
    BY <1>6 DEF etcdVars
  <2>2. EtcdTypeOK' /\ Revision' = Revision
    BY <1>3, <2>1 DEF EtcdTypeOK, Revision
  <2>3. result'[r] # NoResult /\ result'[r].revision \in 1..Revision'
    BY <1>2, <1>3, <2>2 DEF NoResult
  <2>4. HistoryShows(history', c, result'[r].revision, result'[r].value, floor[r])
    BY <1>2, <1>3, <1>4, <1>6, <2>2 DEF HistoryShows
  <2>5. /\ Revision <= Revision' /\ Revision' \in Nat
        /\ \A n \in 1..Revision : history'[n] = history[n]
    BY <1>3, <2>1, <2>2
  <2> QED
    BY <1>1, <1>2, <2>2, <2>3, <2>4, <2>5, ExecuteKeeps
<1> QED
  BY <1>5, <1>6 DEF ExecuteWrite, Put, Delete

\* An end that gives the client nothing may leave the call on the wire.
LEMMA GiveUpStep ==
  ASSUME IInv, NEW r \in Request, Fail(r) \/ Cancel(r)
  PROVE  IInv'
<1>1. /\ EtcdTypeOK' /\ Revision' = Revision /\ ResultsAreHistory'
  BY QuietStep DEF Fail, Cancel
<1>2. PICK status \in {"internal", "gone"} : EndWith(r, status, NoResult)
  BY DEF Fail, Cancel
<1>3. /\ pc[r] \in {"lock", "etcd"} /\ pc' = [pc EXCEPT ![r] = "ended"]
      /\ answer' = [answer EXCEPT ![r] = [status |-> status, result |-> NoResult]]
      /\ holder' = IF holder = r THEN None ELSE holder
      /\ wire' \in {wire, [wire EXCEPT ![r] = "done"]}
      /\ UNCHANGED <<etcdVars, call, result, newest, floor>>
  BY <1>2 DEF EndWith, Fail, Cancel, IInv, TypeOK
<1>4. TypeOK'
  BY <1>1, <1>3, NamesAssumption DEF IInv, TypeOK, Status
<1>5. CallsInOrder'
  BY <1>3 DEF IInv, TypeOK, CallsInOrder
<1>6. AnswersAreResults'
  BY <1>3 DEF IInv, TypeOK, AnswersAreResults
<1> QED
  BY <1>1, <1>4, <1>5, <1>6 DEF IInv

\* An answer is the result, unless it does not decode.
LEMMA AnswerStep ==
  ASSUME IInv, NEW r \in Request, Answer(r)
  PROVE  IInv'
<1>1. /\ EtcdTypeOK' /\ Revision' = Revision /\ Revision \in Nat /\ ResultsAreHistory'
  BY QuietStep DEF Answer
<1>2. /\ pc[r] = "etcd" /\ wire[r] = "done" /\ holder' = None
      /\ newest' = Larger(newest, answer'[r].result.revision)
      /\ UNCHANGED <<etcdVars, call, wire, result, floor>>
  BY DEF Answer
<1>3. result[r] # NoResult /\ result[r].revision \in 1..Revision
  BY <1>2 DEF IInv, TypeOK, CallsInOrder
<1>4. PICK status \in {"ok", "not_found", "internal"} :
        /\ EndWith(r, status, IF status = "internal" THEN NoResult ELSE result[r])
        /\ status # "internal" =>
             (status = "not_found" <=>
                call[r].op \in {"get", "delete"} /\ result[r].value = Absent)
  BY DEF Answer
<1>5. /\ pc' = [pc EXCEPT ![r] = "ended"]
      /\ answer' = [answer EXCEPT ![r] =
                      [status |-> status,
                       result |-> IF status = "internal" THEN NoResult ELSE result[r]]]
  BY <1>4 DEF EndWith
<1>6. newest' \in 0..Revision /\ newest <= newest'
  <2>1. answer'[r].result.revision \in 0..Revision
    BY <1>1, <1>3, <1>5 DEF IInv, TypeOK, NoResult
  <2> QED
    BY <1>1, <1>2, <2>1 DEF IInv, TypeOK, Larger
<1>7. TypeOK'
  BY <1>1, <1>2, <1>3, <1>5, <1>6, NamesAssumption DEF IInv, TypeOK, Status
<1>8. CallsInOrder'
  BY <1>2, <1>5 DEF IInv, TypeOK, CallsInOrder
<1>9. AnswersAreResults'
  BY <1>2, <1>3, <1>4, <1>5 DEF IInv, TypeOK, AnswersAreResults
<1> QED
  BY <1>1, <1>7, <1>8, <1>9 DEF IInv

\* Every step keeps the invariant.
LEMMA NextInv == IInv /\ [AdminNext]_vars => IInv'
<1> SUFFICES ASSUME IInv, [AdminNext]_vars PROVE IInv'
  OBVIOUS
<1>1. CASE AdminNext
  BY <1>1, BeginStep, LockStep, ReadStep, WriteStep, AnswerStep, GiveUpStep DEF AdminNext
<1>2. CASE UNCHANGED vars
  <2>1. UNCHANGED <<etcdVars, pc, call, holder, wire, result, answer, newest, floor>>
    BY <1>2 DEF vars, adminVars
  <2>2. EtcdTypeOK' /\ Revision' = Revision /\ ResultsAreHistory'
    BY <2>1, QuietStep
  <2> QED
    BY <2>1, <2>2 DEF IInv, TypeOK, CallsInOrder, AnswersAreResults
<1> QED
  BY <1>1, <1>2

\* The invariant holds always.
LEMMA Invariance == AdminSpec => []IInv
<1> QED
  BY InitInv, NextInv, PTL DEF AdminSpec

\* The type invariant: the mutex is held by exactly the handler at its etcd call, only
\* calls carried out have results, and only handlers that ended have answered.
THEOREM TypeCorrect == AdminSpec => []TypeOK
<1>1. IInv => TypeOK
  BY DEF IInv
<1> QED
  BY <1>1, Invariance, PTL

\* Whatever is acknowledged to a writer is what etcd committed at that revision, after
\* everything acknowledged before the call.
THEOREM ChangesAreCommitted == AdminSpec => []AcknowledgedMeansCommitted
<1>1. ASSUME IInv PROVE AcknowledgedMeansCommitted
  <2> SUFFICES ASSUME NEW r \in Request, answer[r].status = "ok",
                      call[r].op \in {"put", "delete"}
               PROVE  LET n == answer[r].result.revision IN
                      /\ n > 1 /\ n > floor[r] /\ history[n].event
                      /\ ContentAt(n) =
                           [ContentAt(n - 1) EXCEPT ![KeyOf(call[r])] =
                              IF call[r].op = "put" THEN call[r].body ELSE Absent]
    BY DEF AcknowledgedMeansCommitted
  <2>1. /\ answer[r].result = result[r] /\ result[r] # NoResult
        /\ call[r].op = "delete" => result[r].value # Absent
    BY <1>1 DEF IInv, AnswersAreResults
  <2>2. HistoryShows(history, call[r], result[r].revision, result[r].value, floor[r])
    BY <1>1, <2>1 DEF IInv, ResultsAreHistory
  <2> QED
    BY <2>1, <2>2 DEF HistoryShows, ContentAt
<1> QED
  BY <1>1, Invariance, PTL

\* What a reader is told was so at one revision, not older than anything acknowledged
\* before the call.
THEOREM ReadersAreCurrent == AdminSpec => []ReadsAreCurrent
<1>1. ASSUME IInv PROVE ReadsAreCurrent
  <2> SUFFICES ASSUME NEW r \in Request, answer[r].result # NoResult,
                      call[r].op \in {"get", "list"}
               PROVE  LET seen == answer[r].result IN
                      /\ seen.revision >= floor[r]
                      /\ seen.value = Reading(call[r], ContentAt(seen.revision))
    BY DEF ReadsAreCurrent
  <2>1. answer[r].result = result[r]
    BY <1>1 DEF IInv, TypeOK
  <2>2. HistoryShows(history, call[r], result[r].revision, result[r].value, floor[r])
    BY <1>1, <2>1 DEF IInv, ResultsAreHistory
  <2> QED
    BY <2>1, <2>2 DEF HistoryShows, ContentAt
<1> QED
  BY <1>1, Invariance, PTL

-----------------------------------------------------------------------------
(* What is written can be loaded *)

\* Every entry is absent, could be decoded, or is what was there before the first call.
EntriesDecode ==
  \A k \in Key :
    \/ Latest[k] = Absent
    \/ C!Decodes(k, Latest[k])
    \/ Latest[k] = ContentAt(1)[k]

\* The initial entries are the initial content's.
LEMMA FirstEntries == AdminInit => EntriesDecode
<1> SUFFICES ASSUME AdminInit PROVE EntriesDecode
  OBVIOUS
<1>1. Revision = 1
  BY HistoryBegins DEF AdminInit
<1> QED
  BY <1>1 DEF EntriesDecode, Latest

\* No step of the administrators stores an entry that does not decode.
LEMMA EntriesStep == IInv /\ EntriesDecode /\ [AdminNext]_vars => EntriesDecode'
<1> SUFFICES ASSUME IInv, EntriesDecode, [AdminNext]_vars PROVE EntriesDecode'
  OBVIOUS
<1>0. Revision \in Nat \ {0} /\ EtcdTypeOK /\ Latest \in Content
  BY LatestIsContent, MaxRevisionAssumption DEF IInv, TypeOK
<1>1. ASSUME UNCHANGED etcdVars PROVE EntriesDecode'
  BY <1>1 DEF etcdVars, EntriesDecode, Latest, ContentAt, Revision
<1>2. ASSUME NEW r \in Request, ExecuteWrite(r) PROVE EntriesDecode'
  <2> DEFINE c == call[r]
             k == KeyOf(c)
             new == IF c.op = "put" THEN c.body ELSE Absent
  <2>1. wire[r] = "sent" /\ c.op \in {"put", "delete"}
    BY <1>2 DEF ExecuteWrite
  <2>2. c \in Call /\ Valid(c)
    BY <2>1 DEF IInv, TypeOK, CallsInOrder
  <2>3. new \in Body \cup {Absent}
    BY <2>2, PayloadAssumption
  <2>4. CASE Commit([Latest EXCEPT ![k] = new], TRUE)
    <3>1. new = Absent \/ C!Decodes(k, new)
      <4>1. CASE c.op = "put"
        <5>1. k = <<c.collection, c.id>> /\ c.body.id = c.id /\ c.body # Undecodable
          BY <2>1, <2>2, <4>1, PayloadAssumption DEF Valid, KeyOf, resource_key
        <5>2. c.collection \in C!Collections
          BY <2>2, RouteAssumption
        <5> QED
          BY <4>1, <5>1, <5>2 DEF C!Decodes
      <4>2. CASE c.op = "delete"
        BY <4>2
      <4> QED
        BY <2>1, <4>1, <4>2
    <3> HIDE DEF c, k, new
    <3>2. /\ \A n \in 1..Revision : history'[n] = history[n]
          /\ Latest' = [Latest EXCEPT ![k] = new]
      BY <1>0, <2>3, <2>4, ChangeOfOneKey
    <3>3. ContentAt(1)' = ContentAt(1)
      BY <1>0, <3>2 DEF ContentAt
    <3>4. \A j \in Key : Latest'[j] = IF j = k THEN new ELSE Latest[j]
      BY <1>0, <3>2 DEF Content
    <3> QED
      BY <3>1, <3>3, <3>4 DEF EntriesDecode
  <2> QED
    BY <1>1, <1>2, <2>1, <2>4 DEF ExecuteWrite, Put, Delete
<1> QED
  BY <1>1, <1>2
     DEF AdminNext, vars, Begin, Lock, ExecuteRead, Answer, Fail, Cancel

\* A content all of whose entries decode compiles unless two keys share a token: ids
\* are unique because each is the last segment of its key.
LEMMA DecodedContentCompiles ==
  ASSUME "revision" \notin DOMAIN HardError, NEW content \in Content, NEW revision,
         \A k \in Key : content[k] = Absent \/ C!Decodes(k, content[k]),
         C!compile_snapshot_from_entries(content, revision) = HardError
  PROVE  SharedToken(content)
<1> DEFINE P == C!Members(content, "providers")
           M == C!Members(content, "models")
           A == C!Members(content, "apikeys")
           L == C!Members(content, "policies")
<1>1. DOMAIN content = Key
  BY DEF Content
<1>2. C!compile_snapshot(P, M, A, L, revision) = HardError
  BY <1>1 DEF C!compile_snapshot_from_entries, C!Present
<1>3. ASSUME NEW collection PROVE C!Unique(C!Members(content, collection), "id")
  <2> SUFFICES ASSUME NEW a \in C!Members(content, collection),
                      NEW b \in C!Members(content, collection), a.id = b.id
               PROVE  a = b
    BY DEF C!Unique
  <2>1. PICK j \in Key : j[1] = collection /\ content[j] # Absent /\ content[j] = a
    BY <1>1 DEF C!Members, C!Present
  <2>2. PICK k \in Key : k[1] = collection /\ content[k] # Absent /\ content[k] = b
    BY <1>1 DEF C!Members, C!Present
  <2>3. a.id = j[2] /\ b.id = k[2]
    BY <2>1, <2>2 DEF C!Decodes
  <2>4. j = k
    BY <2>1, <2>2, <2>3, RouteAssumption
  <2> QED
    BY <2>1, <2>2, <2>4
<1>4. ~C!UniqueTokens(A)
  <2> SUFFICES ASSUME C!UniqueTokens(A) PROVE FALSE
    OBVIOUS
  <2>1. \A items \in {L, P, M, A} : C!Unique(items, "id")
    BY <1>3
  <2> HIDE DEF P, M, A, L
  <2>2. "revision" \in DOMAIN C!compile_snapshot(P, M, A, L, revision)
    BY <2>1 DEF C!compile_snapshot
  <2> QED
    BY <1>2, <2>2
<1>5. PICK a \in A, b \in A : a.key = b.key /\ a # b
  BY <1>4 DEF C!UniqueTokens, C!Unique
<1>6. PICK j \in Key : j[1] = "apikeys" /\ content[j] # Absent /\ content[j] = a
  BY <1>1 DEF C!Members, C!Present
<1>7. PICK k \in Key : k[1] = "apikeys" /\ content[k] # Absent /\ content[k] = b
  BY <1>1 DEF C!Members, C!Present
<1>8. content[j] # Undecodable /\ content[k] # Undecodable
  BY <1>6, <1>7 DEF C!Decodes
<1> QED
  BY <1>5, <1>6, <1>7, <1>8 DEF SharedToken

\* A prefix that could be loaded stays so under the Admin API's calls, but for tokens
\* given to two keys (an error is not a snapshot: it has no revision).
THEOREM AcceptedCanBeLoaded ==
  ASSUME "revision" \notin DOMAIN HardError
  PROVE  AdminSpec => []OnlySharedTokensBreakTheLoad
<1>1. ASSUME IInv, EntriesDecode,
             C!compile_snapshot_from_entries(Latest, Revision) = HardError,
             C!compile_snapshot_from_entries(ContentAt(1), 1) # HardError
      PROVE  SharedToken(Latest)
  <2>1. Latest \in Content /\ ContentAt(1) \in Content
    BY <1>1, LatestIsContent DEF IInv, TypeOK
  <2>2. \A k \in Key : ContentAt(1)[k] = Absent \/ C!Decodes(k, ContentAt(1)[k])
    BY <1>1, <2>1 DEF C!compile_snapshot_from_entries, C!Present, Content
  <2>3. \A k \in Key : Latest[k] = Absent \/ C!Decodes(k, Latest[k])
    BY <1>1, <2>2 DEF EntriesDecode
  <2> QED
    BY <1>1, <2>1, <2>3, DecodedContentCompiles
<1>2. IInv /\ EntriesDecode => OnlySharedTokensBreakTheLoad
  BY <1>1 DEF OnlySharedTokensBreakTheLoad
<1>3. AdminSpec => []EntriesDecode
  BY FirstEntries, EntriesStep, Invariance, PTL DEF AdminSpec
<1> QED
  BY <1>2, <1>3, Invariance, PTL

-----------------------------------------------------------------------------
(* The refinement *)

\* A step of one call moves its phase and what it is told, and nobody else's.
LEMMA OneCallMoves ==
  ASSUME NEW r \in Request, \A q \in Request \ {r} : pc'[q] = pc[q] /\ answer'[q] = answer[q]
  PROVE  /\ phase' = [phase EXCEPT ![r] = Phase(r)']
         /\ told' = [told EXCEPT ![r] = [status |-> answer'[r].status,
                                         found |-> answer'[r].result.value]]
<1>1. \A q \in Request \ {r} : Phase(q)' = Phase(q)
  BY DEF Phase
<1> QED
  BY <1>1 DEF phase, told

\* What is not touched stays as it is.
LEMMA OutOfSight ==
  /\ UNCHANGED <<pc, answer>> => UNCHANGED <<phase, told>>
  /\ UNCHANGED result => UNCHANGED effect
  /\ UNCHANGED etcdVars => Latest' = Latest
<1>1. ASSUME UNCHANGED <<pc, answer>> PROVE UNCHANGED <<phase, told>>
  BY <1>1 DEF phase, told, Phase
<1>2. ASSUME UNCHANGED result PROVE UNCHANGED effect
  BY <1>2 DEF effect
<1>3. ASSUME UNCHANGED etcdVars PROVE Latest' = Latest
  BY <1>3 DEF etcdVars, Latest, ContentAt, Revision
<1> QED
  BY <1>1, <1>2, <1>3

\* The first states are the service's.
LEMMA InitRefines == AdminInit => Service!ServiceInit
<1> SUFFICES ASSUME AdminInit PROVE Service!ServiceInit
  OBVIOUS
<1>1. Latest \in Stored /\ call \in Calls
  BY HistoryBegins DEF AdminInit
<1>2. \A r \in Request : pc[r] = "new" /\ result[r] = NoResult /\ answer[r] = NoAnswer
  BY DEF AdminInit
<1>3. phase = [r \in Request |-> "new"] /\ effect = [r \in Request |-> <<>>]
  BY <1>2 DEF phase, Phase, effect
<1>4. told = [r \in Request |-> Service!NotTold]
  BY <1>2 DEF told, NoAnswer, NoResult, Service!NotTold
<1> QED
  BY <1>1, <1>3, <1>4 DEF Service!ServiceInit

\* A call is turned away, or is open from now on.
LEMMA BeginRefines ==
  ASSUME IInv, NEW r \in Request, Begin(r)
  PROVE  Service!Refuse(r) \/ Service!Invoke(r)
<1>1. /\ pc[r] = "new" /\ phase[r] = "new"
      /\ Latest' = Latest /\ call' = call /\ effect' = effect
  BY OutOfSight DEF Begin, phase, Phase
<1>2. CASE /\ call[r].authorized /\ Valid(call[r])
           /\ pc' = [pc EXCEPT ![r] = "lock"] /\ UNCHANGED answer
  <2>1. Phase(r)' = "open"
    BY <1>2 DEF IInv, TypeOK, Phase
  <2>2. phase' = [phase EXCEPT ![r] = "open"]
    BY <1>2, <2>1, OneCallMoves
  <2>3. told' = told
    BY <1>2 DEF told
  <2> QED
    BY <1>1, <1>2, <2>2, <2>3 DEF Service!Invoke
<1>3. CASE /\ ~call[r].authorized \/ ~Valid(call[r])
           /\ EndWith(r, Service!Refusal(call[r]), NoResult)
  <2>1. /\ pc'[r] = "ended" /\ answer'[r].status = Service!Refusal(call[r])
        /\ answer'[r].result = NoResult
        /\ \A q \in Request \ {r} : pc'[q] = pc[q] /\ answer'[q] = answer[q]
    BY <1>3 DEF EndWith, IInv, TypeOK
  <2>2. Phase(r)' = "refused"
    BY <2>1 DEF Phase, Outcome, Service!Refusal
  <2>3. /\ phase' = [phase EXCEPT ![r] = "refused"]
        /\ told' = [told EXCEPT ![r] = [status |-> Service!Refusal(call[r]), found |-> None]]
    BY <2>1, <2>2, OneCallMoves DEF NoResult
  <2> QED
    BY <1>1, <1>3, <2>3 DEF Service!Refuse, Service!Tell
<1> QED
  BY <1>2, <1>3 DEF Begin, Service!Refusal

\* What etcd carries out is the call's one moment.
LEMMA ExecuteRefines ==
  ASSUME IInv, IInv', NEW r \in Request, ExecuteRead(r) \/ ExecuteWrite(r)
  PROVE  Service!TakeEffect(r)
<1>0. EtcdTypeOK /\ Absent \in Body \cup {Absent}
  BY DEF IInv, TypeOK
<1>1. /\ wire[r] = "sent" /\ wire' = [wire EXCEPT ![r] = "done"]
      /\ UNCHANGED <<pc, call, answer>>
  BY DEF ExecuteRead, ExecuteWrite
<1>2. PICK n \in {Revision, Revision'} :
        result' = [result EXCEPT ![r] = [revision |-> n, value |-> Reading(call[r], Latest)]]
  BY DEF ExecuteRead, ExecuteWrite, Reading, Revision
<1>3. n # 0
  BY LatestIsContent, MaxRevisionAssumption DEF IInv, TypeOK, EtcdTypeOK
<1>4. result[r] = NoResult /\ phase[r] \in {"open", "givenup"}
  BY <1>1 DEF IInv, TypeOK, CallsInOrder, phase, Phase, Outcome
<1>5. effect[r] = <<>> /\ effect' = [effect EXCEPT ![r] = <<Reading(call[r], Latest)>>]
  <2>1. /\ result'[r] = [revision |-> n, value |-> Reading(call[r], Latest)]
        /\ \A q \in Request \ {r} : result'[q] = result[q]
    BY <1>2 DEF IInv, TypeOK
  <2>2. result'[r] # NoResult
    BY <1>3, <2>1 DEF NoResult
  <2>3. effect'[r] = <<Reading(call[r], Latest)>>
    BY <2>1, <2>2 DEF effect
  <2>4. \A q \in Request \ {r} : effect'[q] = effect[q]
    BY <2>1 DEF effect
  <2> QED
    BY <1>4, <2>3, <2>4 DEF effect
<1>6. phase' = phase /\ told' = told
  BY <1>1, OutOfSight
<1>7. Latest' = Service!After(call[r])
  <2> DEFINE c == call[r]
             k == KeyOf(c)
  <2>1. CASE c.op \in {"get", "list"}
    BY <2>1, OutOfSight DEF Service!After, ExecuteRead, ExecuteWrite
  <2>2. CASE c.op = "put"
    <3>1. c.body \in Body \cup {Absent}
      BY <1>1, <2>2, PayloadAssumption DEF IInv, TypeOK, CallsInOrder
    <3>2. Commit([Latest EXCEPT ![k] = c.body], TRUE)
      BY <2>2 DEF ExecuteRead, ExecuteWrite, Put
    <3>3. Latest' = [Latest EXCEPT ![k] = c.body]
      <4> HIDE DEF k, c
      <4> QED
        BY <1>0, <3>1, <3>2, ChangeOfOneKey
    <3> QED
      BY <2>2, <3>3 DEF Service!After
  <2>3. CASE c.op = "delete"
    <3>1. CASE Commit([Latest EXCEPT ![k] = Absent], TRUE)
      <4>1. Latest' = [Latest EXCEPT ![k] = Absent]
        <5> HIDE DEF k, c
        <5> QED
          BY <1>0, <3>1, ChangeOfOneKey
      <4> QED
        BY <2>3, <4>1 DEF Service!After
    <3>2. CASE Latest[k] = Absent /\ UNCHANGED etcdVars
      <4>1. [Latest EXCEPT ![k] = Absent] = Latest
        BY <3>2, LatestIsContent DEF IInv, TypeOK, Content
      <4> QED
        BY <2>3, <3>2, <4>1, OutOfSight DEF Service!After
    <3> QED
      BY <2>3, <3>1, <3>2 DEF ExecuteRead, ExecuteWrite, Delete
  <2> QED
    BY <2>1, <2>2, <2>3 DEF ExecuteRead, ExecuteWrite
<1> QED
  BY <1>1, <1>4, <1>5, <1>6, <1>7 DEF Service!TakeEffect

\* An answer says what was found; one that does not decode is given up.
LEMMA AnswerRefines ==
  ASSUME IInv, NEW r \in Request, Answer(r)
  PROVE  Service!Return(r) \/ Service!GiveUp(r)
<1>1. /\ pc[r] = "etcd" /\ phase[r] = "open" /\ result[r] # NoResult
      /\ effect[r] # <<>> /\ effect[r][1] = result[r].value
      /\ Latest' = Latest /\ call' = call /\ effect' = effect
  <2>1. pc[r] = "etcd" /\ wire[r] = "done" /\ UNCHANGED <<etcdVars, call, result>>
    BY DEF Answer
  <2>2. result[r] # NoResult
    BY <2>1 DEF IInv, CallsInOrder
  <2> QED
    BY <2>1, <2>2, OutOfSight DEF phase, Phase, effect
<1>2. ASSUME NEW status \in Status, NEW res, EndWith(r, status, res)
      PROVE  /\ phase' = [phase EXCEPT ![r] = Outcome[status]]
             /\ told' = [told EXCEPT ![r] = [status |-> status, found |-> res.value]]
  <2>1. /\ pc'[r] = "ended" /\ answer'[r] = [status |-> status, result |-> res]
        /\ \A q \in Request \ {r} : pc'[q] = pc[q] /\ answer'[q] = answer[q]
    BY <1>2 DEF EndWith, IInv, TypeOK
  <2>2. Phase(r)' = Outcome[status] /\ answer'[r].status = status /\ answer'[r].result = res
    BY <2>1 DEF Phase
  <2> QED
    BY <2>1, <2>2, OneCallMoves
<1> DEFINE op == call[r].op
           v == result[r].value
<1>3. CASE EndWith(r, "internal", NoResult)
  <2>1. /\ phase' = [phase EXCEPT ![r] = "givenup"]
        /\ told' = [told EXCEPT ![r] = [status |-> "internal", found |-> None]]
    BY <1>2, <1>3 DEF Status, Outcome, NoResult
  <2> QED
    BY <1>1, <2>1 DEF Service!GiveUp, Service!Tell
<1>4. CASE EndWith(r, "not_found", result[r]) /\ op \in {"get", "delete"} /\ v = Absent
  <2>1. /\ phase' = [phase EXCEPT ![r] = "answered"]
        /\ told' = [told EXCEPT ![r] = [status |-> "not_found", found |-> v]]
    BY <1>2, <1>4 DEF Status, Outcome
  <2>2. Service!Decodes(op, v) /\ Service!StatusFor(op, v) = "not_found"
    BY <1>4, NamesAssumption DEF Service!Decodes, Service!StatusFor
  <2> QED
    BY <1>1, <2>1, <2>2 DEF Service!Return, Service!Tell
<1>5. CASE /\ EndWith(r, "ok", result[r])
           /\ ~(op \in {"get", "delete"} /\ v = Absent)
           /\ ~(op = "get" /\ v = Undecodable)
           /\ ~(op = "list" /\ Undecodable \in v)
  <2>1. /\ phase' = [phase EXCEPT ![r] = "answered"]
        /\ told' = [told EXCEPT ![r] = [status |-> "ok", found |-> v]]
    BY <1>2, <1>5 DEF Status, Outcome
  <2>2. Service!Decodes(op, v) /\ Service!StatusFor(op, v) = "ok"
    BY <1>5 DEF Service!Decodes, Service!StatusFor
  <2> QED
    BY <1>1, <2>1, <2>2 DEF Service!Return, Service!Tell
<1> QED
  BY <1>3, <1>4, <1>5 DEF Answer

\* Failures and cancellations give a call up, and change nothing.
LEMMA GiveUpRefines ==
  ASSUME IInv, NEW r \in Request, Fail(r) \/ Cancel(r)
  PROVE  Service!GiveUp(r)
<1>1. PICK status \in {"internal", "gone"} : EndWith(r, status, NoResult)
  BY DEF Fail, Cancel
<1>2. /\ pc[r] \in {"lock", "etcd"} /\ UNCHANGED <<etcdVars, call, result>>
  BY DEF Fail, Cancel
<1>3. /\ pc'[r] = "ended" /\ answer'[r] = [status |-> status, result |-> NoResult]
      /\ \A q \in Request \ {r} : pc'[q] = pc[q] /\ answer'[q] = answer[q]
  BY <1>1 DEF EndWith, IInv, TypeOK
<1>4. /\ Phase(r)' = "givenup" /\ answer'[r].status = status
      /\ answer'[r].result.value = None
  BY <1>3 DEF Phase, Outcome, NoResult
<1>5. /\ phase' = [phase EXCEPT ![r] = "givenup"]
      /\ told' = [told EXCEPT ![r] = [status |-> status, found |-> None]]
  BY <1>3, <1>4, OneCallMoves
<1>6. phase[r] = "open" /\ Latest' = Latest /\ call' = call /\ effect' = effect
  BY <1>2, OutOfSight DEF phase, Phase
<1> QED
  BY <1>5, <1>6 DEF Service!GiveUp, Service!Tell

\* Every step is one of the service, or out of its sight.
LEMMA NextRefines ==
  IInv /\ IInv' /\ [AdminNext]_vars => [Service!ServiceNext]_Service!serviceVars
<1> SUFFICES ASSUME IInv, IInv', [AdminNext]_vars
             PROVE  Service!ServiceNext \/ UNCHANGED Service!serviceVars
  OBVIOUS
<1>1. ASSUME NEW r \in Request, Begin(r)
      PROVE  Service!ServiceNext
  BY <1>1, BeginRefines DEF Service!ServiceNext
<1>2. ASSUME NEW r \in Request, ExecuteRead(r) \/ ExecuteWrite(r)
      PROVE  Service!ServiceNext
  BY <1>2, ExecuteRefines DEF Service!ServiceNext
<1>3. ASSUME NEW r \in Request, Answer(r)
      PROVE  Service!ServiceNext
  BY <1>3, AnswerRefines DEF Service!ServiceNext
<1>4. ASSUME NEW r \in Request, Fail(r) \/ Cancel(r)
      PROVE  Service!ServiceNext
  BY <1>4, GiveUpRefines DEF Service!ServiceNext
<1>5. ASSUME NEW r \in Request, Lock(r)
      PROVE  UNCHANGED Service!serviceVars
  <2>1. answer' = answer /\ call' = call /\ UNCHANGED etcdVars /\ UNCHANGED result
    BY <1>5 DEF Lock
  <2>2. Phase(r)' = Phase(r) /\ \A q \in Request \ {r} : pc'[q] = pc[q]
    BY <1>5 DEF Lock, IInv, TypeOK, Phase
  <2>3. phase' = phase
    BY <2>1, <2>2, OneCallMoves DEF phase
  <2>4. told' = told
    BY <2>1 DEF told
  <2> QED
    BY <2>1, <2>3, <2>4, OutOfSight DEF Service!serviceVars
<1>6. CASE UNCHANGED vars
  <2>1. UNCHANGED <<pc, answer>> /\ UNCHANGED result /\ UNCHANGED etcdVars /\ call' = call
    BY <1>6 DEF vars, adminVars
  <2> QED
    BY <2>1, OutOfSight DEF Service!serviceVars
<1> QED
  BY <1>1, <1>2, <1>3, <1>4, <1>5, <1>6 DEF AdminNext

\* Behind its mutex and over a connection that may break, the Admin API is one table on
\* which each call is carried out at one moment, at most once, before its answer.
THEOREM AdminImplementsService == AdminSpec => ImplementsService
<1>1. AdminSpec => AdminInit /\ [][AdminNext]_vars
  BY DEF AdminSpec
<1> QED
  BY <1>1, InitRefines, NextRefines, Invariance, PTL DEF ImplementsService, Service!ServiceSafety
==============================================================================
