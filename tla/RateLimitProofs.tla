--------------------------- MODULE RateLimitProofs ---------------------------
(***************************************************************************)
(* Proofs about the rate limiter, for every finite set of requests, every  *)
(* set of keys and every limits: its type invariant, that no slot leaks,   *)
(* that a concurrency limit is never exceeded, that a minute's Redis       *)
(* counter admits no more than the limit, and how far the in-process       *)
(* fallback may exceed it.                                                 *)
(***************************************************************************)
EXTENDS RateLimit, FiniteSetTheorems, TLAPS

\* AdmittedUnderLimit for every number, not only the limits now in use.
EveryLimitHolds ==
  \A k \in KeyId : \A limit \in Nat : Cardinality(HeldUnder(k, limit)) <= limit

Answer(r) == reply[r] # NoReply

\* An answer was counted by the server, before or after losing its counter.
AnswersWereCounted ==
  \A r \in Request : Answer(r) =>
    /\ wire[r] = 0
    /\ pc[r] \notin {"new", "connect"}
    /\ reply[r].bucket \in Minute
    /\ reply[r].count >= 1
    /\ LET c == redis[KeyOf(r)][reply[r].bucket]
       IN  \/ reply[r].life < c.life
           \/ reply[r].life = c.life /\ reply[r].count <= c.count

\* INCR hands every count out once.
SameCounter(r, s) ==
  /\ KeyOf(r) = KeyOf(s)
  /\ reply[r].bucket = reply[s].bucket
  /\ reply[r].life = reply[s].life

AnswersDiffer ==
  \A r, s \in Request :
    (Answer(r) /\ Answer(s) /\ SameCounter(r, s) /\ reply[r].count = reply[s].count) => r = s

\* Who was admitted by Redis got an answer within its limit.
AdmittedHasAnswer ==
  \A r \in Request : verdict[r] = [by |-> "redis", admitted |-> TRUE] =>
    /\ Answer(r)
    /\ RpmLimit(r) \in Nat
    /\ reply[r].count <= RpmLimit(r)
    /\ pc[r] \in {"serving", "ended"}

\* Who was checked by the fallback is past the check, and remembers its minute.
ShadowChecked ==
  \A r \in Request : verdict[r].by = "shadow" =>
    /\ pc[r] \in {"serving", "unwinding", "ended"}
    /\ bucket[r] \in Minute
    /\ RpmLimit(r) \in Nat

\* Who was let through in a minute under a limit of at most L, and who was checked
\* by the fallback under another minute.
Through(k, b, L) ==
  {s \in AdmittedBy("shadow", k) : bucket[s] = b /\ RpmLimit(s) <= L}

Elsewhere(k, b) ==
  {s \in Request : KeyOf(s) = k /\ verdict[s].by = "shadow" /\ bucket[s] # b}

\* What the window still remembers of them.
Remembered(w, b, L) == IF w.bucket = b THEN IF w.count <= L THEN w.count ELSE L ELSE 0

\* Each check under another minute makes the window forget at most L of them.
WindowsForget ==
  \A k \in KeyId, b \in Minute, L \in Nat :
    Cardinality(Through(k, b, L)) <=
      L * Cardinality(Elsewhere(k, b)) + Remembered(windows[k], b, L)

IInv ==
  /\ TypeOK
  /\ InFlightCountsGuards
  /\ EveryLimitHolds
  /\ AnswersWereCounted
  /\ AnswersDiffer
  /\ AdmittedHasAnswer
  /\ ShadowChecked
  /\ WindowsForget

-----------------------------------------------------------------------------
\* No step changes what a request was called with.
LEMMA CallsStay == [Next]_vars => call' = call
BY DEF Next, Precheck, Server, vars, Acquire, Refuse, Connect, Unavailable, Answered, ShadowCheck,
       Drop, ServerIncr, CommandLost, CounterLost, Tick

\* The limits of a call are numbers or absent.
LEMMA LimitTypes ==
  ASSUME TypeOK, NEW r \in Request
  PROVE  /\ call[r] \in Call
         /\ KeyOf(r) \in KeyId
         /\ ConcurrencyLimit(r) \in Nat \cup {None}
         /\ RpmLimit(r) \in Nat \cup {None}
BY CallAssumption DEF TypeOK, Typed, KeyOf, ConcurrencyLimit, RpmLimit

\* The invariant holds before the first request.
LEMMA InitInv == Init => IInv
<1> SUFFICES ASSUME Init PROVE IInv
  OBVIOUS
<1>1. TypeOK
  BY BoundsAssumption DEF Init, TypeOK, Typed, Clocked, Stage, NoReply, Pending, Verdict, Minute
<1>2. \A k \in KeyId : HeldFor(k) = {} /\ \A limit \in Nat : HeldUnder(k, limit) = {}
  BY DEF Init, HeldFor, HeldUnder, Held
<1>3. InFlightCountsGuards
  BY <1>2, FS_EmptySet DEF Init, InFlightCountsGuards
<1>4. EveryLimitHolds
  BY <1>2, FS_EmptySet DEF EveryLimitHolds
<1>5. AnswersWereCounted /\ AnswersDiffer
  BY DEF Init, AnswersWereCounted, AnswersDiffer, Answer
<1>6. AdmittedHasAnswer
  BY DEF Init, AdmittedHasAnswer, Pending
<1>7. ShadowChecked
  BY DEF Init, ShadowChecked, Pending
<1>8. WindowsForget
  <2>1. \A k \in KeyId, b \in Minute, L \in Nat :
          Through(k, b, L) = {} /\ Elsewhere(k, b) = {} /\ Remembered(windows[k], b, L) = 0
    BY BoundsAssumption
       DEF Init, Through, Elsewhere, AdmittedBy, Pending, Remembered, Minute
  <2>2. \A L \in Nat : L * 0 + 0 = 0
    OBVIOUS
  <2> QED
    BY <2>1, <2>2, FS_EmptySet DEF WindowsForget
<1> QED
  BY <1>1, <1>3, <1>4, <1>5, <1>6, <1>7, <1>8 DEF IInv

-----------------------------------------------------------------------------
(* Types *)

\* A request's step leaves the limits of every other as they are.
LEMMA ClockedStep == TypeOK /\ [Next]_vars => Clocked'
<1> SUFFICES ASSUME TypeOK, [Next]_vars, NEW s \in Request,
                    pc'[s] \in {"connect", "reply", "lock"}
             PROVE  bucket'[s] # 0 /\ RpmLimit(s) # None
  BY CallsStay DEF Clocked, RpmLimit
<1>0. /\ pc \in [Request -> Stage]
      /\ bucket \in [Request -> 0..MaxMinute]
      /\ now \in Nat \ {0}
      /\ pc[s] \in {"connect", "reply", "lock"} => bucket[s] # 0 /\ RpmLimit(s) # None
  BY BoundsAssumption DEF TypeOK, Typed, Clocked, Minute
<1>1. ASSUME NEW r \in Request, Acquire(r) PROVE bucket'[s] # 0 /\ RpmLimit(s) # None
  <2>1. CASE s = r
    BY <1>0, <1>1, <2>1 DEF Acquire, Goto
  <2>2. CASE s # r
    BY <1>0, <1>1, <2>2 DEF Acquire, Goto
  <2> QED
    BY <2>1, <2>2
<1>2. ASSUME NEW r \in Request, Unavailable(r) PROVE bucket'[s] # 0 /\ RpmLimit(s) # None
  <2>1. CASE s = r
    BY <1>0, <1>2, <2>1 DEF Unavailable, Goto, TypeOK, Clocked
  <2>2. CASE s # r
    BY <1>0, <1>2, <2>2 DEF Unavailable, Goto
  <2> QED
    BY <2>1, <2>2
<1>3. ASSUME NEW r \in Request,
             Refuse(r) \/ Connect(r) \/ Answered(r) \/ ShadowCheck(r) \/ Drop(r) \/ Server(r)
      PROVE  bucket'[s] # 0 /\ RpmLimit(s) # None
  BY <1>0, <1>3
     DEF Refuse, Connect, Answered, ShadowCheck, Drop, Server, ServerIncr, CommandLost, Goto
<1>4. CASE Tick \/ UNCHANGED vars \/ \E k \in KeyId, b \in Minute : CounterLost(k, b)
  BY <1>0, <1>4 DEF Tick, vars, CounterLost
<1> QED
  BY <1>1, <1>2, <1>3, <1>4 DEF Next, Precheck, Server

\* Every step keeps every variable in its type.
LEMMA TypeStep == TypeOK /\ [Next]_vars => TypeOK'
<1> SUFFICES ASSUME TypeOK, [Next]_vars PROVE Typed'
  BY ClockedStep DEF TypeOK
<1>0. Typed
  BY DEF TypeOK
<1>a. /\ pc \in [Request -> Stage]
      /\ verdict \in [Request -> Verdict]
      /\ in_flight \in [KeyId -> Nat]
  BY <1>0 DEF Typed
<1>b. /\ bucket \in [Request -> 0..MaxMinute]
      /\ wire \in [Request -> 0..MaxMinute]
      /\ now \in 0..MaxMinute
      /\ MaxMinute \in Nat
  BY <1>0, BoundsAssumption DEF Typed, Minute
<1>1. ASSUME NEW r \in Request, Acquire(r) PROVE Typed'
  <2>1. in_flight' \in [KeyId -> Nat]
    BY <1>a, <1>1 DEF Acquire, Enter
  <2>2. verdict' \in [Request -> Verdict]
    <3>1. [by |-> "nobody", admitted |-> TRUE] \in Verdict
      BY DEF Verdict
    <3>2. verdict' = verdict
          \/ verdict' = [verdict EXCEPT ![r] = [by |-> "nobody", admitted |-> TRUE]]
      BY <1>1 DEF Acquire, Decide
    <3> QED
      BY <1>a, <3>1, <3>2
  <2>3. bucket' \in [Request -> 0..MaxMinute]
    BY <1>b, <1>1 DEF Acquire
  <2>4. pc' \in [Request -> Stage]
    BY <1>a, <1>1 DEF Acquire, Goto, Stage
  <2> QED
    BY <1>0, <1>1, <2>1, <2>2, <2>3, <2>4 DEF Acquire, Typed
<1>2. ASSUME NEW r \in Request, Refuse(r) PROVE Typed'
  <2>1. pc' \in [Request -> Stage]
    BY <1>a, <1>2 DEF Refuse, Goto, Stage
  <2> QED
    BY <1>0, <1>2, <2>1 DEF Refuse, Typed
<1>3. ASSUME NEW r \in Request, Connect(r) PROVE Typed'
  <2>1. pc' \in [Request -> Stage]
    BY <1>a, <1>3 DEF Connect, Goto, Stage
  <2>2. wire' \in [Request -> 0..MaxMinute]
    BY <1>b, <1>3 DEF Connect
  <2> QED
    BY <1>0, <1>3, <2>1, <2>2 DEF Connect, Typed
<1>4. ASSUME NEW r \in Request, Unavailable(r) PROVE Typed'
  <2>1. pc' \in [Request -> Stage]
    BY <1>a, <1>4 DEF Unavailable, Goto, Stage
  <2>2. bucket' \in [Request -> 0..MaxMinute]
    BY <1>b, <1>4 DEF Unavailable
  <2> QED
    BY <1>0, <1>4, <2>1, <2>2 DEF Unavailable, Typed
<1>5. ASSUME NEW r \in Request, Answered(r) PROVE Typed'
  <2>1. verdict' \in [Request -> Verdict]
    <3>1. (reply[r].count <= RpmLimit(r)) \in BOOLEAN
      OBVIOUS
    <3> QED
      BY <1>a, <1>5, <3>1 DEF Answered, Decide, Verdict
  <2>2. pc' \in [Request -> Stage]
    BY <1>a, <1>5 DEF Answered, Goto, Stage
  <2> QED
    BY <1>0, <1>5, <2>1, <2>2 DEF Answered, Typed
<1>6. ASSUME NEW r \in Request, ShadowCheck(r) PROVE Typed'
  <2> DEFINE w == WindowFor(KeyOf(r), bucket[r])
             counted == [w EXCEPT !.count = @ + 1]
  <2>0. KeyOf(r) \in KeyId
    BY LimitTypes
  <2>1. w \in [bucket : 0..MaxMinute, count : Nat]
    BY <1>0, <1>b, <2>0 DEF WindowFor, Typed
  <2>2. counted \in [bucket : 0..MaxMinute, count : Nat]
    BY <2>1
  <2>3. windows' \in [KeyId -> [bucket : 0..MaxMinute, count : Nat]]
    BY <1>0, <1>6, <2>0, <2>1, <2>2 DEF ShadowCheck, Typed
  <2>4. verdict' \in [Request -> Verdict]
    <3>1. (w.count < RpmLimit(r)) \in BOOLEAN
      OBVIOUS
    <3> QED
      BY <1>a, <1>6, <3>1 DEF ShadowCheck, Decide, Verdict
  <2>5. pc' \in [Request -> Stage]
    BY <1>a, <1>6 DEF ShadowCheck, Goto, Stage
  <2> QED
    BY <1>0, <1>6, <2>3, <2>4, <2>5 DEF ShadowCheck, Typed
<1>7. ASSUME NEW r \in Request, Drop(r) PROVE Typed'
  <2>1. in_flight' \in [KeyId -> Nat]
    <3>1. KeyOf(r) \in KeyId
      BY LimitTypes
    <3> DEFINE n == IF in_flight[KeyOf(r)] = 0 THEN 0 ELSE in_flight[KeyOf(r)] - 1
    <3>2. n \in Nat
      BY <1>a, <3>1
    <3>3. in_flight' = in_flight \/ in_flight' = [in_flight EXCEPT ![KeyOf(r)] = n]
      BY <1>7 DEF Drop, Release
    <3> HIDE DEF n
    <3> QED
      BY <1>a, <3>2, <3>3
  <2>2. pc' \in [Request -> Stage]
    BY <1>a, <1>7 DEF Drop, Goto, Stage
  <2> QED
    BY <1>0, <1>7, <2>1, <2>2 DEF Drop, Typed
<1>8. ASSUME NEW r \in Request, ServerIncr(r) PROVE Typed'
  <2> DEFINE k == KeyOf(r)
             b == wire[r]
             c == [redis[k][b] EXCEPT !.count = @ + 1]
             answer == [bucket |-> b, life |-> c.life, count |-> c.count]
  <2>1. k \in KeyId /\ b \in Minute
    BY <1>b, <1>8, LimitTypes DEF ServerIncr, Minute
  <2>2. redis[k][b] \in [life : 0..MaxLife, count : Nat]
    BY <1>0, <2>1 DEF Typed
  <2>3. c \in [life : 0..MaxLife, count : Nat]
    BY <2>2
  <2>4. answer \in [bucket : 0..MaxMinute, life : 0..MaxLife, count : Nat]
    BY <1>b, <2>3
  <2>5. redis' = [redis EXCEPT ![k] = [redis[k] EXCEPT ![b] = c]]
    BY <1>8 DEF ServerIncr
  <2>6. redis' \in [KeyId -> [Minute -> [life : 0..MaxLife, count : Nat]]]
    <3> HIDE DEF c, k, b
    <3>1. redis \in [KeyId -> [Minute -> [life : 0..MaxLife, count : Nat]]]
      BY <1>0 DEF Typed
    <3>2. [redis[k] EXCEPT ![b] = c] \in [Minute -> [life : 0..MaxLife, count : Nat]]
      BY <3>1, <2>1, <2>3
    <3> QED
      BY <3>1, <3>2, <2>5
  <2>7. reply' \in [Request -> [bucket : 0..MaxMinute, life : 0..MaxLife, count : Nat]]
    <3>1. reply' = IF pc[r] = "reply" THEN [reply EXCEPT ![r] = answer] ELSE reply
      BY <1>8 DEF ServerIncr
    <3> HIDE DEF answer
    <3> QED
      BY <1>0, <2>4, <3>1 DEF Typed
  <2>8. wire' \in [Request -> 0..MaxMinute]
    BY <1>b, <1>8 DEF ServerIncr
  <2> QED
    BY <1>0, <1>8, <2>6, <2>7, <2>8 DEF ServerIncr, Typed
<1>9. ASSUME NEW r \in Request, CommandLost(r) PROVE Typed'
  <2>1. wire' \in [Request -> 0..MaxMinute]
    BY <1>b, <1>9 DEF CommandLost
  <2> QED
    BY <1>0, <1>9, <2>1 DEF CommandLost, Typed
<1>10. ASSUME NEW k \in KeyId, NEW b \in Minute, CounterLost(k, b) PROVE Typed'
  <2> DEFINE fresh == [life |-> redis[k][b].life + 1, count |-> 0]
  <2>1. redis \in [KeyId -> [Minute -> [life : 0..MaxLife, count : Nat]]]
    BY <1>0 DEF Typed
  <2>2. fresh \in [life : 0..MaxLife, count : Nat]
    BY <1>10, <2>1, BoundsAssumption DEF CounterLost
  <2>3. redis' = [redis EXCEPT ![k] = [redis[k] EXCEPT ![b] = fresh]]
    BY <1>10 DEF CounterLost
  <2>4. redis' \in [KeyId -> [Minute -> [life : 0..MaxLife, count : Nat]]]
    <3> HIDE DEF fresh
    <3>1. [redis[k] EXCEPT ![b] = fresh] \in [Minute -> [life : 0..MaxLife, count : Nat]]
      BY <2>1, <2>2
    <3> QED
      BY <2>1, <2>3, <3>1
  <2> QED
    BY <1>0, <1>10, <2>4 DEF CounterLost, Typed
<1>11. CASE Tick
  <2>1. now' \in Minute
    BY <1>b, <1>11 DEF Tick, Minute
  <2> QED
    BY <1>0, <1>11, <2>1 DEF Tick, Typed
<1>12. CASE UNCHANGED vars
  BY <1>0, <1>12 DEF vars, Typed
<1> QED
  BY <1>1, <1>2, <1>3, <1>4, <1>5, <1>6, <1>7, <1>8, <1>9, <1>10, <1>11, <1>12
     DEF Next, Precheck, Server

-----------------------------------------------------------------------------
(* Guards *)

HeldStays == Held' = Held /\ in_flight' = in_flight

HeldGrows(r) ==
  /\ r \notin Held
  /\ Held' = Held \cup {r}
  /\ in_flight[KeyOf(r)] < ConcurrencyLimit(r)
  /\ in_flight' = [in_flight EXCEPT ![KeyOf(r)] = @ + 1]

HeldShrinks(r) ==
  /\ r \in Held
  /\ Held' = Held \ {r}
  /\ in_flight' = [in_flight EXCEPT ![KeyOf(r)] = IF @ = 0 THEN 0 ELSE @ - 1]

\* A request holds its guard from acquire to drop and no step in between matters.
LEMMA GuardStep ==
  ASSUME TypeOK, [Next]_vars
  PROVE  HeldStays \/ \E r \in Request : HeldGrows(r) \/ HeldShrinks(r)
<1>0. /\ call' = call
      /\ pc \in [Request -> Stage]
      /\ \A r : ConcurrencyLimit(r)' = ConcurrencyLimit(r)
  BY CallsStay DEF TypeOK, Typed, ConcurrencyLimit
<1> DEFINE Inside == {"connect", "reply", "lock", "serving", "unwinding"}
<1>h. Held = {r \in Request : pc[r] \notin {"new", "ended"} /\ ConcurrencyLimit(r) # None}
  BY DEF Held
<1>p. Held' = {r \in Request : pc'[r] \notin {"new", "ended"} /\ ConcurrencyLimit(r) # None}
  BY <1>0 DEF Held
<1>1. ASSUME NEW r \in Request, Acquire(r) PROVE HeldStays \/ HeldGrows(r)
  <2>1. /\ pc[r] = "new"
        /\ pc'[r] \in Inside
        /\ \A s \in Request : s # r => pc'[s] = pc[s]
    BY <1>0, <1>1 DEF Acquire, Goto
  <2>2. CASE ConcurrencyLimit(r) = None
    BY <1>1, <2>1, <2>2, <1>h, <1>p DEF Acquire, Enter, HeldStays
  <2>3. CASE ConcurrencyLimit(r) # None
    BY <1>1, <2>1, <2>3, <1>h, <1>p DEF Acquire, Enter, HeldGrows
  <2> QED
    BY <2>2, <2>3
<1>2. ASSUME NEW r \in Request, Drop(r) PROVE HeldStays \/ HeldShrinks(r)
  <2>1. /\ pc[r] \in Inside
        /\ pc'[r] = "ended"
        /\ \A s \in Request : s # r => pc'[s] = pc[s]
    BY <1>0, <1>2 DEF Drop, Goto
  <2>2. CASE ConcurrencyLimit(r) = None
    BY <1>2, <2>1, <2>2, <1>h, <1>p DEF Drop, Release, HeldStays
  <2>3. CASE ConcurrencyLimit(r) # None
    BY <1>2, <2>1, <2>3, <1>h, <1>p DEF Drop, Release, HeldShrinks
  <2> QED
    BY <2>2, <2>3
<1>3. ASSUME NEW r \in Request, Refuse(r) PROVE HeldStays
  <2>1. /\ pc[r] = "new"
        /\ pc'[r] = "ended"
        /\ \A s \in Request : s # r => pc'[s] = pc[s]
    BY <1>0, <1>3 DEF Refuse, Goto
  <2> QED
    BY <1>3, <2>1, <1>h, <1>p DEF Refuse, HeldStays
<1>4. ASSUME NEW r \in Request, Connect(r) \/ Unavailable(r) \/ Answered(r) \/ ShadowCheck(r)
      PROVE  HeldStays
  <2>1. /\ pc[r] \in Inside
        /\ pc'[r] \in Inside
        /\ \A s \in Request : s # r => pc'[s] = pc[s]
    BY <1>0, <1>4 DEF Connect, Unavailable, Answered, ShadowCheck, Goto
  <2>2. in_flight' = in_flight
    BY <1>4 DEF Connect, Unavailable, Answered, ShadowCheck
  <2> QED
    BY <2>1, <2>2, <1>h, <1>p DEF HeldStays
<1>5. CASE /\ UNCHANGED pc
           /\ UNCHANGED in_flight
  BY <1>5, <1>h, <1>p DEF HeldStays
<1>6. CASE \/ \E r \in Request : Server(r)
           \/ \E k \in KeyId, b \in Minute : CounterLost(k, b)
           \/ Tick \/ UNCHANGED vars
  BY <1>6, <1>5 DEF Server, ServerIncr, CommandLost, CounterLost, Tick, vars
<1> QED
  BY <1>1, <1>2, <1>3, <1>4, <1>6 DEF Next, Precheck

\* What a set of holders is made of, before and after.
LEMMA HoldersFinite ==
  ASSUME NEW k, NEW limit
  PROVE  /\ IsFiniteSet(Held) /\ IsFiniteSet(HeldFor(k)) /\ IsFiniteSet(HeldUnder(k, limit))
         /\ Cardinality(HeldFor(k)) \in Nat
         /\ Cardinality(HeldUnder(k, limit)) \in Nat
         /\ Cardinality(HeldUnder(k, limit)) <= Cardinality(HeldFor(k))
<1>1. Held \in SUBSET Request /\ HeldFor(k) \in SUBSET Request
      /\ HeldUnder(k, limit) \in SUBSET HeldFor(k)
  BY DEF Held, HeldFor, HeldUnder
<1>2. IsFiniteSet(Held) /\ IsFiniteSet(HeldFor(k))
  BY <1>1, RequestAssumption, FS_Subset
<1> QED
  BY <1>1, <1>2, FS_Subset, FS_CardinalityType

\* A step grants at most one guard, when there is room, and in_flight counts them.
LEMMA GuardInvariant ==
  ASSUME TypeOK, InFlightCountsGuards, EveryLimitHolds, [Next]_vars
  PROVE  InFlightCountsGuards' /\ EveryLimitHolds'
<1>0. /\ in_flight \in [KeyId -> Nat]
      /\ \A r \in Request : KeyOf(r) \in KeyId
      /\ \A r \in Held : ConcurrencyLimit(r) \in Nat
  BY LimitTypes DEF TypeOK, Typed, Held
<1>1. \A r : KeyOf(r)' = KeyOf(r) /\ ConcurrencyLimit(r)' = ConcurrencyLimit(r)
  BY CallsStay DEF KeyOf, ConcurrencyLimit
<1>2. \A k, limit : /\ HeldFor(k)' = {r \in Held' : KeyOf(r) = k}
                    /\ HeldUnder(k, limit)' =
                         {r \in Held' : KeyOf(r) = k /\ ConcurrencyLimit(r) <= limit}
  BY <1>1 DEF HeldFor, HeldUnder
<1>3. \A k, limit : /\ HeldFor(k) = {r \in Held : KeyOf(r) = k}
                    /\ HeldUnder(k, limit) =
                         {r \in Held : KeyOf(r) = k /\ ConcurrencyLimit(r) <= limit}
  BY DEF HeldFor, HeldUnder
<1>4. CASE HeldStays
  BY <1>2, <1>3, <1>4 DEF HeldStays, InFlightCountsGuards, EveryLimitHolds
<1>5. ASSUME NEW r \in Request, HeldGrows(r) PROVE InFlightCountsGuards' /\ EveryLimitHolds'
  <2>0. Held' = Held \cup {r} /\ r \notin Held
    BY <1>5 DEF HeldGrows
  <2>1. \A k \in KeyId : HeldFor(k)' = IF k = KeyOf(r) THEN HeldFor(k) \cup {r} ELSE HeldFor(k)
    <3> TAKE k \in KeyId
    <3>0. /\ HeldFor(k) = {q \in Held : KeyOf(q) = k}
          /\ HeldFor(k)' = {q \in Held \cup {r} : KeyOf(q) = k}
      BY <1>2, <1>3, <2>0
    <3>1. CASE k = KeyOf(r)
      BY ONLY <3>0, <3>1
    <3>2. CASE k # KeyOf(r)
      BY ONLY <3>0, <3>2
    <3> QED
      BY <3>1, <3>2
  <2>2. r \notin HeldFor(KeyOf(r))
    BY <1>3, <2>0
  <2>3. ASSUME NEW k \in KeyId PROVE in_flight'[k] = Cardinality(HeldFor(k)')
    <3>1. CASE k = KeyOf(r)
      <4>1. Cardinality(HeldFor(k) \cup {r}) = Cardinality(HeldFor(k)) + 1
        BY <3>1, <2>2, HoldersFinite, FS_AddElement
      <4> QED
        BY <4>1, <3>1, <2>1, <1>0, <1>5 DEF HeldGrows, InFlightCountsGuards
    <3>2. CASE k # KeyOf(r)
      BY <3>2, <2>1, <1>0, <1>5 DEF HeldGrows, InFlightCountsGuards
    <3> QED
      BY <3>1, <3>2
  <2>4. ASSUME NEW k \in KeyId, NEW limit \in Nat PROVE Cardinality(HeldUnder(k, limit)') <= limit
    <3>1. CASE k = KeyOf(r) /\ ConcurrencyLimit(r) <= limit
      <4>1. HeldUnder(k, limit)' = HeldUnder(k, limit) \cup {r}
        BY <1>2, <1>3, <2>0, <3>1
      <4>2. Cardinality(HeldUnder(k, limit)') = Cardinality(HeldUnder(k, limit)) + 1
        <5>1. r \notin HeldUnder(k, limit)
          BY <1>3, <2>0
        <5> QED
          BY <4>1, <5>1, HoldersFinite, FS_AddElement
      <4>3. Cardinality(HeldFor(k)) < ConcurrencyLimit(r)
        BY <3>1, <1>5 DEF HeldGrows, InFlightCountsGuards
      <4>4. /\ Cardinality(HeldUnder(k, limit)) <= Cardinality(HeldFor(k))
            /\ Cardinality(HeldUnder(k, limit)) \in Nat
            /\ Cardinality(HeldFor(k)) \in Nat
        BY HoldersFinite
      <4>5. ConcurrencyLimit(r) \in Nat
        <5>1. ConcurrencyLimit(r) # None
          BY <1>5, <2>0, <1>1 DEF Held
        <5> QED
          BY <5>1, LimitTypes
      <4> QED
        BY <3>1, <4>2, <4>3, <4>4, <4>5
    <3>2. CASE ~(k = KeyOf(r) /\ ConcurrencyLimit(r) <= limit)
      <4>1. HeldUnder(k, limit)' = HeldUnder(k, limit)
        BY <1>2, <1>3, <2>0, <3>2
      <4> QED
        BY <4>1 DEF EveryLimitHolds
    <3> QED
      BY <3>1, <3>2
  <2> QED
    BY <2>3, <2>4 DEF InFlightCountsGuards, EveryLimitHolds
<1>6. ASSUME NEW r \in Request, HeldShrinks(r) PROVE InFlightCountsGuards' /\ EveryLimitHolds'
  <2>0. Held' = Held \ {r} /\ r \in Held
    BY <1>6 DEF HeldShrinks
  <2>1. \A k \in KeyId : HeldFor(k)' = IF k = KeyOf(r) THEN HeldFor(k) \ {r} ELSE HeldFor(k)
    <3> TAKE k \in KeyId
    <3>0. /\ HeldFor(k) = {q \in Held : KeyOf(q) = k}
          /\ HeldFor(k)' = {q \in Held \ {r} : KeyOf(q) = k}
      BY <1>2, <1>3, <2>0
    <3>1. CASE k = KeyOf(r)
      BY ONLY <3>0, <3>1
    <3>2. CASE k # KeyOf(r)
      BY ONLY <3>0, <3>2
    <3> QED
      BY <3>1, <3>2
  <2>2. r \in HeldFor(KeyOf(r))
    BY <1>3, <2>0
  <2>3. ASSUME NEW k \in KeyId PROVE in_flight'[k] = Cardinality(HeldFor(k)')
    <3>1. CASE k = KeyOf(r)
      <4>1. Cardinality(HeldFor(k) \ {r}) = Cardinality(HeldFor(k)) - 1
        BY <3>1, <2>2, HoldersFinite, FS_RemoveElement
      <4>2. Cardinality(HeldFor(k) \ {r}) \in Nat
        BY HoldersFinite, FS_RemoveElement, FS_CardinalityType
      <4>3. in_flight[k] = Cardinality(HeldFor(k)) /\ in_flight[k] \in Nat
        BY <1>0 DEF InFlightCountsGuards
      <4>4. in_flight'[k] = in_flight[k] - 1
        BY <1>0, <3>1, <1>6, <4>1, <4>2, <4>3 DEF HeldShrinks
      <4> QED
        BY <4>1, <4>3, <4>4, <3>1, <2>1
    <3>2. CASE k # KeyOf(r)
      BY <3>2, <2>1, <1>0, <1>6 DEF HeldShrinks, InFlightCountsGuards
    <3> QED
      BY <3>1, <3>2
  <2>4. ASSUME NEW k \in KeyId, NEW limit \in Nat PROVE Cardinality(HeldUnder(k, limit)') <= limit
    <3>1. HeldUnder(k, limit)' \in SUBSET HeldUnder(k, limit)
      BY <1>2, <1>3, <2>0
    <3>2. /\ Cardinality(HeldUnder(k, limit)') <= Cardinality(HeldUnder(k, limit))
          /\ Cardinality(HeldUnder(k, limit)') \in Nat
      BY <3>1, HoldersFinite, FS_Subset, FS_CardinalityType
    <3> QED
      BY <3>2, HoldersFinite DEF EveryLimitHolds
  <2> QED
    BY <2>3, <2>4 DEF InFlightCountsGuards, EveryLimitHolds
<1> QED
  BY <1>4, <1>5, <1>6, GuardStep

-----------------------------------------------------------------------------
(* Answers *)

\* What AnswersWereCounted says of one request.
Counted(r) ==
  /\ wire[r] = 0
  /\ pc[r] \notin {"new", "connect"}
  /\ reply[r].bucket \in Minute
  /\ reply[r].count >= 1
  /\ LET c == redis[KeyOf(r)][reply[r].bucket]
     IN  \/ reply[r].life < c.life
         \/ reply[r].life = c.life /\ reply[r].count <= c.count

\* A step hands out at most one count, one more than any before it.
LEMMA AnswerInvariant ==
  ASSUME TypeOK, AnswersWereCounted, AnswersDiffer, [Next]_vars
  PROVE  AnswersWereCounted' /\ AnswersDiffer'
<1>0. /\ pc \in [Request -> Stage]
      /\ wire \in [Request -> 0..MaxMinute]
      /\ reply \in [Request -> [bucket : 0..MaxMinute, life : 0..MaxLife, count : Nat]]
      /\ redis \in [KeyId -> [Minute -> [life : 0..MaxLife, count : Nat]]]
      /\ MaxMinute \in Nat /\ MaxLife \in Nat
  BY BoundsAssumption DEF TypeOK, Typed
<1>1. \A r \in Request : KeyOf(r) \in KeyId /\ KeyOf(r)' = KeyOf(r)
  BY CallsStay, LimitTypes DEF KeyOf
<1>2. \A r \in Request : Answer(r) => Counted(r)
  BY DEF AnswersWereCounted, Counted
<1>3. ASSUME \A r \in Request : Answer(r)' => Counted(r)'
      PROVE  AnswersWereCounted'
  BY <1>3 DEF AnswersWereCounted, Counted
<1>4. ASSUME UNCHANGED reply PROVE AnswersDiffer'
  BY <1>4, <1>1 DEF AnswersDiffer, Answer, SameCounter
<1>5. ASSUME UNCHANGED <<reply, redis, wire>>,
             \A r \in Request : pc'[r] \in {"new", "connect"} => pc[r] \in {"new", "connect"}
      PROVE  AnswersWereCounted' /\ AnswersDiffer'
  BY <1>1, <1>2, <1>3, <1>4, <1>5 DEF Counted, Answer
<1>6. ASSUME NEW r \in Request, Acquire(r) PROVE AnswersWereCounted' /\ AnswersDiffer'
  BY <1>0, <1>5, <1>6 DEF Acquire, Goto
<1>7. ASSUME NEW r \in Request,
             Refuse(r) \/ Unavailable(r) \/ Answered(r) \/ ShadowCheck(r) \/ Drop(r)
      PROVE  AnswersWereCounted' /\ AnswersDiffer'
  BY <1>0, <1>5, <1>7 DEF Refuse, Unavailable, Answered, ShadowCheck, Drop, Goto
<1>8. ASSUME NEW r \in Request, Connect(r) PROVE AnswersWereCounted' /\ AnswersDiffer'
  <2>1. UNCHANGED <<reply, redis>>
    BY <1>8 DEF Connect
  <2>2. ASSUME NEW s \in Request, Answer(s)' PROVE Counted(s)'
    <3>1. Counted(s) /\ s # r
      BY <1>2, <1>8, <2>1, <2>2 DEF Answer, Counted, Connect, Goto
    <3> QED
      BY <3>1, <1>0, <1>1, <1>8, <2>1 DEF Counted, Connect, Goto
  <2> QED
    BY <2>1, <2>2, <1>3, <1>4
<1>9. ASSUME NEW r \in Request, CommandLost(r) PROVE AnswersWereCounted' /\ AnswersDiffer'
  <2>1. UNCHANGED <<reply, redis, pc>>
    BY <1>9 DEF CommandLost
  <2>2. ASSUME NEW s \in Request, Answer(s)' PROVE Counted(s)'
    <3>1. Counted(s)
      BY <1>2, <2>1, <2>2 DEF Answer
    <3> QED
      BY <3>1, <1>0, <1>1, <1>9, <2>1 DEF Counted, CommandLost
  <2> QED
    BY <2>1, <2>2, <1>3, <1>4
<1>10. ASSUME NEW k \in KeyId, NEW b \in Minute, CounterLost(k, b)
       PROVE  AnswersWereCounted' /\ AnswersDiffer'
  <2>1. UNCHANGED <<reply, wire, pc>>
    BY <1>10 DEF CounterLost
  <2> DEFINE fresh == [life |-> redis[k][b].life + 1, count |-> 0]
  <2>2. redis' = [redis EXCEPT ![k] = [redis[k] EXCEPT ![b] = fresh]]
    BY <1>10 DEF CounterLost
  <2>3. ASSUME NEW s \in Request, Answer(s)' PROVE Counted(s)'
    <3> DEFINE m == reply[s].bucket
    <3>1. Counted(s) /\ m \in Minute /\ KeyOf(s) \in KeyId /\ reply[s].life \in Nat
      BY <1>0, <1>1, <1>2, <2>1, <2>3 DEF Answer, Counted
    <3>2. CASE KeyOf(s) = k /\ m = b
      <4>1. redis'[KeyOf(s)][m] = fresh
        BY <1>0, <2>2, <3>1, <3>2
      <4>2. redis[k][b].life \in Nat /\ reply[s].life <= redis[k][b].life
        BY <1>0, <3>1, <3>2 DEF Counted
      <4>3. reply[s].life < fresh.life
        BY <3>1, <4>2
      <4> QED
        BY <3>1, <4>1, <4>3, <1>1, <2>1 DEF Counted
    <3>3. CASE ~(KeyOf(s) = k /\ m = b)
      <4>1. redis'[KeyOf(s)][m] = redis[KeyOf(s)][m]
        BY <1>0, <2>2, <3>1, <3>3
      <4> QED
        BY <3>1, <4>1, <1>1, <2>1 DEF Counted
    <3> QED
      BY <3>2, <3>3
  <2> QED
    BY <2>1, <2>3, <1>3, <1>4
<1>11. ASSUME NEW r \in Request, ServerIncr(r) PROVE AnswersWereCounted' /\ AnswersDiffer'
  <2> DEFINE k == KeyOf(r)
             b == wire[r]
             c == [redis[k][b] EXCEPT !.count = @ + 1]
             a == [bucket |-> b, life |-> c.life, count |-> c.count]
  <2>1. /\ b \in Minute /\ k \in KeyId
        /\ redis[k][b] \in [life : 0..MaxLife, count : Nat]
        /\ ~Answer(r)
    BY <1>0, <1>1, <1>2, <1>11 DEF ServerIncr, Counted, Minute
  <2>2. /\ c = [life |-> redis[k][b].life, count |-> redis[k][b].count + 1]
        /\ a = [bucket |-> b, life |-> redis[k][b].life, count |-> redis[k][b].count + 1]
    BY <2>1
  <2>3. /\ redis' = [redis EXCEPT ![k] = [redis[k] EXCEPT ![b] = c]]
        /\ reply' = IF pc[r] = "reply" THEN [reply EXCEPT ![r] = a] ELSE reply
        /\ wire' = [wire EXCEPT ![r] = 0]
        /\ pc' = pc
    BY <1>11 DEF ServerIncr
  <2> HIDE DEF a, c
  <2>4. ASSUME NEW s \in Request, s # r, Answer(s)
        PROVE  /\ Counted(s)'
               /\ reply'[s] = reply[s]
               /\ KeyOf(s) = k /\ reply[s].bucket = b /\ reply[s].life = redis[k][b].life
                    => reply[s].count # redis[k][b].count + 1
    <3> DEFINE m == reply[s].bucket
    <3>1. /\ Counted(s) /\ m \in Minute /\ KeyOf(s) \in KeyId
          /\ reply[s].life \in Nat /\ reply[s].count \in Nat
          /\ reply'[s] = reply[s] /\ wire'[s] = wire[s]
      <4>1. Counted(s)
        BY <1>2, <2>4
      <4>2. m \in Minute /\ KeyOf(s) \in KeyId /\ reply[s].life \in Nat /\ reply[s].count \in Nat
        BY <1>0, <1>1, <4>1 DEF Counted
      <4>3. reply'[s] = reply[s] /\ wire'[s] = wire[s]
        BY <1>0, <2>3, <2>4
      <4> QED
        BY <4>1, <4>2, <4>3
    <3>2. CASE KeyOf(s) = k /\ m = b
      <4>1. redis'[KeyOf(s)][m] = c
        BY <1>0, <2>1, <2>3, <3>1, <3>2
      <4>2. redis[k][b].life \in Nat /\ redis[k][b].count \in Nat
        BY <2>1
      <4>3. \/ reply[s].life < redis[k][b].life
            \/ reply[s].life = redis[k][b].life /\ reply[s].count <= redis[k][b].count
        BY <3>1, <3>2 DEF Counted
      <4>4. \/ reply[s].life < c.life
            \/ reply[s].life = c.life /\ reply[s].count <= c.count
        BY <2>2, <3>1, <4>2, <4>3
      <4>5. Counted(s)'
        BY <3>1, <4>1, <4>4, <1>1, <2>3 DEF Counted
      <4> QED
        BY <3>1, <4>2, <4>3, <4>5
    <3>3. CASE ~(KeyOf(s) = k /\ m = b)
      <4>1. redis'[KeyOf(s)][m] = redis[KeyOf(s)][m]
        BY <1>0, <2>1, <2>3, <3>1, <3>3
      <4> QED
        BY <3>1, <3>3, <4>1, <1>1, <2>3 DEF Counted
    <3> QED
      BY <3>2, <3>3
  <2>5. CASE pc[r] = "reply"
    <3>1. reply'[r] = a /\ \A s \in Request : s # r => (Answer(s)' <=> Answer(s))
      BY <1>0, <2>3, <2>5 DEF Answer
    <3>2. Counted(r)'
      <4>1. redis'[k][b] = c /\ wire'[r] = 0 /\ pc'[r] = "reply"
        BY <1>0, <2>1, <2>3, <2>5
      <4>2. a.bucket = b /\ a.life = c.life /\ a.count = c.count /\ a.count \in Nat /\ a.count >= 1
        BY <2>1, <2>2
      <4> QED
        BY <2>1, <3>1, <4>1, <4>2, <1>1 DEF Counted
    <3>3. AnswersWereCounted'
      BY <3>1, <3>2, <2>4, <1>3
    <3>4. ASSUME NEW s \in Request, NEW t \in Request, Answer(s)', Answer(t)', SameCounter(s, t)',
                 reply'[s].count = reply'[t].count
          PROVE  s = t
      <4>0. /\ KeyOf(s) = KeyOf(t)
            /\ reply'[s].bucket = reply'[t].bucket
            /\ reply'[s].life = reply'[t].life
        BY <3>4, <1>1 DEF SameCounter
      <4>1. CASE s # r /\ t # r
        BY <3>1, <3>4, <4>0, <4>1, <2>4 DEF AnswersDiffer, SameCounter
      <4>2. CASE s = r /\ t # r
        BY <3>1, <3>4, <4>0, <4>2, <2>2, <2>4
      <4>3. CASE s # r /\ t = r
        BY <3>1, <3>4, <4>0, <4>3, <2>2, <2>4
      <4> QED
        BY <4>1, <4>2, <4>3
    <3> QED
      BY <3>3, <3>4 DEF AnswersDiffer
  <2>6. CASE pc[r] # "reply"
    <3>1. reply' = reply /\ ~Answer(r)'
      BY <2>1, <2>3, <2>6 DEF Answer
    <3>2. \A s \in Request : Answer(s)' => s # r /\ Answer(s)
      BY <3>1 DEF Answer
    <3>3. AnswersWereCounted'
      BY <3>2, <2>4, <1>3
    <3> QED
      BY <3>1, <3>3, <1>4
  <2> QED
    BY <2>5, <2>6
<1>12. CASE Tick \/ UNCHANGED vars
  BY <1>12, <1>5 DEF Tick, vars
<1> QED
  BY <1>6, <1>7, <1>8, <1>9, <1>10, <1>11, <1>12 DEF Next, Precheck, Server

\* A verdict of Redis is given once, from an answer that then stays.
LEMMA AdmittedInvariant ==
  ASSUME TypeOK, AnswersWereCounted, AdmittedHasAnswer, [Next]_vars
  PROVE  AdmittedHasAnswer'
<1> SUFFICES ASSUME NEW s \in Request, verdict'[s] = [by |-> "redis", admitted |-> TRUE]
             PROVE  /\ Answer(s)'
                    /\ RpmLimit(s) \in Nat
                    /\ reply'[s].count <= RpmLimit(s)
                    /\ pc'[s] \in {"serving", "ended"}
  BY CallsStay DEF AdmittedHasAnswer, RpmLimit
<1> DEFINE Good == /\ Answer(s)'
                   /\ RpmLimit(s) \in Nat
                   /\ reply'[s].count <= RpmLimit(s)
                   /\ pc'[s] \in {"serving", "ended"}
<1>0. /\ pc \in [Request -> Stage]
      /\ verdict \in [Request -> Verdict]
      /\ reply \in [Request -> [bucket : 0..MaxMinute, life : 0..MaxLife, count : Nat]]
  BY DEF TypeOK, Typed
<1>1. verdict[s] = [by |-> "redis", admitted |-> TRUE] =>
        /\ Answer(s)
        /\ RpmLimit(s) \in Nat
        /\ reply[s].count <= RpmLimit(s)
        /\ pc[s] \in {"serving", "ended"}
  BY DEF AdmittedHasAnswer
<1>2. ASSUME verdict'[s] = verdict[s], reply'[s] = reply[s],
             pc[s] \in {"serving", "ended"} => pc'[s] \in {"serving", "ended"}
      PROVE  Good
  BY <1>1, <1>2 DEF Answer
<1>3. ASSUME NEW r \in Request, Acquire(r) PROVE Good
  <2>1. r # s \/ verdict'[s] = verdict[s]
    BY <1>0, <1>3 DEF Acquire, Decide
  <2> QED
    BY <1>0, <1>2, <1>3, <2>1 DEF Acquire, Goto, Decide
<1>4. ASSUME NEW r \in Request, Answered(r) PROVE Good
  <2>1. CASE r # s
    BY <1>0, <1>2, <1>4, <2>1 DEF Answered, Goto, Decide
  <2>2. CASE r = s
    <3>1. pc[s] = "reply" /\ reply' = reply /\ Answer(s)
      BY <1>4, <2>2 DEF Answered, Goto, Answer
    <3>2. verdict'[s] = [by |-> "redis", admitted |-> reply[s].count <= RpmLimit(s)]
      BY <1>0, <1>4, <2>2 DEF Answered, Decide
    <3>3. reply[s].count <= RpmLimit(s)
      <4> DEFINE ok == reply[s].count <= RpmLimit(s)
      <4>1. verdict'[s] = [by |-> "redis", admitted |-> ok]
        BY <3>2
      <4> HIDE DEF ok
      <4>2. [by |-> "redis", admitted |-> ok].admitted = [by |-> "redis", admitted |-> TRUE].admitted
        BY <4>1
      <4>3. ok = TRUE
        BY <4>2
      <4>4. ok
        BY <4>3, Zenon
      <4> QED
        BY <4>4 DEF ok
    <3>4. pc'[s] = "serving"
      BY <1>0, <1>4, <2>2, <3>3 DEF Answered, Goto
    <3>5. RpmLimit(s) \in Nat
      BY <3>1, LimitTypes DEF TypeOK, Clocked
    <3> QED
      BY <3>1, <3>3, <3>4, <3>5 DEF Answer
  <2> QED
    BY <2>1, <2>2
<1>5. ASSUME NEW r \in Request, ShadowCheck(r) PROVE Good
  <2>1. r # s
    BY <1>0, <1>5 DEF ShadowCheck, Decide
  <2> QED
    BY <1>0, <1>2, <1>5, <2>1 DEF ShadowCheck, Goto, Decide
<1>6. ASSUME NEW r \in Request, ServerIncr(r) PROVE Good
  <2> DEFINE c == [redis[KeyOf(r)][wire[r]] EXCEPT !.count = @ + 1]
             a == [bucket |-> wire[r], life |-> c.life, count |-> c.count]
  <2>0. reply' = IF pc[r] = "reply" THEN [reply EXCEPT ![r] = a] ELSE reply
    BY <1>6 DEF ServerIncr
  <2> HIDE DEF a
  <2>a. reply'[s] = reply[s] \/ (s = r /\ pc[r] = "reply")
    <3>1. CASE pc[r] # "reply"
      BY <2>0, <3>1
    <3>2. CASE pc[r] = "reply" /\ s # r
      <4>1. reply' = [reply EXCEPT ![r] = a]
        BY <2>0, <3>2
      <4> QED
        BY <4>1, <3>2, <1>0
    <3> QED
      BY <3>1, <3>2
  <2>b. verdict' = verdict /\ pc' = pc
    BY <1>6 DEF ServerIncr
  <2>1. /\ verdict' = verdict
        /\ pc' = pc
        /\ reply'[s] = reply[s] \/ (s = r /\ pc[r] = "reply")
    BY <2>a, <2>b
  <2> QED
    BY <1>1, <1>2, <2>1
<1>7. ASSUME NEW r \in Request,
             Refuse(r) \/ Connect(r) \/ Unavailable(r) \/ Drop(r) \/ CommandLost(r)
      PROVE  Good
  BY <1>0, <1>2, <1>7 DEF Refuse, Connect, Unavailable, Drop, CommandLost, Goto
<1>8. CASE Tick \/ UNCHANGED vars \/ \E k \in KeyId, b \in Minute : CounterLost(k, b)
  BY <1>2, <1>8 DEF Tick, vars, CounterLost
<1> QED
  BY <1>3, <1>4, <1>5, <1>6, <1>7, <1>8 DEF Next, Precheck, Server

-----------------------------------------------------------------------------
(* The fallback *)

\* A step that does not go through the fallback leaves all it decided alone.
ShadowStays ==
  /\ windows' = windows
  /\ \A s \in Request :
       \/ verdict'[s] = verdict[s] /\ (verdict[s].by = "shadow" => bucket'[s] = bucket[s])
       \/ verdict[s].by # "shadow" /\ verdict'[s].by # "shadow"

\* A step is a fallback check of some request or leaves what it decided alone.
LEMMA ShadowStep ==
  ASSUME TypeOK, ShadowChecked, [Next]_vars
  PROVE  ShadowStays \/ \E r \in Request : ShadowCheck(r)
<1>0. /\ verdict \in [Request -> Verdict]
      /\ pc \in [Request -> Stage]
      /\ bucket \in [Request -> 0..MaxMinute]
  BY DEF TypeOK, Typed
<1>1. ASSUME NEW r \in Request, Acquire(r) PROVE ShadowStays
  <2>1. verdict[r].by # "shadow"
    BY <1>1 DEF Acquire, Goto, ShadowChecked
  <2>2. windows' = windows
    BY <1>1 DEF Acquire
  <2>3. CASE RpmLimit(r) = None
    <3>1. verdict' = [verdict EXCEPT ![r] = [by |-> "nobody", admitted |-> TRUE]]
          /\ bucket' = bucket
      BY <1>1, <2>3 DEF Acquire, Decide
    <3> QED
      BY <1>0, <2>1, <2>2, <3>1 DEF ShadowStays
  <2>4. CASE RpmLimit(r) # None
    <3>1. verdict' = verdict /\ bucket' = [bucket EXCEPT ![r] = now]
      BY <1>1, <2>4 DEF Acquire
    <3> QED
      BY <1>0, <2>1, <2>2, <3>1 DEF ShadowStays
  <2> QED
    BY <2>3, <2>4
<1>2. ASSUME NEW r \in Request, Unavailable(r) PROVE ShadowStays
  <2>1. verdict[r].by # "shadow"
    BY <1>2 DEF Unavailable, Goto, ShadowChecked
  <2>2. /\ windows' = windows /\ verdict' = verdict
        /\ bucket' = [bucket EXCEPT ![r] = now]
    BY <1>2 DEF Unavailable
  <2> QED
    BY <1>0, <2>1, <2>2 DEF ShadowStays
<1>3. ASSUME NEW r \in Request, Answered(r) PROVE ShadowStays
  <2> DEFINE ok == reply[r].count <= RpmLimit(r)
  <2>1. verdict[r].by # "shadow"
    BY <1>3 DEF Answered, Goto, ShadowChecked
  <2>2. /\ windows' = windows /\ bucket' = bucket
        /\ verdict' = [verdict EXCEPT ![r] = [by |-> "redis", admitted |-> ok]]
    BY <1>3 DEF Answered, Decide
  <2> HIDE DEF ok
  <2>3. verdict'[r].by = "redis" /\ \A s \in Request \ {r} : verdict'[s] = verdict[s]
    BY <1>0, <2>2
  <2> QED
    BY <2>1, <2>2, <2>3 DEF ShadowStays
<1>4. ASSUME NEW r \in Request,
             Refuse(r) \/ Connect(r) \/ Drop(r) \/ Server(r)
      PROVE  ShadowStays
  BY <1>4 DEF Refuse, Connect, Drop, Server, ServerIncr, CommandLost, ShadowStays
<1>5. CASE Tick \/ UNCHANGED vars \/ \E k \in KeyId, b \in Minute : CounterLost(k, b)
  BY <1>5 DEF Tick, vars, CounterLost, ShadowStays
<1> QED
  BY <1>1, <1>2, <1>3, <1>4, <1>5 DEF Next, Precheck

\* No step takes a request that the fallback checked back before its check.
LEMMA ShadowCheckedStep == TypeOK /\ ShadowChecked /\ [Next]_vars => ShadowChecked'
<1> SUFFICES ASSUME TypeOK, ShadowChecked, [Next]_vars,
                    NEW s \in Request, verdict'[s].by = "shadow"
             PROVE  /\ pc'[s] \in {"serving", "unwinding", "ended"}
                    /\ bucket'[s] \in Minute
                    /\ RpmLimit(s) \in Nat
  BY CallsStay DEF ShadowChecked, RpmLimit
<1>0. /\ verdict \in [Request -> Verdict]
      /\ pc \in [Request -> Stage]
      /\ bucket \in [Request -> 0..MaxMinute]
  BY DEF TypeOK, Typed
<1>1. CASE ShadowStays
  <2>1. /\ pc[s] \in {"serving", "unwinding", "ended"}
        /\ bucket'[s] = bucket[s] /\ bucket[s] \in Minute /\ RpmLimit(s) \in Nat
    BY <1>1 DEF ShadowStays, ShadowChecked
  <2>2. pc'[s] \in {pc[s], "ended"}
    BY <1>0, <2>1 DEF Next, Precheck, Server, vars, Acquire, Refuse, Connect, Unavailable,
         Answered, ShadowCheck, Drop, ServerIncr, CommandLost, CounterLost, Tick, Goto
  <2> QED
    BY <2>1, <2>2
<1>2. ASSUME NEW r \in Request, ShadowCheck(r)
      PROVE  /\ pc'[s] \in {"serving", "unwinding", "ended"}
             /\ bucket'[s] \in Minute
             /\ RpmLimit(s) \in Nat
  <2>0. pc[r] = "lock" /\ bucket' = bucket
    BY <1>2 DEF ShadowCheck, Goto
  <2>1. CASE s = r
    <3>1. bucket[s] # 0 /\ RpmLimit(s) # None
      BY <2>0, <2>1 DEF TypeOK, Clocked
    <3>2. bucket[s] \in Minute
      BY <1>0, <3>1, BoundsAssumption DEF Minute
    <3>3. RpmLimit(s) \in Nat
      BY <3>1, LimitTypes
    <3>4. pc'[s] \in {"serving", "unwinding"}
      BY <1>0, <1>2, <2>1 DEF ShadowCheck, Goto
    <3> QED
      BY <2>0, <3>2, <3>3, <3>4
  <2>2. CASE s # r
    <3>1. verdict'[s] = verdict[s] /\ pc'[s] = pc[s]
      BY <1>0, <1>2, <2>2 DEF ShadowCheck, Goto, Decide
    <3> QED
      BY <2>0, <3>1 DEF ShadowChecked
  <2> QED
    BY <2>1, <2>2
<1> QED
  BY <1>1, <1>2, ShadowStep

\* The requests the budget is about are finitely many.
LEMMA ShadowSetsFinite ==
  ASSUME NEW k, NEW b, NEW L
  PROVE  /\ IsFiniteSet(Through(k, b, L)) /\ Cardinality(Through(k, b, L)) \in Nat
         /\ IsFiniteSet(Elsewhere(k, b)) /\ Cardinality(Elsewhere(k, b)) \in Nat
<1>1. Through(k, b, L) \subseteq Request /\ Elsewhere(k, b) \subseteq Request
  BY DEF Through, Elsewhere, AdmittedBy
<1> QED
  BY <1>1, RequestAssumption, FS_Subset, FS_CardinalityType

\* One more minute is one more limit.
LEMMA Times == \A L, n \in Nat : L * (n + 1) = L * n + L /\ L * n \in Nat
OBVIOUS

\* A check adds its request to those let through in its minute, or to those who
\* make the windows of the others forget.
LEMMA WindowsForgetStep ==
  TypeOK /\ ShadowChecked /\ WindowsForget /\ [Next]_vars => WindowsForget'
<1> SUFFICES ASSUME TypeOK, ShadowChecked, WindowsForget, [Next]_vars,
                    NEW k \in KeyId, NEW b \in Minute, NEW L \in Nat
             PROVE  Cardinality(Through(k, b, L)') <=
                      L * Cardinality(Elsewhere(k, b)') + Remembered(windows'[k], b, L)
  BY DEF WindowsForget
<1>0. /\ verdict \in [Request -> Verdict]
      /\ bucket \in [Request -> 0..MaxMinute]
      /\ windows \in [KeyId -> [bucket : 0..MaxMinute, count : Nat]]
      /\ call' = call
  BY CallsStay DEF TypeOK, Typed
<1>a. Cardinality(Through(k, b, L)) <=
        L * Cardinality(Elsewhere(k, b)) + Remembered(windows[k], b, L)
  BY DEF WindowsForget
<1>b. windows[k].bucket \in 0..MaxMinute /\ windows[k].count \in Nat
  BY <1>0
<1>c. Remembered(windows[k], b, L) \in 0..L
  BY <1>b DEF Remembered
<1>d. /\ IsFiniteSet(Through(k, b, L)) /\ Cardinality(Through(k, b, L)) \in Nat
      /\ IsFiniteSet(Elsewhere(k, b)) /\ Cardinality(Elsewhere(k, b)) \in Nat
  BY ShadowSetsFinite
<1>1. CASE ShadowStays
  <2>1. Through(k, b, L)' = Through(k, b, L)
    BY <1>0, <1>1 DEF ShadowStays, Through, AdmittedBy, KeyOf, RpmLimit
  <2>2. Elsewhere(k, b)' = Elsewhere(k, b)
    BY <1>0, <1>1 DEF ShadowStays, Elsewhere, KeyOf
  <2> QED
    BY <1>1, <1>a, <2>1, <2>2 DEF ShadowStays
<1>2. ASSUME NEW r \in Request, ShadowCheck(r)
      PROVE  Cardinality(Through(k, b, L)') <=
               L * Cardinality(Elsewhere(k, b)') + Remembered(windows'[k], b, L)
  <2> DEFINE w == WindowFor(KeyOf(r), bucket[r])
             ok == w.count < RpmLimit(r)
             after == IF ok THEN [w EXCEPT !.count = @ + 1] ELSE w
  <2>1. pc[r] = "lock" /\ bucket' = bucket
    BY <1>2 DEF ShadowCheck, Goto
  <2>2. /\ verdict' = [verdict EXCEPT ![r] = [by |-> "shadow", admitted |-> ok]]
        /\ windows' = [windows EXCEPT ![KeyOf(r)] = after]
    BY <1>2 DEF ShadowCheck, Decide
  <2>3. verdict[r].by # "shadow"
    BY <2>1 DEF ShadowChecked
  <2>4. RpmLimit(r) \in Nat /\ KeyOf(r) \in KeyId
    BY <2>1, LimitTypes DEF TypeOK, Clocked
  <2>5. w \in [bucket : {bucket[r]}, count : Nat]
    BY <1>0, <2>4 DEF WindowFor
  <2>6. /\ ok => after.count = w.count + 1
        /\ ~ok => after.count = w.count
        /\ after.bucket = bucket[r]
    BY <2>5
  <2>7. ok => ok = TRUE
    <3> HIDE DEF ok
    <3> QED
      BY <2>4, <2>5, Zenon DEF ok
  <2>8. w.count \in Nat
    BY <2>5
  <2> HIDE DEF w, after, ok
  <2>9. /\ verdict'[r].by = "shadow"
        /\ ok => verdict'[r] = [by |-> "shadow", admitted |-> TRUE]
        /\ ~ok => verdict'[r] # [by |-> "shadow", admitted |-> TRUE]
        /\ \A s \in Request \ {r} : verdict'[s] = verdict[s]
    <3>1. /\ verdict'[r] = [by |-> "shadow", admitted |-> ok]
          /\ \A s \in Request \ {r} : verdict'[s] = verdict[s]
      BY <1>0, <2>2
    <3>2. verdict'[r].by = "shadow"
      BY <3>1
    <3>3. ok => verdict'[r] = [by |-> "shadow", admitted |-> TRUE]
      BY <2>7, <3>1
    <3>4. ASSUME verdict'[r] = [by |-> "shadow", admitted |-> TRUE] PROVE ok
      <4>1. [by |-> "shadow", admitted |-> ok].admitted = [by |-> "shadow", admitted |-> TRUE].admitted
        BY <3>1, <3>4
      <4>2. ok = TRUE
        BY <4>1
      <4> QED
        BY <4>2, Zenon
    <3> QED
      BY <3>1, <3>2, <3>3, <3>4
  <2>10. r \notin Through(k, b, L) /\ r \notin Elsewhere(k, b)
    BY <2>3 DEF Through, Elsewhere, AdmittedBy
  <2>11. Through(k, b, L)' =
           IF ok /\ KeyOf(r) = k /\ bucket[r] = b /\ RpmLimit(r) <= L
           THEN Through(k, b, L) \cup {r} ELSE Through(k, b, L)
    BY <1>0, <2>1, <2>3, <2>9 DEF Through, AdmittedBy, KeyOf, RpmLimit
  <2>12. Elsewhere(k, b)' =
           IF KeyOf(r) = k /\ bucket[r] # b THEN Elsewhere(k, b) \cup {r} ELSE Elsewhere(k, b)
    BY <1>0, <2>1, <2>3, <2>9 DEF Elsewhere, KeyOf
  <2>13. CASE KeyOf(r) # k
    <3>1. windows'[k] = windows[k]
      BY <1>0, <2>2, <2>4, <2>13
    <3> QED
      BY <1>a, <2>11, <2>12, <2>13, <3>1
  <2>14. CASE KeyOf(r) = k /\ bucket[r] # b
    <3>1. Cardinality(Elsewhere(k, b)') = Cardinality(Elsewhere(k, b)) + 1
      BY <1>d, <2>10, <2>12, <2>14, FS_AddElement
    <3>2. Through(k, b, L)' = Through(k, b, L)
      BY <2>11, <2>14
    <3>3. Remembered(windows'[k], b, L) = 0
      BY <1>0, <2>2, <2>6, <2>14 DEF Remembered
    <3>4. /\ L * (Cardinality(Elsewhere(k, b)) + 1) = L * Cardinality(Elsewhere(k, b)) + L
          /\ L * Cardinality(Elsewhere(k, b)) \in Nat
      BY <1>d, Times
    <3> QED
      BY <1>a, <1>c, <1>d, <3>1, <3>2, <3>3, <3>4
  <2>15. CASE KeyOf(r) = k /\ bucket[r] = b
    <3>1. Elsewhere(k, b)' = Elsewhere(k, b)
      BY <2>12, <2>15
    <3>2. windows'[k] = after
      BY <1>0, <2>2, <2>15
    <3>3. Remembered(windows[k], b, L) = IF w.count <= L THEN w.count ELSE L
      <4>1. CASE windows[k].bucket = b
        BY <2>15, <4>1 DEF w, WindowFor, Remembered
      <4>2. CASE windows[k].bucket # b
        BY <2>15, <4>2 DEF w, WindowFor, Remembered
      <4> QED
        BY <4>1, <4>2
    <3>4. Remembered(windows'[k], b, L) =
            IF after.count <= L THEN after.count ELSE L
      BY <2>6, <2>15, <3>2 DEF Remembered
    <3>5. L * Cardinality(Elsewhere(k, b)) \in Nat
      BY <1>d, Times
    <3>6. CASE ok /\ RpmLimit(r) <= L
      <4>1. Cardinality(Through(k, b, L)') = Cardinality(Through(k, b, L)) + 1
        BY <1>d, <2>10, <2>11, <2>15, <3>6, FS_AddElement
      <4>2. w.count + 1 <= L /\ after.count = w.count + 1
        BY <2>4, <2>6, <2>8, <3>6 DEF ok
      <4> QED
        BY <1>a, <1>d, <2>8, <3>1, <3>3, <3>4, <3>5, <4>1, <4>2
    <3>7. CASE ~(ok /\ RpmLimit(r) <= L)
      <4>1. Through(k, b, L)' = Through(k, b, L)
        BY <2>11, <2>15, <3>7
      <4>2. after.count \in Nat /\ after.count >= w.count
        BY <2>6, <2>8
      <4> QED
        BY <1>a, <1>d, <2>8, <3>1, <3>3, <3>4, <3>5, <4>1, <4>2
    <3> QED
      BY <3>6, <3>7
  <2> QED
    BY <2>13, <2>14, <2>15
<1> QED
  BY <1>1, <1>2, ShadowStep

-----------------------------------------------------------------------------
(* The theorems *)

\* The strengthened invariant holds throughout.
THEOREM Invariance == Spec => []IInv
<1>1. IInv /\ [Next]_vars => IInv'
  BY TypeStep, GuardInvariant, AnswerInvariant, AdmittedInvariant, ShadowCheckedStep,
     WindowsForgetStep DEF IInv
<1> QED
  BY InitInv, <1>1, PTL DEF Spec

\* The limiter's state keeps its type, whatever the requests, keys and limits.
THEOREM TypeCorrect == Spec => []TypeOK
BY Invariance, PTL DEF IInv

\* No path through precheck leaks a concurrency slot or gives one back twice.
THEOREM NoSlotLeaks == Spec => []InFlightCountsGuards
BY Invariance, PTL DEF IInv

\* A key never has more guards granted under a limit of at most L than L.
THEOREM ConcurrencyHolds == Spec => []AdmittedUnderLimit
<1>1. IInv => AdmittedUnderLimit
  BY LimitTypes DEF IInv, EveryLimitHolds, AdmittedUnderLimit, HeldFor, Held
<1> QED
  BY <1>1, Invariance, PTL

\* Redis admits no more of a minute's requests than the limit, because INCR hands
\* out every count once and only counts up to the limit are admitted: the counts
\* are an injection of the admitted into 1..limit.
THEOREM RedisHolds == Spec => []RedisAdmitsAtMostLimit
<1>1. ASSUME IInv, NEW k \in KeyId, NEW r \in AdmittedBy("redis", k)
      PROVE  Cardinality({s \in AdmittedBy("redis", k) :
                            /\ reply[s].bucket = reply[r].bucket
                            /\ reply[s].life = reply[r].life
                            /\ RpmLimit(s) <= RpmLimit(r)}) <= RpmLimit(r)
  <2> DEFINE S == {s \in AdmittedBy("redis", k) :
                     /\ reply[s].bucket = reply[r].bucket
                     /\ reply[s].life = reply[r].life
                     /\ RpmLimit(s) <= RpmLimit(r)}
             limit == RpmLimit(r)
             count == [s \in S |-> reply[s].count]
  <2>1. limit \in Nat
    BY <1>1 DEF IInv, AdmittedHasAnswer, AdmittedBy
  <2>2. ASSUME NEW s \in S
        PROVE  /\ s \in Request /\ Answer(s) /\ KeyOf(s) = k
               /\ reply[s].bucket = reply[r].bucket /\ reply[s].life = reply[r].life
               /\ reply[s].count \in 1..limit
    <3>1. s \in Request /\ KeyOf(s) = k /\ RpmLimit(s) <= limit
      BY DEF AdmittedBy
    <3>2. Answer(s) /\ RpmLimit(s) \in Nat /\ reply[s].count <= RpmLimit(s)
      BY <1>1 DEF IInv, AdmittedHasAnswer, AdmittedBy
    <3>3. reply[s].count \in Nat /\ reply[s].count >= 1
      BY <1>1, <3>1, <3>2 DEF IInv, TypeOK, Typed, AnswersWereCounted
    <3> QED
      BY <2>1, <3>1, <3>2, <3>3
  <2>3. ASSUME NEW s \in S, NEW t \in S, reply[s].count = reply[t].count PROVE s = t
    <3>1. SameCounter(s, t)
      BY <2>2 DEF SameCounter
    <3> QED
      BY <1>1, <2>2, <2>3, <3>1 DEF IInv, AnswersDiffer
  <2> HIDE DEF S, limit
  <2>4. count \in Injection(S, 1..limit)
    BY <2>2, <2>3 DEF Injection, IsInjective
  <2>5. IsFiniteSet(1..limit) /\ Cardinality(1..limit) = limit
    BY <2>1, FS_Interval
  <2>6. Cardinality(S) <= limit
    BY <2>4, <2>5, FS_Injection
  <2> QED
    BY <2>6 DEF S, limit
<1>2. IInv => RedisAdmitsAtMostLimit
  BY <1>1 DEF RedisAdmitsAtMostLimit
<1> QED
  BY <1>2, Invariance, PTL

\* The fallback lets a minute's limit start over at most once for each request of
\* the key that it checked under another minute.
THEOREM ShadowHolds == Spec => []ShadowOvershootBounded
<1>1. ASSUME IInv, NEW k \in KeyId, NEW r \in AdmittedBy("shadow", k)
      PROVE  LET others == {s \in Request : /\ KeyOf(s) = k
                                            /\ verdict[s].by = "shadow"
                                            /\ bucket[s] # bucket[r]}
             IN  Cardinality({s \in AdmittedBy("shadow", k) :
                                bucket[s] = bucket[r] /\ RpmLimit(s) <= RpmLimit(r)})
                   <= RpmLimit(r) * (1 + Cardinality(others))
  <2> DEFINE b == bucket[r]
             L == RpmLimit(r)
             n == Cardinality(Elsewhere(k, b))
  <2>1. b \in Minute /\ L \in Nat
    BY <1>1 DEF IInv, ShadowChecked, AdmittedBy
  <2>2. Cardinality(Through(k, b, L)) <= L * n + Remembered(windows[k], b, L)
    BY <1>1, <2>1 DEF IInv, WindowsForget
  <2>3. Remembered(windows[k], b, L) \in 0..L
    BY <1>1, <2>1 DEF IInv, TypeOK, Typed, Remembered
  <2>4. n \in Nat /\ Cardinality(Through(k, b, L)) \in Nat
    BY ShadowSetsFinite
  <2>5. L * (n + 1) = L * n + L /\ L * n \in Nat
    BY <2>1, <2>4, Times
  <2> HIDE DEF L, n
  <2>6. Cardinality(Through(k, b, L)) <= L * (1 + n)
    <3>1. 1 + n = n + 1
      BY <2>4
    <3> QED
      BY <2>1, <2>2, <2>3, <2>4, <2>5, <3>1
  <2> QED
    BY <2>6 DEF L, n, Through, Elsewhere
<1>2. IInv => ShadowOvershootBounded
  BY <1>1 DEF ShadowOvershootBounded
<1> QED
  BY <1>2, Invariance, PTL
=============================================================================
