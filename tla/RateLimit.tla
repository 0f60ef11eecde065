------------------------------ MODULE RateLimit ------------------------------
(***************************************************************************)
(* RateLimitService::precheck (crates/aisix-ratelimit) with the Redis      *)
(* counters it asks (crates/aisix-storage): requests of several keys on    *)
(* several threads, each of which takes a concurrency guard, asks Redis    *)
(* for the minute's count, falls back to the in-process window, is served  *)
(* and drops its guard.                                                    *)
(*                                                                         *)
(* A step is what happens between two awaits or mutexes; the clock, the    *)
(* server and the client (who may go away, which drops the future at its   *)
(* await) move in between.  A call is what a handler passes to precheck:   *)
(* the snapshot its request holds, and the key, model and provider ids.    *)
(* The tpm limit is resolved and never read.                               *)
(***************************************************************************)
EXTENDS Integers, FiniteSets

CONSTANTS
  None,         \* Option::None
  Request,      \* the requests, each of which calls precheck once
  KeyId,
  Call,         \* [snapshot, key_id, model_name, provider_id]
  MaxMinute,    \* bound: the clock stops at this minute
  MaxLife       \* bound: a Redis counter is lost at most this often

VARIABLES
  pc,           \* where each request is
  call,         \* what it was called with
  bucket,       \* the minute it read from the clock last
  reply,        \* what Redis answered: [bucket, life, count] or NoReply
  verdict,      \* ghost: what precheck returned and which limiter said so
  in_flight,    \* ConcurrencyLimiter: the HashMap (0: no entry)
  windows,      \* ShadowLimiter: [bucket, count] (bucket 0: no entry)
  wire,         \* the minute whose INCR is under way to Redis for a request, or 0
  redis,        \* Redis: the counter of a key and minute, and how often it was lost
  now           \* minutes of the system clock

vars == <<pc, call, bucket, reply, verdict, in_flight, windows, wire, redis, now>>

Minute == 1..MaxMinute

Stage == {"new", "connect", "reply", "lock", "serving", "unwinding", "ended"}

NoReply == [bucket |-> 0, life |-> 0, count |-> 0]

Pending == [by |-> "nobody", admitted |-> FALSE]

Verdict == [by : {"nobody", "redis", "shadow"}, admitted : BOOLEAN]

-----------------------------------------------------------------------------
(* service.rs resolve_limits: field by field, the first of key, model and
   provider that has one. *)
FirstSome(a, b, c) == IF a # None THEN a ELSE IF b # None THEN b ELSE c

\* A key that was removed after its request was authenticated has no limits.
LimitIn(table, id, kind) == IF id \in DOMAIN table THEN table[id][kind] ELSE None

Limit(c, kind) ==
  FirstSome(LimitIn(c.snapshot.key_limits, c.key_id, kind),
            LimitIn(c.snapshot.model_limits, c.model_name, kind),
            LimitIn(c.snapshot.provider_limits, c.provider_id, kind))

ASSUME CallAssumption ==
  \A c \in Call :
    /\ c.key_id \in KeyId
    /\ \A kind \in {"rpm", "concurrency"} : Limit(c, kind) \in Nat \cup {None}

ASSUME NoneAssumption == None \notin Nat

ASSUME RequestAssumption == IsFiniteSet(Request)

ASSUME BoundsAssumption == MaxMinute \in Nat \ {0} /\ MaxLife \in Nat

KeyOf(r) == call[r].key_id

ConcurrencyLimit(r) == Limit(call[r], "concurrency")

RpmLimit(r) == Limit(call[r], "rpm")

Init ==
  /\ pc = [r \in Request |-> "new"]
  /\ call \in [Request -> Call]
  /\ bucket = [r \in Request |-> 0]
  /\ reply = [r \in Request |-> NoReply]
  /\ verdict = [r \in Request |-> Pending]
  /\ in_flight = [k \in KeyId |-> 0]
  /\ windows = [k \in KeyId |-> [bucket |-> 0, count |-> 0]]
  /\ wire = [r \in Request |-> 0]
  /\ redis = [k \in KeyId |-> [b \in Minute |-> [life |-> 0, count |-> 0]]]
  /\ now = 1

Goto(r, from, to) == pc[r] = from /\ pc' = [pc EXCEPT ![r] = to]

Decide(r, limiter, ok) ==
  verdict' = [verdict EXCEPT ![r] = [by |-> limiter, admitted |-> ok]]

-----------------------------------------------------------------------------
(* concurrency.rs *)

\* Slip: the test and the increment are two critical sections; what the test
\* saw is no longer looked at.
EnterWithoutRoom(r) ==
  in_flight' = IF ConcurrencyLimit(r) = None THEN in_flight
               ELSE [in_flight EXCEPT ![KeyOf(r)] = @ + 1]

\* acquire succeeds: one critical section, none at all without a limit.
Enter(r) ==
  IF ConcurrencyLimit(r) = None THEN in_flight' = in_flight
  ELSE /\ in_flight[KeyOf(r)] < ConcurrencyLimit(r)
       /\ in_flight' = [in_flight EXCEPT ![KeyOf(r)] = @ + 1]

\* Slip: the clock is only read when Redis fails.
AcquireWithoutClock(r) ==
  /\ Enter(r)
  /\ Goto(r, "new", IF RpmLimit(r) = None THEN "serving" ELSE "connect")
  /\ IF RpmLimit(r) = None THEN Decide(r, "nobody", TRUE) ELSE UNCHANGED verdict
  /\ UNCHANGED <<call, bucket, reply, windows, wire, redis, now>>

\* acquire, and the clock read for Redis if the request has an rpm limit.
Acquire(r) ==
  /\ Enter(r)
  /\ Goto(r, "new", IF RpmLimit(r) = None THEN "serving" ELSE "connect")
  /\ IF RpmLimit(r) = None
     THEN Decide(r, "nobody", TRUE) /\ UNCHANGED bucket
     ELSE bucket' = [bucket EXCEPT ![r] = now] /\ UNCHANGED verdict
  /\ UNCHANGED <<call, reply, windows, wire, redis, now>>

\* acquire returns RateLimited: there is no guard.
Refuse(r) ==
  /\ ConcurrencyLimit(r) # None
  /\ in_flight[KeyOf(r)] >= ConcurrencyLimit(r)
  /\ Goto(r, "new", "ended")
  /\ UNCHANGED <<call, bucket, reply, verdict, in_flight, windows, wire, redis, now>>

\* The future ends, or is dropped by a client that went away at one of its
\* awaits, and ConcurrencyGuard::drop runs.  An INCR sent stays under way.
Release(r) ==
  in_flight' = IF ConcurrencyLimit(r) = None THEN in_flight
               ELSE [in_flight EXCEPT ![KeyOf(r)] = IF @ = 0 THEN 0 ELSE @ - 1]

\* Slip: only a request that ran to its end gives its slot back.
DropUnlessCancelled(r) ==
  /\ \E from \in {"connect", "reply", "serving", "unwinding"} : Goto(r, from, "ended")
  /\ IF pc[r] \in {"connect", "reply"} THEN UNCHANGED in_flight ELSE Release(r)
  /\ UNCHANGED <<call, bucket, reply, verdict, windows, wire, redis, now>>

Drop(r) ==
  /\ \E from \in {"connect", "reply", "serving", "unwinding"} : Goto(r, from, "ended")
  /\ Release(r)
  /\ UNCHANGED <<call, bucket, reply, verdict, windows, wire, redis, now>>

-----------------------------------------------------------------------------
(* redis_check.rs, counters.rs, redis_pool.rs *)

\* RedisPool::connect succeeds and INCR is written.
Connect(r) ==
  /\ Goto(r, "connect", "reply")
  /\ wire' = [wire EXCEPT ![r] = bucket[r]]
  /\ UNCHANGED <<call, bucket, reply, verdict, in_flight, windows, redis, now>>

\* No pool, no connection within 250 ms, or an error in place of an answer, to
\* INCR or to the EXPIRE that follows a first INCR: RedisCheckResult::Unavailable,
\* and ShadowLimiter::check_rpm reads the clock, before its lock.
Unavailable(r) ==
  /\ \E from \in {"connect", "reply"} : Goto(r, from, "lock")
  /\ bucket' = [bucket EXCEPT ![r] = now]
  /\ UNCHANGED <<call, reply, verdict, in_flight, windows, wire, redis, now>>

\* Slip: the count that reaches the limit plus one is still let through.
AnsweredOneTooMany(r) ==
  LET ok == reply[r].count <= RpmLimit(r) + 1
  IN  /\ reply[r] # NoReply
      /\ Goto(r, "reply", IF ok THEN "serving" ELSE "unwinding")
      /\ Decide(r, "redis", ok)
      /\ UNCHANGED <<call, bucket, reply, in_flight, windows, wire, redis, now>>

\* RedisCheckResult::Allowed or Limited.
Answered(r) ==
  LET ok == reply[r].count <= RpmLimit(r)
  IN  /\ reply[r] # NoReply
      /\ Goto(r, "reply", IF ok THEN "serving" ELSE "unwinding")
      /\ Decide(r, "redis", ok)
      /\ UNCHANGED <<call, bucket, reply, in_flight, windows, wire, redis, now>>

\* The server executes INCR; if the request still waits, it will read the count.
ServerIncr(r) ==
  LET k == KeyOf(r)
      b == wire[r]
      c == [redis[k][b] EXCEPT !.count = @ + 1]
  IN  /\ b # 0
      /\ wire' = [wire EXCEPT ![r] = 0]
      /\ redis' = [redis EXCEPT ![k][b] = c]
      /\ reply' = IF pc[r] = "reply"
                  THEN [reply EXCEPT ![r] = [bucket |-> b, life |-> c.life, count |-> c.count]]
                  ELSE reply
      /\ UNCHANGED <<pc, call, bucket, verdict, in_flight, windows, now>>

\* The command never arrives.
CommandLost(r) ==
  /\ wire[r] # 0
  /\ wire' = [wire EXCEPT ![r] = 0]
  /\ UNCHANGED <<pc, call, bucket, reply, verdict, in_flight, windows, redis, now>>

\* The counter expires (90 s), is evicted, or the server restarts without it.
CounterLost(k, b) ==
  /\ redis[k][b].count # 0
  /\ redis[k][b].life < MaxLife
  /\ redis' = [redis EXCEPT ![k][b] = [life |-> @.life + 1, count |-> 0]]
  /\ UNCHANGED <<pc, call, bucket, reply, verdict, in_flight, windows, wire, now>>

-----------------------------------------------------------------------------
(* shadow.rs check_rpm, from the lock on *)

\* The window the request finds, or puts in its place.
WindowFor(k, b) ==
  IF windows[k].bucket = b THEN windows[k] ELSE [bucket |-> b, count |-> 0]

\* Slip: the limit itself still fits.
ShadowOneTooMany(r) ==
  LET k == KeyOf(r)
      w == WindowFor(k, bucket[r])
      ok == w.count <= RpmLimit(r)
  IN  /\ Goto(r, "lock", IF ok THEN "serving" ELSE "unwinding")
      /\ windows' = [windows EXCEPT ![k] = IF ok THEN [w EXCEPT !.count = @ + 1] ELSE w]
      /\ Decide(r, "shadow", ok)
      /\ UNCHANGED <<call, bucket, reply, in_flight, wire, redis, now>>

ShadowCheck(r) ==
  LET k == KeyOf(r)
      w == WindowFor(k, bucket[r])
      ok == w.count < RpmLimit(r)
  IN  /\ Goto(r, "lock", IF ok THEN "serving" ELSE "unwinding")
      /\ windows' = [windows EXCEPT ![k] = IF ok THEN [w EXCEPT !.count = @ + 1] ELSE w]
      /\ Decide(r, "shadow", ok)
      /\ UNCHANGED <<call, bucket, reply, in_flight, wire, redis, now>>

Tick ==
  /\ now < MaxMinute
  /\ now' = now + 1
  /\ UNCHANGED <<pc, call, bucket, reply, verdict, in_flight, windows, wire, redis>>

-----------------------------------------------------------------------------
Precheck(r) ==
  \/ Acquire(r) \/ Refuse(r)
  \/ Connect(r) \/ Unavailable(r) \/ Answered(r) \/ ShadowCheck(r) \/ Drop(r)

Server(r) == ServerIncr(r) \/ CommandLost(r)

Next ==
  \/ \E r \in Request : Precheck(r) \/ Server(r)
  \/ \E k \in KeyId, b \in Minute : CounterLost(k, b)
  \/ Tick

\* The runtime runs what is ready: a new request, one whose connection was made
\* or timed out, one whose answer is here, one that can take the mutex, one that
\* is returning; and a connection whose command was lost breaks.  Nothing obliges
\* a Redis that has the command to answer: integer_command reads its socket
\* without a timeout.
Fairness ==
  \A r \in Request :
    /\ WF_vars(Acquire(r) \/ Refuse(r))
    /\ WF_vars(pc[r] = "connect" /\ (Connect(r) \/ Unavailable(r)))
    /\ WF_vars(Answered(r))
    /\ WF_vars(pc[r] = "reply" /\ wire[r] = 0 /\ Unavailable(r))
    /\ WF_vars(ShadowCheck(r))
    /\ WF_vars(pc[r] = "unwinding" /\ Drop(r))

Spec == Init /\ [][Next]_vars

FairSpec == Spec /\ Fairness

-----------------------------------------------------------------------------
Held == {r \in Request : pc[r] \notin {"new", "ended"} /\ ConcurrencyLimit(r) # None}

HeldFor(k) == {r \in Held : KeyOf(r) = k}

HeldUnder(k, limit) == {r \in HeldFor(k) : ConcurrencyLimit(r) <= limit}

AdmittedBy(limiter, k) ==
  {r \in Request : KeyOf(r) = k /\ verdict[r] = [by |-> limiter, admitted |-> TRUE]}

\* Who is on the way through the rpm check has a limit and has read the clock.
Clocked ==
  \A r \in Request :
    pc[r] \in {"connect", "reply", "lock"} => bucket[r] # 0 /\ RpmLimit(r) # None

Typed ==
  /\ pc \in [Request -> Stage]
  /\ call \in [Request -> Call]
  /\ bucket \in [Request -> 0..MaxMinute]
  /\ reply \in [Request -> [bucket : 0..MaxMinute, life : 0..MaxLife, count : Nat]]
  /\ verdict \in [Request -> Verdict]
  /\ in_flight \in [KeyId -> Nat]
  /\ windows \in [KeyId -> [bucket : 0..MaxMinute, count : Nat]]
  /\ wire \in [Request -> 0..MaxMinute]
  /\ redis \in [KeyId -> [Minute -> [life : 0..MaxLife, count : Nat]]]
  /\ now \in Minute

\* The type invariant of the limiters, the counters and the requests in them: no
\* check is made for a minute that was never read or against a limit there is not.
TypeOK == Typed /\ Clocked

\* The in-flight entry of a key counts exactly the guards alive for it: no path
\* out of precheck or of the handler, refused, served or cancelled at an await,
\* leaks a slot or gives one back twice.
InFlightCountsGuards == \A k \in KeyId : in_flight[k] = Cardinality(HeldFor(k))

\* However requests race, and whatever snapshots with lower or higher limits
\* they hold, a key never has more guards alive that were granted under a
\* concurrency limit of at most L than L.
AdmittedUnderLimit ==
  \A k \in KeyId :
    \A r \in HeldFor(k) :
      Cardinality(HeldUnder(k, ConcurrencyLimit(r))) <= ConcurrencyLimit(r)

\* As long as Redis keeps a minute's counter, it admits no more requests of the
\* key under an rpm limit of L than L, whatever answers were lost, late or never
\* read, and whichever snapshots the requests hold.
RedisAdmitsAtMostLimit ==
  \A k \in KeyId : \A r \in AdmittedBy("redis", k) :
    Cardinality({s \in AdmittedBy("redis", k) :
                   /\ reply[s].bucket = reply[r].bucket
                   /\ reply[s].life = reply[r].life
                   /\ RpmLimit(s) <= RpmLimit(r)}) <= RpmLimit(r)

\* The clock is read before the mutex, so a thread that was delayed over the
\* minute's end throws the new window away.  Each request that checks under
\* another minute can let a minute's limit start over once; without one the
\* fallback enforces it exactly.
ShadowOvershootBounded ==
  \A k \in KeyId : \A r \in AdmittedBy("shadow", k) :
    LET others == {s \in Request : /\ KeyOf(s) = k
                                   /\ verdict[s].by = "shadow"
                                   /\ bucket[s] # bucket[r]}
    IN  Cardinality({s \in AdmittedBy("shadow", k) :
                       bucket[s] = bucket[r] /\ RpmLimit(s) <= RpmLimit(r)})
          <= RpmLimit(r) * (1 + Cardinality(others))

\* rate-limit.md: provider, model and key limits are checked independently, so
\* no provider serves more requests at once than its own limit.
ProviderLimitHolds ==
  \A r \in Request :
    LET own == call[r].snapshot.provider_limits[call[r].provider_id].concurrency
        together == {s \in Request : /\ pc[s] = "serving"
                                     /\ call[s].provider_id = call[r].provider_id}
    IN  (pc[r] = "serving" /\ own # None) => Cardinality(together) <= own

\* architecture.md: with Redis unavailable the check degrades to the shadow
\* limiter and the request is still forwarded, or refused, but it is decided.
RedisTroubleIsSurvived ==
  \A r \in Request : pc[r] = "connect" ~> pc[r] \in {"serving", "unwinding", "ended"}
=============================================================================
