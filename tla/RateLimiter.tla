------------------------------ MODULE RateLimiter ------------------------------
(***************************************************************************)
(* The fixed-window limiter of a route: rateLimiter, rateLimitMiddleware   *)
(* and requestIP in httpapi/middleware.go.                                 *)
(*                                                                         *)
(* Points in time are kept as their age in ticks, up to the age at which   *)
(* nothing depends on it any more.  A request reads the clock before it    *)
(* waits for the mutex, so its reading is some ticks old when it is used:  *)
(* late, at most Lag.  Keys are addresses of peers.                        *)
(***************************************************************************)
EXTENDS Integers, FiniteSets

CONSTANTS
  Peers,
  Limit,       \* requests per window
  Window,      \* ticks of a window
  Interval,    \* cleanupInterval(window)
  MaxBuckets,  \* maxRateLimiterBuckets
  Lag

ASSUME LimiterAssumption ==
  /\ Limit \in Nat \ {0} /\ Window \in Nat \ {0} /\ Lag \in 0..(Window - 1)
  /\ Interval \in 1..Window /\ MaxBuckets \in Nat \ {0}

VARIABLES
  buckets,      \* the bucket of a key: the age of its start, and its count
  lastCleanup,  \* the age of the last cleanup
  grants,       \* history: the age of the i-th last request of a key that was
                \* allowed since its running bucket was last evicted
  wronged       \* history: keys that were refused without having had Limit requests

limiterVars == <<buckets, lastCleanup, grants, wronged>>

Past == Window + Lag
Gone == [age |-> Past, count |-> 0]
Many == 2 * Limit + 1
NoGrants == [i \in 1..Many |-> Past]

LimiterTypeOK ==
  /\ buckets \in [Peers -> [age : 0..Past, count : 0..Limit]]
  /\ lastCleanup \in 0..(Interval + Lag)
  /\ grants \in [Peers -> [1..Many -> 0..Past]]
  /\ wronged \subseteq Peers

\* newRateLimiter: no buckets, and a cleanup is due.
LimiterInit ==
  /\ buckets = [k \in Peers |-> Gone]
  /\ lastCleanup = Interval + Lag
  /\ grants = [k \in Peers |-> NoGrants]
  /\ wronged = {}

Buckets == {k \in Peers : buckets[k].count > 0}
Expired(k, late) == buckets[k].age - late >= Window

\* At least i requests of a key were allowed in the last n ticks.
Granted(k, i, n) == grants[k][i] < n

-----------------------------------------------------------------------------

\* Mutant: room for one bucket too many.
FullOneMore(keys) == Cardinality(keys) > MaxBuckets

\* The map has no room for another key.
Full(keys) == Cardinality(keys) >= MaxBuckets

CleanupDue(late) == lastCleanup - late >= Interval

\* cleanupExpired: what is left when a key finds no place.
Cleaned(late) ==
  IF Full(Buckets) /\ CleanupDue(late) THEN {k \in Buckets : ~Expired(k, late)} ELSE Buckets

\* evictOldest: one of the buckets that started first.
Oldest(keys) == {k \in keys : \A j \in keys : buckets[k].age >= buckets[j].age}

\* The keys a new key finds when there is room for it.
RoomFor(late) ==
  LET left == Cleaned(late)
  IN IF Full(left) THEN {left \ {v} : v \in Oldest(left)} ELSE {left}

\* One more for k; those in lost have lost a running bucket.
Grant(k, lost) ==
  grants' = [j \in Peers |-> CASE j = k -> [i \in 1..Many |-> IF i = 1 THEN 0 ELSE grants[j][i - 1]]
                               [] j \in lost -> NoGrants
                               [] OTHER -> grants[j]]

\* allow: a key without a bucket gets one, and others may have to go.
NewBucket(k, late) ==
  /\ k \notin Buckets
  /\ \E keys \in RoomFor(late) :
       /\ buckets' = [j \in Peers |-> CASE j = k -> [age |-> late, count |-> 1]
                                        [] j \in keys -> buckets[j]
                                        [] OTHER -> Gone]
       /\ Grant(k, {j \in Buckets \ keys : ~Expired(j, late)})
  /\ lastCleanup' = IF Full(Buckets) /\ CleanupDue(late) THEN late ELSE lastCleanup
  /\ UNCHANGED wronged

\* Mutant: the count starts again, the window does not.
NextWindowSameStart(k, late) ==
  /\ k \in Buckets /\ Expired(k, late)
  /\ buckets' = [buckets EXCEPT ![k].count = 1]
  /\ Grant(k, {})
  /\ UNCHANGED <<lastCleanup, wronged>>

\* Mutant: the window starts again, the count does not.
NextWindowSameCount(k, late) ==
  /\ k \in Buckets /\ Expired(k, late)
  /\ buckets' = [buckets EXCEPT ![k].age = late]
  /\ Grant(k, {})
  /\ UNCHANGED <<lastCleanup, wronged>>

\* allow: the window is over and a new one begins.
NextWindow(k, late) ==
  /\ k \in Buckets /\ Expired(k, late)
  /\ buckets' = [buckets EXCEPT ![k] = [age |-> late, count |-> 1]]
  /\ Grant(k, {})
  /\ UNCHANGED <<lastCleanup, wronged>>

\* Mutant: one request too many.
ConsumeOneMore(k, late) ==
  /\ k \in Buckets /\ ~Expired(k, late) /\ buckets[k].count <= Limit
  /\ buckets' = [buckets EXCEPT ![k].count = @ + 1]
  /\ Grant(k, {})
  /\ UNCHANGED <<lastCleanup, wronged>>

\* allow: one more request in the window.
Consume(k, late) ==
  /\ k \in Buckets /\ ~Expired(k, late) /\ buckets[k].count < Limit
  /\ buckets' = [buckets EXCEPT ![k].count = @ + 1]
  /\ Grant(k, {})
  /\ UNCHANGED <<lastCleanup, wronged>>

\* allow: the quota is used up, rateLimitMiddleware answers 429.
Refuse(k, late) ==
  /\ k \in Buckets /\ ~Expired(k, late) /\ buckets[k].count >= Limit
  /\ wronged' = IF Granted(k, Limit, Past) THEN wronged ELSE wronged \union {k}
  /\ UNCHANGED <<buckets, lastCleanup, grants>>

\* A request of peer k.
Allow(k, late) ==
  \/ NewBucket(k, late) \/ NextWindow(k, late) \/ Consume(k, late) \/ Refuse(k, late)

Older(age, bound) == IF age < bound THEN age + 1 ELSE age

Tick ==
  /\ buckets' = [k \in Peers |-> [buckets[k] EXCEPT !.age = Older(@, Past)]]
  /\ lastCleanup' = Older(lastCleanup, Interval + Lag)
  /\ grants' = [k \in Peers |-> [i \in 1..Many |-> Older(grants[k][i], Past)]]
  /\ UNCHANGED wronged

LimiterNext ==
  \/ Tick
  \/ \E k \in Peers, late \in 0..Lag : Allow(k, late)

LimiterSpec == LimiterInit /\ [][LimiterNext]_limiterVars

-----------------------------------------------------------------------------
(* Properties *)

\* What "per minute" comes to: as a fixed window lets a peer use its quota at
\* the end of one window and again at the start of the next, no Window - Lag
\* ticks see more than twice the limit, unless the peer's bucket was evicted.
QuotaHolds == \A k \in Peers : ~Granted(k, 2 * Limit + 1, Window - Lag)

\* Nobody is refused (429) who has not had Limit requests within the window,
\* whatever cleaning, evictions and old clock readings do.
RefusalsAreDeserved == wronged = {}

\* The map of buckets stays within "its safety bound" (middleware.go:36), and
\* what it "evicts" are "stale keys": a running window is lost only when every
\* bucket runs, as far as the reading of the clock can tell.
RunningWindowsAreSpared ==
  [][/\ Cardinality(Buckets') <= MaxBuckets
     /\ (\E k \in Buckets \ Buckets' : ~Expired(k, 0)) =>
          Full(Buckets) /\ \A j \in Buckets : ~Expired(j, Lag)]_limiterVars

\* Why: the requests a bucket counts were allowed since it started, ...
CountsAreGrants ==
  \A k \in Peers : \A i \in 1..buckets[k].count : grants[k][i] <= buckets[k].age

\* ... those it does not count before it started, as far as a late reading of
\* the clock can tell, ...
EarlierGrantsPrecede ==
  \A k \in Buckets : \A i \in 1..Many :
    i > buckets[k].count => grants[k][i] >= buckets[k].age - Lag

\* ... and what a whole quota separates from them before the window before.
TwoWindowsApart ==
  \A k \in Peers : \A i \in 1..Many :
    i > buckets[k].count + Limit => grants[k][i] >= Window - Lag

\* The map of buckets stays within its bound.
MapIsBounded == IsFiniteSet(Buckets) /\ Cardinality(Buckets) <= MaxBuckets

\* The inductive invariant.
LimiterInv ==
  /\ LimiterTypeOK /\ RefusalsAreDeserved
  /\ CountsAreGrants /\ EarlierGrantsPrecede /\ TwoWindowsApart /\ MapIsBounded
=============================================================================
