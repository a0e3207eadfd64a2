---------------------------- MODULE SlidingWindow ----------------------------
(***************************************************************************)
(* The sliding-window script of limits/redis_bucket.py on one key, also     *)
(* used per client address by limits/pre_auth.py. Redis runs it atomically; *)
(* the clock reading it is given may be late and out of order.              *)
(*                                                                          *)
(* The log is a sorted set whose member is tostring(now) .. math.random().  *)
(* Redis reseeds math.random for every script, so its first value is always *)
(* the same, and Lua prints 14 digits: two checks whose readings agree to a *)
(* tenth of a millisecond name the same member. The clock unit here is that *)
(* resolution, and a member is its reading.                                 *)
(***************************************************************************)
EXTENDS Integers, FiniteSets, RedisClock

CONSTANTS Limit,    \* request_limit
          Window    \* window_seconds, in clock units

ASSUME WindowAssumption ==
  /\ Limit \in Nat \ {0} /\ Window \in Nat \ {0} /\ Lag \in Nat /\ MaxTime \in Nat

VARIABLES
  log,       \* the sorted set: readings of allowed checks; empty when no key
  retryAt,   \* reading from which the last denial promises room
  passed,    \* history: [now, at] of every allowed check: reading and instant
  total      \* history: [instant -> number of checks allowed at it]

windowVars == <<time, log, expireAt, retryAt, outcome, passed, total>>

(* The log has readings of the clock only, none older than Lag before the start. *)
WindowTypeOK ==
  /\ time \in 0..MaxTime
  /\ log \subseteq (0 - Lag)..MaxTime
  /\ expireAt \in 0..(MaxTime + Window)
  /\ retryAt \in Int
  /\ outcome \in {"none", "allowed", "denied"}
  /\ \A a \in passed : a.at \in 0..time /\ a.now \in (a.at - Lag)..a.at
  /\ total \in [0..MaxTime -> Nat]

WindowInit ==
  /\ time = 0
  /\ log = {}
  /\ expireAt = 0
  /\ retryAt = 0
  /\ outcome = "none"
  /\ passed = {}
  /\ total = [t \in 0..MaxTime |-> 0]

WindowTick ==
  /\ time < MaxTime
  /\ time' = time + 1
  /\ log' = IF time' >= expireAt THEN {} ELSE log
  /\ UNCHANGED <<expireAt, retryAt, outcome, passed, total>>

\* mutant: the window is one unit short
KeptShort(now) == {m \in log : m > now - Window + 1}

(* ZREMRANGEBYSCORE key -inf now-window *)
Kept(now) == {m \in log : m > now - Window}

(* ZRANGE key 0 0: the member with the lowest score. *)
IsOldest(m, S) == m \in S /\ \A n \in S : m <= n

(* count < limit: the request is logged and the key lives another window. *)
Allow(now) ==
  /\ Cardinality(Kept(now)) < Limit
  /\ log' = Kept(now) \cup {now}
  /\ expireAt' = time + Window
  /\ outcome' = "allowed"
  /\ passed' = passed \cup {[now |-> now, at |-> time]}
  /\ total' = [total EXCEPT ![time] = @ + 1]
  /\ UNCHANGED <<time, retryAt>>

\* mutant: a denied request is logged as well
DenyLogs(now) ==
  /\ Cardinality(Kept(now)) >= Limit
  /\ log' = Kept(now) \cup {now}
  /\ \E m \in Kept(now) : IsOldest(m, Kept(now)) /\ retryAt' = now + (m + Window - now)
  /\ outcome' = "denied"
  /\ UNCHANGED <<time, expireAt, passed, total>>

(* Otherwise nothing is logged; retry_after is the time until the oldest
   logged request leaves the window. *)
Deny(now) ==
  /\ Cardinality(Kept(now)) >= Limit
  /\ log' = Kept(now)
  /\ \E m \in Kept(now) : IsOldest(m, Kept(now)) /\ retryAt' = now + (m + Window - now)
  /\ outcome' = "denied"
  /\ UNCHANGED <<time, expireAt, passed, total>>

WindowCheck(now) == Allow(now) \/ Deny(now)

(* Bound: at most Limit + 1 checks are allowed at one instant. *)
WindowNext == WindowTick \/ \E now \in (time - Lag)..time : WindowCheck(now) /\ total[time] <= Limit

WindowSpec == WindowInit /\ [][WindowNext]_windowVars

-----------------------------------------------------------------------------
Recent == {a \in passed : a.at > time - (Window - Lag)}

(* No over-admission for checks that can be told apart: of the last Window
   less the age of the oldest reading, no more than Limit different readings
   were allowed, although the key expires, late readings are logged behind
   newer ones and each check prunes by its own reading. *)
ReadingsWithinLimit == Cardinality({a.now : a \in Recent}) <= Limit

(* Retry-After is enough: the first check not earlier than what the denial
   promised is allowed unless another one was allowed in between. *)
RetryAfterSuffices ==
  [][\A now \in (time - Lag)..time :
       (outcome = "denied" /\ now >= retryAt /\ WindowCheck(now)) => outcome' = "allowed"]_windowVars

(* What makes the bound inductive: the log holds the reading of every allowed
   check that is still recent. *)
RecentIsLogged == \A a \in Recent : a.now \in log

LogBounded == IsFiniteSet(log) /\ Cardinality(log) <= Limit

ExpiresLate == \A a \in passed : a.at <= expireAt - Window

(* After a denial the log is full and the promise is its oldest entry's end. *)
PromiseKept ==
  (outcome = "denied" /\ Cardinality(log) >= Limit) =>
     \E m \in log : m + Window = retryAt

WindowIInv ==
  /\ WindowTypeOK /\ RecentIsLogged /\ LogBounded /\ ExpiresLate /\ PromiseKept
=============================================================================
