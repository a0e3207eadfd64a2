----------------------------- MODULE TokenBucket -----------------------------
(***************************************************************************)
(* The token-bucket script of limits/redis_bucket.py on one key. Redis runs *)
(* it atomically. The replica that calls it read its clock before it sent   *)
(* the call, so the script may see readings that are late and out of order. *)
(*                                                                          *)
(* Fractions are scaled away: a request costs Cost units and Rate units     *)
(* arrive per clock unit, so capacity, cost and rate of the code are        *)
(* Capacity/Cost, 1 and Rate/Cost.                                          *)
(***************************************************************************)
EXTENDS Integers, RedisClock

CONSTANTS Capacity,  \* burst_capacity, or request_limit when it is None
          Rate,      \* request_limit / window_seconds
          Cost,      \* cost = 1
          Second,    \* clock units per second
          Ttl        \* math.ceil(capacity / rate) + 1 seconds

ASSUME BucketAssumption ==
  /\ Capacity \in Nat /\ Rate \in Nat \ {0} /\ Cost \in Nat \ {0}
  /\ Second \in Nat \ {0} /\ Ttl \in Nat /\ Lag \in Nat /\ MaxTime \in Nat
  /\ Capacity >= Cost
  /\ (Ttl - Second) * Rate >= Capacity
  /\ Lag <= Second

VARIABLES
  present,   \* the key exists
  tokens,    \* its fields
  last_refill,
  high,      \* history: the newest reading the script has seen
  base,      \* history: the reading of the check that opened the interval
  granted    \* history: checks allowed in the interval

bucketVars == <<time, present, tokens, last_refill, expireAt, high, base, granted, outcome>>

Outcomes == {"none", "allowed", "denied"}

MinOf(a, b) == IF a <= b THEN a ELSE b
MaxOf(a, b) == IF a <= b THEN b ELSE a

(* The bucket never holds more than its capacity. *)
BucketTypeOK ==
  /\ time \in 0..MaxTime
  /\ present \in BOOLEAN
  /\ tokens \in Int /\ tokens <= Capacity
  /\ last_refill \in Int /\ expireAt \in Int /\ high \in Int /\ base \in Int
  /\ granted \in Nat
  /\ outcome \in Outcomes

BucketInit ==
  /\ time \in 0..MaxTime
  /\ present = FALSE
  /\ tokens = 0
  /\ last_refill = 0
  /\ expireAt = 0
  /\ high = time - Lag
  /\ base = time - Lag
  /\ granted = 0
  /\ outcome = "none"

(* The key is gone as soon as its time to live has passed. *)
BucketTick ==
  /\ time < MaxTime
  /\ time' = time + 1
  /\ present' = (present /\ time' < expireAt)
  /\ UNCHANGED <<tokens, last_refill, expireAt, high, base, granted, outcome>>

(* The content of the bucket when the script has refilled it; a missing key
   counts as full. *)
Refilled(now) ==
  IF ~present THEN Capacity
             ELSE MinOf(Capacity, tokens + (now - last_refill) * Rate)

\* mutant: a denied request is charged as well
CheckChargesDenied(now, opens) ==
  LET filled == Refilled(now)
      allowed == filled >= Cost
  IN
  /\ tokens' = filled - Cost
  /\ present' = TRUE
  /\ last_refill' = now
  /\ expireAt' = time + Ttl
  /\ outcome' = IF allowed THEN "allowed" ELSE "denied"
  /\ high' = MaxOf(high, now)
  /\ base' = IF opens THEN now ELSE base
  /\ granted' = (IF opens THEN 0 ELSE granted) + (IF allowed THEN 1 ELSE 0)
  /\ UNCHANGED time

\* mutant: a denial saves the refilled tokens and not the time of the refill
CheckKeepsRefillTime(now, opens) ==
  LET filled == Refilled(now)
      allowed == filled >= Cost
  IN
  /\ tokens' = IF allowed THEN filled - Cost ELSE filled
  /\ present' = TRUE
  /\ last_refill' = IF allowed THEN now ELSE last_refill
  /\ expireAt' = time + Ttl
  /\ outcome' = IF allowed THEN "allowed" ELSE "denied"
  /\ high' = MaxOf(high, now)
  /\ base' = IF opens THEN now ELSE base
  /\ granted' = (IF opens THEN 0 ELSE granted) + (IF allowed THEN 1 ELSE 0)
  /\ UNCHANGED time

(* One call of the script. With "opens" the check opens the interval over
   which admissions are counted: an interval may begin at any check. *)
BucketCheck(now, opens) ==
  LET filled == Refilled(now)
      allowed == filled >= Cost
  IN
  /\ tokens' = IF allowed THEN filled - Cost ELSE filled
  /\ present' = TRUE
  /\ last_refill' = now
  /\ expireAt' = time + Ttl
  /\ outcome' = IF allowed THEN "allowed" ELSE "denied"
  /\ high' = MaxOf(high, now)
  /\ base' = IF opens THEN now ELSE base
  /\ granted' = (IF opens THEN 0 ELSE granted) + (IF allowed THEN 1 ELSE 0)
  /\ UNCHANGED time

BucketNext == BucketTick \/ \E now \in (time - Lag)..time, opens \in BOOLEAN : BucketCheck(now, opens)

BucketSpec == BucketInit /\ [][BucketNext]_bucketVars

-----------------------------------------------------------------------------
(* No over-admission: between any check and the newest one, the limiter allows
   at most the burst and what the rate adds in that time. It holds for clock
   readings up to a second old, in any order, and although the key expires and
   comes back full: the second the script adds to the time to live is what
   makes forgetting the bucket safe. *)
AdmissionBound == granted * Cost <= Capacity + Rate * (high - base)

(* No starvation by denials: a request that comes one token's worth of time
   after the newest reading is allowed, because a denied check consumes nothing
   and a late reading only takes back what it added. *)
PauseAdmits ==
  [][\A now \in (time - Lag)..time, opens \in BOOLEAN :
       (BucketCheck(now, opens) /\ Rate * (now - high) >= Cost) => outcome' = "allowed"]_bucketVars

(* The inductive invariant: the interval's account, kept with what the bucket
   still holds while the key exists and with the time that has passed once it
   expired; and the bound on what late readings took back. *)
BucketAccount ==
  /\ present  => granted * Cost + tokens <= Capacity + Rate * (last_refill - base)
  /\ ~present => granted * Cost <= Rate * (time - Lag - base)

Debt ==
  present => /\ tokens + Rate * (high - last_refill) >= 0
             /\ last_refill <= high
             /\ high <= expireAt - Ttl
             /\ time < expireAt

BucketIInv == BucketTypeOK /\ high <= time /\ BucketAccount /\ Debt /\ AdmissionBound
=============================================================================
