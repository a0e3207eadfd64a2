----------------------------- MODULE RedisClock ------------------------------
(* What the two scripts of limits/redis_bucket.py have in common: they run on
   one key, which EXPIRE removes, with the clock reading of the replica that
   calls them, taken before the call was sent. *)
CONSTANTS Lag,     \* how old a reading may be when the script sees it
          MaxTime  \* bound: the last instant

VARIABLES
  time,      \* Redis' clock, and the replicas' clocks
  expireAt,  \* when EXPIRE removes the key
  outcome    \* what the last check returned
=============================================================================
