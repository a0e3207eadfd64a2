-------------------------- MODULE RateLimitPolicies --------------------------
(***************************************************************************)
(* Which rate-limit policy governs a call and which Redis bucket it is      *)
(* counted in: the policies one tenant's admins edit (api/rate_limits.py),  *)
(* their resolution (limits/policies.py), the bucket key by scope           *)
(* (limits/redis_bucket.py) and its two callers, the proxy and the          *)
(* middleware of the management API. A request lists the policies first and *)
(* is counted later; admins act in between. Refill and expiry belong to     *)
(* TokenBucket and SlidingWindow: here all happens at one instant.          *)
(***************************************************************************)
EXTENDS Patterns, Sequences, FiniteSets, Functions

CONSTANTS
  Segment,    \* _sanitize_segment of an id: [ids -> key segments]
  Calls,      \* bound: the calls that clients make
  Policies,   \* the contents a policy may have; None for a null selector
  Default,    \* the policy of RATE_LIMIT_DEFAULT
  Workers     \* concurrent requests

ASSUME PoliciesAssumption ==
  /\ Calls \subseteq Subjects \X Servers \X Tools
  /\ Default \notin Policies
  /\ \A p \in Policies \cup {Default} :
       /\ p.algorithm \in {"token_bucket", "sliding_window"}
       /\ p.limit \in Nat \ {0} /\ p.priority \in Int

VARIABLES
  policies,   \* [Rows -> Policies or None]
  pending,    \* [Workers -> the call and the policy it resolved to, or None]
  buckets,    \* Redis: [used keys -> [type, n]]
  admitted    \* history: <<policy, call, n>> when the policy admitted the call n times

vars == <<policies, pending, buckets, admitted>>

Init ==
  /\ policies = [i \in Rows |-> None]
  /\ pending = [w \in Workers |-> None]
  /\ buckets = <<>>
  /\ admitted = {}

-----------------------------------------------------------------------------
(* The admin's endpoints. The algorithm and the selectors cannot be updated. *)
CreatePolicy(i, p) ==
  /\ policies[i] = None
  /\ policies' = [policies EXCEPT ![i] = p]
  /\ UNCHANGED <<pending, buckets, admitted>>

UpdatePolicy(i, p) ==
  /\ policies[i] # None
  /\ p # policies[i]
  /\ \A f \in {"id", "type", "server", "tool", "algorithm"} : p[f] = policies[i][f]
  /\ policies' = [policies EXCEPT ![i] = p]
  /\ UNCHANGED <<pending, buckets, admitted>>

DeletePolicy(i) ==
  /\ policies[i] # None
  /\ policies' = [policies EXCEPT ![i] = None]
  /\ UNCHANGED <<pending, buckets, admitted>>

-----------------------------------------------------------------------------
(* _selector_level: whatever is not one of the three subject forms is 3, a
   subject with a tool and no server included. *)
SelectorLevel(p) ==
  CASE p.id # None /\ p.server # None /\ p.tool # None -> 0
    [] p.id # None /\ p.server # None /\ p.tool = None -> 1
    [] p.id # None /\ p.server = None /\ p.tool = None -> 2
    [] OTHER -> 3

(* _policy_matches *)
PolicyMatches(p, s, server, tool) ==
  /\ p.id # None => p.id = s.id /\ p.type = s.type
  /\ p.server # None => Matches(server, p.server)
  /\ p.tool # None => Matches(tool, p.tool)

PatternWeight(pattern) == IF pattern = None THEN 0 ELSE Specificity(pattern)

\* mutant: the priority is compared before the selectors
PriorityBefore(p, q) ==
  \/ p.priority > q.priority
  \/ p.priority = q.priority /\ SelectorLevel(p) < SelectorLevel(q)

(* _rank_key: level, then priority, then specificity. *)
Before(p, q) ==
  LET weight(x) == PatternWeight(x.server) + PatternWeight(x.tool)
  IN  \/ SelectorLevel(p) < SelectorLevel(q)
      \/ /\ SelectorLevel(p) = SelectorLevel(q)
         /\ \/ p.priority > q.priority
            \/ p.priority = q.priority /\ weight(p) > weight(q)

(* resolve_policy: the sort is stable and the list comes without an ORDER BY,
   so any of the first-ranked policies may be taken. *)
Resolved(s, server, tool) ==
  LET candidates == {p \in Range(policies) \ {None} : PolicyMatches(p, s, server, tool)}
  IN  IF candidates = {} THEN {Default}
      ELSE {p \in candidates : \A q \in candidates : ~Before(q, p)}

(* The default comes with scope "tool". *)
Scope(p) == IF p = Default THEN 0 ELSE SelectorLevel(p)

\* mutant: the key of before ADR-011, one bucket per tool whatever the scope
BucketKeyPerTool(p, s, server, tool) ==
  IF Scope(p) = 3 THEN <<"global", server>> ELSE <<Segment[s.id], server, tool>>

(* RateLimiter.check: the segments after the tenant. *)
BucketKey(p, s, server, tool) ==
  CASE Scope(p) = 3 -> IF server = "management_api" THEN <<"global">> ELSE <<"global", server>>
    [] Scope(p) = 2 -> <<Segment[s.id]>>
    [] Scope(p) = 1 -> <<Segment[s.id], server>>
    [] OTHER -> <<Segment[s.id], server, tool>>

-----------------------------------------------------------------------------
(* A request lists the tenant's policies and resolves its own. *)
Resolve(w, s, server, tool) ==
  /\ pending[w] = None
  /\ \E p \in Resolved(s, server, tool) :
       pending' = [pending EXCEPT ![w] = [call |-> <<s, server, tool>>, policy |-> p]]
  /\ UNCHANGED <<policies, buckets, admitted>>

KeyOf(r) == BucketKey(r.policy, r.call[1], r.call[2], r.call[3])

BucketType(p) == IF p.algorithm = "token_bucket" THEN "hash" ELSE "zset"

(* What the policy leaves in the bucket: a hash holds tokens, at most the
   capacity of the policy that looks at it; a zset one member per admission. *)
Left(p, key) ==
  IF key \notin DOMAIN buckets THEN p.limit
  ELSE IF BucketType(p) = "zset" THEN p.limit - buckets[key].n
  ELSE IF buckets[key].n < p.limit THEN buckets[key].n ELSE p.limit

Store(p, key, left) ==
  [k \in DOMAIN buckets \cup {key} |->
     IF k # key THEN buckets[k]
     ELSE [type |-> BucketType(p), n |-> IF BucketType(p) = "hash" THEN left ELSE p.limit - left]]

Times(p, call) == Cardinality({x \in admitted : x[1] = p /\ x[2] = call})

WrongType(r) == KeyOf(r) \in DOMAIN buckets /\ buckets[KeyOf(r)].type # BucketType(r.policy)

(* The script runs on the key: admitted, the call is counted; a token bucket
   stores what is left even when it denies. *)
Check(w) ==
  LET r == pending[w]
      key == KeyOf(r)
      left == Left(r.policy, key)
      nth == Times(r.policy, r.call) + 1
  IN  /\ pending[w] # None
      /\ ~WrongType(r)
      /\ IF left >= 1
         THEN /\ buckets' = Store(r.policy, key, left - 1)
              /\ admitted' = admitted \cup {<<r.policy, r.call, nth>>}
         ELSE /\ buckets' = IF BucketType(r.policy) = "hash" THEN Store(r.policy, key, left)
                                                             ELSE buckets
              /\ UNCHANGED admitted
      /\ pending' = [pending EXCEPT ![w] = None]
      /\ UNCHANGED policies

(* The key holds the other algorithm's type: Redis answers WRONGTYPE, which the
   proxy turns into a 503 and the management API lets pass uncounted. *)
CheckFails(w) ==
  /\ pending[w] # None
  /\ WrongType(pending[w])
  /\ pending' = [pending EXCEPT ![w] = None]
  /\ UNCHANGED <<policies, buckets, admitted>>

Next ==
  \/ \E i \in Rows, p \in Policies : CreatePolicy(i, p) \/ UpdatePolicy(i, p)
  \/ \E i \in Rows : DeletePolicy(i)
  \/ \E w \in Workers, c \in Calls : Resolve(w, c[1], c[2], c[3])
  \/ \E w \in Workers : Check(w) \/ CheckFails(w)

Spec == Init /\ [][Next]_vars

-----------------------------------------------------------------------------
(* A call in progress goes by a policy that exists or the default, and a bucket is of a kind that Redis has. *)
TypeOK ==
  /\ policies \in [Rows -> Policies \cup {None}]
  /\ pending \in [Workers -> {None} \cup [call : Calls, policy : Policies \cup {Default}]]
  /\ \A k \in DOMAIN buckets : buckets[k].type \in {"hash", "zset"} /\ buckets[k].n \in Nat
  /\ admitted \subseteq (Policies \cup {Default}) \X Calls \X (Nat \ {0})

AdmittedUnder(p, calls) == Cardinality({x \in admitted : x[1] = p /\ x[2] \in calls})

(* Spreading calls does not multiply a limit: a policy for a subject admits at
   most its limit over all servers and tools together, one for a subject and a
   server at most its limit over all tools of a server, whatever the admins
   create, update and delete while calls are in flight. (And the state is well
   typed.) *)
ScopedLimit ==
  TypeOK /\ \A p \in Policies, s \in Subjects, server \in Servers :
    /\ SelectorLevel(p) = 2 => AdmittedUnder(p, {s} \X Servers \X Tools) <= p.limit
    /\ SelectorLevel(p) = 1 => AdmittedUnder(p, {s} \X {server} \X Tools) <= p.limit

(* A call that a policy of its subject (levels 0 to 2) covers is counted in a
   bucket that is named for the subject and not in one that all subjects share:
   no priority of a global policy can move it there. *)
SubjectPolicyPrevails ==
  [][\A w \in Workers, c \in Calls :
       /\ Resolve(w, c[1], c[2], c[3])
       /\ \E p \in Range(policies) \ {None} :
            SelectorLevel(p) < 3 /\ PolicyMatches(p, c[1], c[2], c[3])
       => KeyOf(pending'[w])[1] = Segment[c[1].id]]_vars

-----------------------------------------------------------------------------
(* What makes the limits inductive. The n-th admission of a call comes with n - 1
   earlier ones, so that each admission is a new element of the history. *)
Numbered == \A x \in admitted : x[3] <= Times(x[1], x[2])

KeyUsed(x) == KeyOf([policy |-> x[1], call |-> x[2]])

(* The admissions of policy p that were counted in a bucket. *)
CountedIn(p, key) == {x \in admitted : x[1] = p /\ KeyUsed(x) = key}

(* A bucket keeps account of every policy that counts in it: its tokens and a
   policy's admissions together never exceed that policy's limit, or its log
   has at least as many members as any policy admitted. *)
Account ==
  \A x \in admitted :
    LET count == Cardinality(CountedIn(x[1], KeyUsed(x)))
    IN  /\ KeyUsed(x) \in DOMAIN buckets
        /\ buckets[KeyUsed(x)].type = BucketType(x[1])
        /\ IF BucketType(x[1]) = "hash" THEN buckets[KeyUsed(x)].n + count <= x[1].limit
                                        ELSE count <= buckets[KeyUsed(x)].n /\ count <= x[1].limit

IInv == TypeOK /\ IsFiniteSet(admitted) /\ Numbered /\ Account

-----------------------------------------------------------------------------
(* ADR-011: "global limits are actually global"; RateLimiter.check: "global ->
   tenant/global (+server when the policy names one)". *)
GlobalIsGlobal ==
  \A p \in Policies : p.id = None /\ p.server = None => AdmittedUnder(p, Calls) <= p.limit

(* _selector_level: "3 - global (subject_id is null)"; ADR-011: "subject policies
   per (tenant, subject)". A policy for a subject counts in a bucket of its own. *)
SubjectPolicyNotShared ==
  \A w \in Workers :
    pending[w] # None /\ pending[w].policy.id # None => KeyOf(pending[w])[1] # "global"
=============================================================================
