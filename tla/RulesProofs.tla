---------------------- MODULE RulesProofs -----------------------
(* What decides a call, for every value of the constants: the rate limit that
   applies to it (RateLimitPolicies), whether a role allows it (Permissions) and
   the two scripts that count it (SlidingWindow and TokenBucket). *)
EXTENDS RateLimitPolicies, Permissions, SlidingWindow, TokenBucket, FiniteSetTheorems,
        TLAPS

-----------------------------------------------------------------------------
(* RateLimitPolicies. *)

(* A policy limits to at least one call and is kept in one type of bucket. *)
LEMMA PolicyFacts ==
  ASSUME NEW p \in Policies \cup {Default}
  PROVE  /\ p.limit \in Nat /\ p.limit >= 1 /\ p.priority \in Int
         /\ BucketType(p) \in {"hash", "zset"}
BY PoliciesAssumption DEF PoliciesAssumption, BucketType

(* Parts of the history are finite and can be counted. *)
LEMMA PartsAreFinite ==
  ASSUME IsFiniteSet(admitted)
  PROVE  /\ \A p, call : Times(p, call) \in Nat
         /\ \A p, key : IsFiniteSet(CountedIn(p, key)) /\ Cardinality(CountedIn(p, key)) \in Nat
<1>1. \A T \in SUBSET admitted : IsFiniteSet(T) /\ Cardinality(T) \in Nat
  BY FS_Subset, FS_CardinalityType
<1> QED
  BY <1>1 DEF Times, CountedIn

(* No bucket and no admitted call satisfy the invariant. *)
LEMMA InitIInv == Init => IInv
BY FS_EmptySet DEF Init, IInv, TypeOK, Numbered, Account

(* Steps that count nothing. *)
LEMMA QuietIInv ==
  ASSUME IInv, UNCHANGED <<buckets, admitted>>, TypeOK' PROVE IInv'
BY DEF IInv, Numbered, Times, Account, CountedIn, KeyUsed, KeyOf

(* A call is resolved to a policy of the table or to the default. *)
LEMMA ResolvedExist ==
  ASSUME TypeOK, NEW s, NEW server, NEW tool, NEW p \in Resolved(s, server, tool)
  PROVE  p \in Policies \cup {Default}
BY DEF TypeOK, Resolved, Range

(* Creating and updating policies preserves the invariant: no bucket changes. *)
LEMMA AdminIInv ==
  ASSUME NEW i \in Rows, NEW p \in Policies,
         IInv, CreatePolicy(i, p) \/ UpdatePolicy(i, p)
  PROVE  IInv'
<1>1. UNCHANGED <<pending, buckets, admitted>> /\ policies' \in [Rows -> Policies \cup {None}]
  BY DEF IInv, TypeOK, CreatePolicy, UpdatePolicy
<1>2. TypeOK'
  BY <1>1 DEF IInv, TypeOK
<1> QED
  BY <1>1, <1>2, QuietIInv

(* So does resolving a call. *)
LEMMA ResolveIInv ==
  ASSUME NEW w \in Workers, NEW c \in Calls, IInv, Resolve(w, c[1], c[2], c[3]) PROVE IInv'
<1>1. PICK p \in Resolved(c[1], c[2], c[3]) :
         pending' = [pending EXCEPT ![w] = [call |-> <<c[1], c[2], c[3]>>, policy |-> p]]
  BY DEF Resolve
<1>2. p \in Policies \cup {Default}
  BY <1>1, ResolvedExist DEF IInv
<1>3. c = <<c[1], c[2], c[3]>>
  BY PoliciesAssumption DEF PoliciesAssumption
<1>4. TypeOK'
  BY <1>1, <1>2, <1>3 DEF IInv, TypeOK, Resolve
<1> QED
  BY <1>4, QuietIInv DEF Resolve

(* A check whose Redis call fails counts nothing. *)
LEMMA CheckFailsIInv ==
  ASSUME NEW w \in Workers, IInv, CheckFails(w) PROVE IInv'
<1>1. TypeOK'
  BY DEF IInv, TypeOK, CheckFails
<1> QED
  BY <1>1, QuietIInv DEF CheckFails

(* A denial: a log stays as it is, a hash keeps at most the tokens it had. *)
LEMMA DenyIInv ==
  ASSUME NEW w \in Workers, IInv, Check(w), ~(Left(pending[w].policy, KeyOf(pending[w])) >= 1)
  PROVE  IInv'
<1> DEFINE p == pending[w].policy
           key == KeyOf(pending[w])
           left == Left(p, key)
<1>1. /\ p \in Policies \cup {Default} /\ ~WrongType(pending[w])
      /\ admitted' = admitted
      /\ buckets' = IF BucketType(p) = "hash" THEN Store(p, key, left) ELSE buckets
  BY DEF Check, IInv, TypeOK
<1>2. policies' = policies /\ pending' = [pending EXCEPT ![w] = None]
  BY DEF Check
<1>3. p.limit \in Nat /\ p.limit >= 1 /\ BucketType(p) \in {"hash", "zset"}
  BY <1>1, PolicyFacts
<1>4. CASE BucketType(p) = "zset"
  <2>1. buckets' = buckets
    BY <1>1, <1>4
  <2>2. TypeOK'
    BY <1>1, <1>2, <2>1 DEF IInv, TypeOK
  <2> QED
    BY <1>1, <2>1, <2>2, QuietIInv
<1>5. CASE BucketType(p) = "hash"
  <2>1. key \in DOMAIN buckets /\ buckets[key].type = "hash" /\ buckets[key].n \in Nat
        /\ left = 0 /\ buckets[key].n = 0
    BY <1>1, <1>3, <1>5 DEF Left, WrongType, IInv, TypeOK
  <2>2. DOMAIN buckets' = DOMAIN buckets
    BY <1>1, <1>5, <2>1 DEF Store
  <2>3. \A k \in DOMAIN buckets : buckets'[k].type = buckets[k].type /\ buckets'[k].n = buckets[k].n
    BY <1>1, <1>5, <2>1 DEF Store
  <2>4. TypeOK'
    BY <1>1, <1>2, <2>2, <2>3 DEF IInv, TypeOK
  <2>5. Account'
    BY <1>1, <2>2, <2>3 DEF IInv, Account, CountedIn, KeyUsed, KeyOf
  <2> QED
    BY <1>1, <2>4, <2>5 DEF IInv, Numbered, Times
<1> QED
  BY <1>3, <1>4, <1>5

(* An admission: one more element of the history, one less left in the bucket. *)
LEMMA AdmitIInv ==
  ASSUME NEW w \in Workers, IInv, Check(w), Left(pending[w].policy, KeyOf(pending[w])) >= 1
  PROVE  IInv'
<1> DEFINE p == pending[w].policy
           c == pending[w].call
           key == KeyOf(pending[w])
           left == Left(p, key)
           n == Times(p, c) + 1
           x == <<p, c, n>>
<1>1. /\ p \in Policies \cup {Default} /\ c \in Calls
      /\ key \in DOMAIN buckets => buckets[key].type = BucketType(p)
      /\ policies' = policies /\ pending' = [pending EXCEPT ![w] = None]
      /\ admitted' = admitted \cup {x} /\ buckets' = Store(p, key, left - 1)
  BY DEF Check, IInv, TypeOK, WrongType
<1>2. p.limit \in Nat /\ p.limit >= 1 /\ BucketType(p) \in {"hash", "zset"}
  BY <1>1, PolicyFacts
<1>3. Times(p, c) \in Nat /\ n \in Nat /\ n >= 1
  BY PartsAreFinite DEF IInv
<1>4. x[1] = p /\ x[2] = c /\ x[3] = n
  OBVIOUS
<1>5. KeyUsed(x) = key
  BY DEF KeyUsed, KeyOf
<1> HIDE DEF x
<1>6. x \notin admitted
  BY <1>3, <1>4 DEF IInv, Numbered
<1>7. IsFiniteSet(admitted')
  BY <1>1, FS_AddElement DEF IInv
<1> DEFINE b == buckets'[key]
<1>8. /\ DOMAIN buckets' = DOMAIN buckets \cup {key}
      /\ \A k \in DOMAIN buckets : k # key => buckets'[k] = buckets[k]
      /\ b.type = BucketType(p)
      /\ BucketType(p) = "hash" => b.n = left - 1
      /\ BucketType(p) = "zset" => b.n = p.limit - (left - 1)
  BY <1>1, <1>2 DEF Store
<1>9. /\ left \in Int /\ left >= 1 /\ left <= p.limit
      /\ BucketType(p) = "hash" /\ key \in DOMAIN buckets => left <= buckets[key].n
      /\ BucketType(p) = "zset" /\ key \in DOMAIN buckets => left = p.limit - buckets[key].n
      /\ key \notin DOMAIN buckets => left = p.limit
      /\ key \in DOMAIN buckets => buckets[key].n \in Nat
  BY <1>1, <1>2 DEF Left, IInv, TypeOK
<1>10. TypeOK'
  <2>1. x \in (Policies \cup {Default}) \X Calls \X (Nat \ {0})
    BY <1>1, <1>3 DEF x
  <2>2. b.n \in Nat
    BY <1>2, <1>8, <1>9
  <2> QED
    BY <1>1, <1>2, <1>8, <2>1, <2>2 DEF IInv, TypeOK
<1>11. Numbered'
  <2>1. ASSUME NEW y \in admitted' PROVE y[3] <= Times(y[1], y[2])'
    <3> DEFINE T == {z \in admitted : z[1] = y[1] /\ z[2] = y[2]}
               U == {z \in admitted' : z[1] = y[1] /\ z[2] = y[2]}
    <3>1. Times(y[1], y[2]) = Cardinality(T) /\ Times(y[1], y[2])' = Cardinality(U)
      BY DEF Times
    <3>2. IsFiniteSet(T) /\ Cardinality(T) \in Nat
      BY FS_Subset, FS_CardinalityType DEF IInv
    <3>3. CASE y[1] = p /\ y[2] = c
      <4>1. U = T \cup {x} /\ x \notin T
        BY <1>1, <1>4, <1>6, <3>3
      <4>2. Cardinality(U) = Cardinality(T) + 1
        BY <3>2, <4>1, FS_AddElement
      <4>3. y = x \/ y \in admitted
        BY <1>1, <2>1
      <4>4. CASE y = x
        <5>1. Cardinality(T) = Times(p, c)
          BY <3>1, <3>3
        <5> HIDE DEF T, U
        <5> QED
          BY <1>3, <1>4, <3>1, <4>2, <4>4, <5>1
      <4>5. CASE y \in admitted
        <5>1. y[3] \in Nat /\ y[3] <= Cardinality(T)
          BY <3>1, <4>5 DEF IInv, Numbered, TypeOK
        <5> QED
          BY <3>1, <3>2, <4>2, <5>1
      <4> QED
        BY <4>3, <4>4, <4>5
    <3>4. CASE ~(y[1] = p /\ y[2] = c)
      <4>1. U = T /\ y \in admitted
        BY <1>1, <1>4, <2>1, <3>4
      <4> QED
        BY <3>1, <4>1 DEF IInv, Numbered
    <3> QED
      BY <3>3, <3>4
  <2> QED
    BY <2>1 DEF Numbered
<1>12. Account'
  <2> SUFFICES ASSUME NEW y \in admitted'
               PROVE  /\ KeyUsed(y) \in DOMAIN buckets'
                      /\ buckets'[KeyUsed(y)].type = BucketType(y[1])
                      /\ IF BucketType(y[1]) = "hash"
                         THEN buckets'[KeyUsed(y)].n + Cardinality(CountedIn(y[1], KeyUsed(y))')
                                <= y[1].limit
                         ELSE /\ Cardinality(CountedIn(y[1], KeyUsed(y))') <= buckets'[KeyUsed(y)].n
                              /\ Cardinality(CountedIn(y[1], KeyUsed(y))') <= y[1].limit
    BY DEF Account, CountedIn, KeyUsed, KeyOf
  <2> DEFINE k == KeyUsed(y)
             T == CountedIn(y[1], k)
             U == {z \in admitted' : z[1] = y[1] /\ KeyUsed(z) = k}
  <2>1. CountedIn(y[1], k)' = U
    BY DEF CountedIn, KeyUsed, KeyOf
  <2>2. IsFiniteSet(T) /\ Cardinality(T) \in Nat
    BY PartsAreFinite DEF IInv
  <2>3. y[1] \in Policies \cup {Default} /\ (y \in admitted \/ y = x)
    BY <1>1, <1>4 DEF IInv, TypeOK
  <2>4. y[1].limit \in Nat /\ BucketType(y[1]) \in {"hash", "zset"}
    BY <2>3, PolicyFacts
  <2>5. \/ T = {} /\ Cardinality(T) = 0
        \/ /\ k \in DOMAIN buckets
           /\ buckets[k].n \in Nat
           /\ buckets[k].type = BucketType(y[1])
           /\ BucketType(y[1]) = "hash" => buckets[k].n + Cardinality(T) <= y[1].limit
           /\ BucketType(y[1]) = "zset" => Cardinality(T) <= buckets[k].n /\ Cardinality(T) <= y[1].limit
    <3>1. CASE T = {}
      BY <3>1, FS_EmptySet
    <3>2. CASE T # {}
      <4>1. PICK z \in admitted : z[1] = y[1] /\ KeyUsed(z) = k
        BY <3>2 DEF CountedIn
      <4>2. /\ KeyUsed(z) \in DOMAIN buckets
            /\ buckets[KeyUsed(z)].type = BucketType(z[1])
            /\ IF BucketType(z[1]) = "hash"
               THEN buckets[KeyUsed(z)].n + Cardinality(CountedIn(z[1], KeyUsed(z))) <= z[1].limit
               ELSE /\ Cardinality(CountedIn(z[1], KeyUsed(z))) <= buckets[KeyUsed(z)].n
                    /\ Cardinality(CountedIn(z[1], KeyUsed(z))) <= z[1].limit
        BY DEF IInv, Account
      <4>3. buckets[KeyUsed(z)].n \in Nat
        BY <4>2 DEF IInv, TypeOK
      <4> HIDE DEF k, T
      <4> QED
        BY <4>1, <4>2, <4>3 DEF T
    <3> QED
      BY <3>1, <3>2
  <2>6. CASE y[1] = p /\ k = key
    <3>1. U = T \cup {x} /\ x \notin T
      BY <1>1, <1>4, <1>5, <1>6, <2>6 DEF CountedIn
    <3>2. Cardinality(U) = Cardinality(T) + 1
      BY <2>2, <3>1, FS_AddElement
    <3> HIDE DEF T, U, k, b, left, key, p
    <3> QED
      BY <1>2, <1>8, <1>9, <2>1, <2>2, <2>4, <2>5, <2>6, <3>2 DEF b, k
  <2>7. CASE ~(y[1] = p /\ k = key)
    <3>1. U = T /\ T # {}
      BY <1>1, <1>4, <1>5, <2>3, <2>7 DEF CountedIn
    <3>2. CASE k # key
      BY <1>8, <2>1, <2>4, <2>5, <3>1, <3>2
    <3>3. CASE k = key
      <4>1. k \in DOMAIN buckets /\ buckets[k].type = BucketType(p) /\ BucketType(y[1]) = BucketType(p)
        BY <1>1, <2>5, <3>1, <3>3
      <4>2. BucketType(p) = "hash" => b.n \in Int /\ b.n <= buckets[k].n
        BY <1>8, <1>9, <3>3, <4>1
      <4>3. BucketType(p) = "zset" => b.n = buckets[k].n + 1
        BY <1>2, <1>8, <1>9, <3>3, <4>1
      <4> HIDE DEF T, U, k, b, left, key, p
      <4> QED
        BY <1>2, <1>8, <2>1, <2>2, <2>4, <2>5, <3>1, <3>3, <4>1, <4>2, <4>3 DEF b, k
    <3> QED
      BY <3>2, <3>3
  <2> QED
    BY <2>6, <2>7
<1> QED
  BY <1>7, <1>10, <1>11, <1>12 DEF IInv

(* Every step preserves the account of what each bucket counted. *)
THEOREM InductiveInvariant == Spec => []IInv
<1>1. IInv /\ [Next]_vars => IInv'
  <2> SUFFICES ASSUME IInv, [Next]_vars PROVE IInv'
    OBVIOUS
  <2>1. CASE \E i \in Rows, p \in Policies : CreatePolicy(i, p) \/ UpdatePolicy(i, p)
    BY <2>1, AdminIInv
  <2>2. CASE \E i \in Rows : DeletePolicy(i)
    <3>1. PICK i \in Rows : DeletePolicy(i)
      BY <2>2
    <3>2. TypeOK' /\ UNCHANGED <<buckets, admitted>>
      BY <3>1 DEF DeletePolicy, IInv, TypeOK
    <3> QED
      BY <3>2, QuietIInv
  <2>3. CASE \E w \in Workers, c \in Calls : Resolve(w, c[1], c[2], c[3])
    BY <2>3, ResolveIInv
  <2>4. CASE \E w \in Workers : Check(w)
    BY <2>4, AdmitIInv, DenyIInv
  <2>5. CASE \E w \in Workers : CheckFails(w)
    BY <2>5, CheckFailsIInv
  <2>6. CASE UNCHANGED vars
    BY <2>6, QuietIInv DEF vars, IInv, TypeOK
  <2> QED
    BY <2>1, <2>2, <2>3, <2>4, <2>5, <2>6 DEF Next
<1> QED
  BY <1>1, InitIInv, PTL DEF Spec

(* Policies, calls in progress and buckets keep their types. *)
THEOREM TypeCorrect == Spec => []TypeOK
BY InductiveInvariant, PTL DEF IInv

(* The keys of the two scopes that a limit is stated for. *)
LEMMA ScopedKeys ==
  ASSUME NEW p \in Policies, NEW x, x[1] = p
  PROVE  /\ SelectorLevel(p) = 2 => KeyUsed(x) = <<Segment[x[2][1].id]>>
         /\ SelectorLevel(p) = 1 => KeyUsed(x) = <<Segment[x[2][1].id], x[2][2]>>
<1>1. p # Default
  BY PoliciesAssumption DEF PoliciesAssumption
<1>2. Scope(p) = SelectorLevel(p)
  BY <1>1 DEF Scope
<1>3. KeyUsed(x) = BucketKey(p, x[2][1], x[2][2], x[2][3])
  BY DEF KeyUsed, KeyOf
<1>4. 1 # 2 /\ 1 # 3 /\ 2 # 3
  OBVIOUS
<1> QED
  BY <1>2, <1>3, <1>4, Zenon DEF BucketKey

(* Spreading calls over servers and tools does not multiply a limit, for any set of
   policies and calls and whatever admins do while calls are in flight. *)
THEOREM LimitsAreScoped == Spec => []ScopedLimit
<1>1. IInv => ScopedLimit
  <2> SUFFICES ASSUME IInv, NEW p \in Policies, NEW s \in Subjects, NEW server \in Servers
               PROVE  /\ SelectorLevel(p) = 2 => AdmittedUnder(p, {s} \X Servers \X Tools) <= p.limit
                      /\ SelectorLevel(p) = 1 => AdmittedUnder(p, {s} \X {server} \X Tools) <= p.limit
    BY DEF ScopedLimit, IInv
  <2>1. p.limit \in Nat /\ BucketType(p) \in {"hash", "zset"}
    BY PolicyFacts
  <2>2. ASSUME NEW calls, NEW key,
               \A x \in admitted : x[1] = p /\ x[2] \in calls => KeyUsed(x) = key
        PROVE  AdmittedUnder(p, calls) <= p.limit
    <3> DEFINE A == {x \in admitted : x[1] = p /\ x[2] \in calls}
               T == CountedIn(p, key)
    <3>1. A \in SUBSET T /\ AdmittedUnder(p, calls) = Cardinality(A)
      BY <2>2 DEF CountedIn, AdmittedUnder
    <3>2. IsFiniteSet(T) /\ Cardinality(T) \in Nat
      BY PartsAreFinite DEF IInv
    <3>3. Cardinality(A) \in Nat /\ Cardinality(A) <= Cardinality(T)
      BY <3>1, <3>2, FS_Subset, FS_CardinalityType
    <3>4. Cardinality(T) <= p.limit
      <4>1. CASE T = {}
        BY <2>1, <4>1, FS_EmptySet
      <4>2. CASE T # {}
        <5>1. PICK x \in admitted : x[1] = p /\ KeyUsed(x) = key
          BY <4>2 DEF CountedIn
        <5>2. buckets[key].n \in Nat
          BY <5>1 DEF IInv, Account, TypeOK
        <5> HIDE DEF T
        <5> QED
          BY <2>1, <3>2, <5>1, <5>2 DEF T, IInv, Account
      <4> QED
        BY <4>1, <4>2
    <3> QED
      BY <2>1, <3>1, <3>2, <3>3, <3>4
  <2>3. ASSUME SelectorLevel(p) = 2
        PROVE  AdmittedUnder(p, {s} \X Servers \X Tools) <= p.limit
    <3>1. \A x \in admitted : x[1] = p /\ x[2] \in {s} \X Servers \X Tools =>
             KeyUsed(x) = <<Segment[s.id]>>
      BY <2>3, ScopedKeys
    <3> QED
      BY <3>1, <2>2
  <2>4. ASSUME SelectorLevel(p) = 1
        PROVE  AdmittedUnder(p, {s} \X {server} \X Tools) <= p.limit
    <3>1. \A x \in admitted : x[1] = p /\ x[2] \in {s} \X {server} \X Tools =>
             KeyUsed(x) = <<Segment[s.id], server>>
      BY <2>4, ScopedKeys
    <3> QED
      BY <3>1, <2>2
  <2> QED
    BY <2>3, <2>4
<1> QED
  BY <1>1, InductiveInvariant, PTL

(* The level of a selector is one of four numbers. *)
LEMMA LevelType == \A p : SelectorLevel(p) \in 0 .. 3
<1>1. \A p : SelectorLevel(p) = 0 \/ SelectorLevel(p) = 1 \/ SelectorLevel(p) = 2 \/ SelectorLevel(p) = 3
  BY Zenon DEF SelectorLevel
<1> QED
  BY <1>1

(* The subject's own policy prevails over any global one. *)
THEOREM SubjectsPrevail == Spec => SubjectPolicyPrevails
<1> DEFINE A == \A w \in Workers, c \in Calls :
       /\ Resolve(w, c[1], c[2], c[3])
       /\ \E p \in Range(policies) \ {None} :
            SelectorLevel(p) < 3 /\ PolicyMatches(p, c[1], c[2], c[3])
       => KeyOf(pending'[w])[1] = Segment[c[1].id]
<1>1. IInv => A
  <2> SUFFICES ASSUME IInv, NEW w \in Workers, NEW c \in Calls, Resolve(w, c[1], c[2], c[3]),
                      NEW p \in Range(policies) \ {None},
                      SelectorLevel(p) < 3, PolicyMatches(p, c[1], c[2], c[3])
               PROVE  KeyOf(pending'[w])[1] = Segment[c[1].id]
    OBVIOUS
  <2>1. PICK q \in Resolved(c[1], c[2], c[3]) :
           pending' = [pending EXCEPT ![w] = [call |-> <<c[1], c[2], c[3]>>, policy |-> q]]
    BY DEF Resolve
  <2>2. q \in Range(policies) \ {None} /\ ~Before(p, q)
    BY <2>1 DEF Resolved
  <2>3. SelectorLevel(q) < 3
    BY <2>2, LevelType DEF Before
  <2>4. q # Default
    BY <2>2, PoliciesAssumption DEF PoliciesAssumption, IInv, TypeOK, Range
  <2>5. Scope(q) \in 0 .. 2
    BY <2>3, <2>4, LevelType DEF Scope
  <2>6. KeyOf(pending'[w]) = BucketKey(q, c[1], c[2], c[3])
    BY <2>1 DEF KeyOf, IInv, TypeOK
  <2>7. Scope(q) # 3 /\ (Scope(q) = 2 \/ Scope(q) = 1 \/ Scope(q) = 0)
    BY <2>5
  <2>8. \/ BucketKey(q, c[1], c[2], c[3]) = <<Segment[c[1].id]>>
        \/ BucketKey(q, c[1], c[2], c[3]) = <<Segment[c[1].id], c[2]>>
        \/ BucketKey(q, c[1], c[2], c[3]) = <<Segment[c[1].id], c[2], c[3]>>
    <3>1. 0 # 1 /\ 0 # 2 /\ 0 # 3 /\ 1 # 2 /\ 1 # 3 /\ 2 # 3
      OBVIOUS
    <3>2. Scope(q) = 2 => BucketKey(q, c[1], c[2], c[3]) = <<Segment[c[1].id]>>
      BY <3>1, Zenon DEF BucketKey
    <3>3. Scope(q) = 1 => BucketKey(q, c[1], c[2], c[3]) = <<Segment[c[1].id], c[2]>>
      BY <3>1, Zenon DEF BucketKey
    <3>4. Scope(q) = 0 => BucketKey(q, c[1], c[2], c[3]) = <<Segment[c[1].id], c[2], c[3]>>
      BY <3>1, Zenon DEF BucketKey
    <3> QED
      BY <2>7, <3>2, <3>3, <3>4
  <2> QED
    BY <2>6, <2>8
<1>2. IInv /\ [Next]_vars => [A]_vars
  BY <1>1
<1> QED
  BY <1>2, InductiveInvariant, PTL DEF Spec, SubjectPolicyPrevails

-----------------------------------------------------------------------------
(* Permissions. *)

(* Rules are ranked by integers: RanksAbove of _rank_key is transitive. *)
LEMMA RanksTransitive ==
  ASSUME NEW a \in Rules, NEW b \in Rules, NEW c \in Rules,
         RanksAbove(a, b), RanksAbove(b, c)
  PROVE  RanksAbove(a, c)
  BY PermissionsAssumption
  DEF PermissionsAssumption, RanksAbove, RuleSpecificity, Specificity

(* evaluate_permission with one more deny rule allows no more. *)
LEMMA DenyLowers ==
  ASSUME NEW R \in SUBSET Rules, NEW d \in Rules, d.effect = "deny",
         NEW server, NEW tool,
         EvaluatePermission(R \cup {d}, server, tool)
  PROVE  EvaluatePermission(R, server, tool)
<1> DEFINE M == Matching(R, server, tool)
           N == Matching(R \cup {d}, server, tool)
<1>1. /\ M \subseteq N /\ N \subseteq M \cup {d} /\ M \subseteq Rules
  BY DEF Matching
<1>2. N # {} /\ \A r \in TopSet(N) : r.effect = "allow"
  BY DEF EvaluatePermission
<1>3. d \notin TopSet(N)
  BY <1>2
<1>4. CASE d \notin N
  BY <1>1, <1>2, <1>4, N = M DEF EvaluatePermission
<1>5. CASE d \in N
  <2>1. PICK b \in N : RanksAbove(b, d)
    BY <1>3, <1>5 DEF TopSet
  <2>2. ~RanksAbove(d, d)
    BY PermissionsAssumption
    DEF PermissionsAssumption, RanksAbove, RuleSpecificity, Specificity
  <2>3. b \in M
    BY <1>1, <2>1, <2>2
  <2>4. ASSUME NEW r \in TopSet(M) PROVE r \in TopSet(N)
    <3>1. r \in M /\ \A q \in M : ~RanksAbove(q, r)
      BY <2>4 DEF TopSet
    <3>2. ~RanksAbove(d, r)
      BY <1>1, <2>1, <2>3, <3>1, RanksTransitive
    <3> QED
      BY <1>1, <3>1, <3>2 DEF TopSet
  <2> QED
    BY <1>2, <2>3, <2>4 DEF EvaluatePermission
<1> QED
  BY <1>4, <1>5

(* evaluate_permission with one more allow rule denies no more. *)
LEMMA AllowRaises ==
  ASSUME NEW R \in SUBSET Rules, NEW a \in Rules, a.effect = "allow",
         NEW server, NEW tool,
         EvaluatePermission(R, server, tool)
  PROVE  EvaluatePermission(R \cup {a}, server, tool)
<1> DEFINE M == Matching(R, server, tool)
           N == Matching(R \cup {a}, server, tool)
<1>1. /\ M \subseteq N /\ N \subseteq M \cup {a}
  BY DEF Matching
<1>2. M # {} /\ \A r \in TopSet(M) : r.effect = "allow"
  BY DEF EvaluatePermission
<1>3. ASSUME NEW r \in TopSet(N) PROVE r.effect = "allow"
  <2>1. CASE r = a
    BY <2>1
  <2>2. CASE r # a
    BY <1>1, <1>2, <1>3, <2>2 DEF TopSet
  <2> QED
    BY <2>1, <2>2
<1> QED
  BY <1>1, <1>2, <1>3 DEF EvaluatePermission

-----------------------------------------------------------------------------
(* The tables stay well formed: bindings and rules belong to existing roles. *)
THEOREM RbacTypeCorrect ==
  RbacSpec => []RbacTypeOK
<1>1. RbacInit => RbacTypeOK
  BY DEF RbacInit, RbacTypeOK
<1>2. RbacTypeOK /\ [RbacNext]_rbacVars => RbacTypeOK'
  <2> SUFFICES ASSUME RbacTypeOK, [RbacNext]_rbacVars PROVE RbacTypeOK'
    OBVIOUS
  <2> USE PermissionsAssumption DEF PermissionsAssumption, RbacTypeOK, Row
  <2>1. ASSUME NEW t \in Tenants, NEW r \in Roles, CreateRole(t, r) PROVE RbacTypeOK'
    BY <2>1 DEF CreateRole
  <2>2. ASSUME NEW t \in Tenants, NEW r \in Roles, NEW s \in Subjects,
               CreateBinding(t, r, s) PROVE RbacTypeOK'
    BY <2>2 DEF CreateBinding
  <2>3. ASSUME NEW t \in Tenants, NEW r \in Roles, NEW s \in Subjects,
               DeleteBinding(t, r, s) PROVE RbacTypeOK'
    BY <2>3 DEF DeleteBinding
  <2>4. ASSUME NEW t \in Tenants, NEW r \in Roles, NEW i \in Rows, NEW rule \in Rules,
               CreatePermission(t, r, i, rule) PROVE RbacTypeOK'
    BY <2>4 DEF CreatePermission
  <2>5. ASSUME NEW t \in Tenants, NEW i \in Rows, DeletePermission(t, i) PROVE RbacTypeOK'
    BY <2>5 DEF DeletePermission
  <2>6. CASE UNCHANGED rbacVars
    BY <2>6 DEF rbacVars
  <2> QED
    BY <2>1, <2>2, <2>3, <2>4, <2>5, <2>6 DEF RbacNext, Admin
<1> QED
  BY <1>1, <1>2, PTL DEF RbacSpec

-----------------------------------------------------------------------------
(* A new rule joins the rules of some subjects and leaves the others' alone. *)
LEMMA CreateAddsRule ==
  ASSUME RbacTypeOK, NEW t \in Tenants, NEW r \in Roles, NEW i \in Rows, NEW rule \in Rules,
         CreatePermission(t, r, i, rule),
         NEW u \in Tenants, NEW s \in Subjects
  PROVE  /\ PermissionsFor(u, s) \in SUBSET Rules
         /\ \/ PermissionsFor(u, s)' = PermissionsFor(u, s)
            \/ PermissionsFor(u, s)' = PermissionsFor(u, s) \cup {rule}
<1> DEFINE J == {j \in Rows : /\ permissions[j] # None
                              /\ owner[permissions[j].role] = u
                              /\ <<permissions[j].role, s>> \in bindings}
<1>0. PermissionsFor(u, s) \in SUBSET Rules
  BY DEF RbacTypeOK, Row, PermissionsFor
<1>1. /\ permissions[i] = None
      /\ permissions' = [permissions EXCEPT ![i] = [role |-> r, rule |-> rule]]
      /\ owner' = owner /\ bindings' = bindings
  BY DEF CreatePermission
<1>2. \A j \in Rows \ {i} : permissions'[j] = permissions[j]
  BY <1>1 DEF RbacTypeOK
<1>3. permissions'[i] = [role |-> r, rule |-> rule]
  BY <1>1 DEF RbacTypeOK
<1>4. i \notin J
  BY <1>1
<1>5. J' = J \/ J' = J \cup {i}
  BY <1>1, <1>2, <1>4
<1>6. PermissionsFor(u, s) = {permissions[j].rule : j \in J}
  BY DEF PermissionsFor
<1>7. PermissionsFor(u, s)' = {permissions'[j].rule : j \in J'}
  BY DEF PermissionsFor
<1>8. permissions'[i].rule = rule
  BY <1>3
<1> HIDE DEF J
<1>9. J \subseteq Rows
  BY DEF J
<1> QED
  BY <1>0, <1>2, <1>4, <1>5, <1>6, <1>7, <1>8, <1>9

(* Adding a deny rule through create_permission allows no call that was denied. *)
THEOREM DenyOnlyTakes ==
  RbacSpec => DenyNeverGrants
<1>1. RbacTypeOK /\ [RbacNext]_rbacVars => [Creates("deny") => Allowed' \subseteq Allowed]_rbacVars
  <2> SUFFICES ASSUME RbacTypeOK, Creates("deny") PROVE Allowed' \subseteq Allowed
    OBVIOUS
  <2>1. PICK t \in Tenants, r \in Roles, i \in Rows, rule \in Rules :
          rule.effect = "deny" /\ CreatePermission(t, r, i, rule)
    BY DEF Creates
  <2> SUFFICES ASSUME NEW q \in Tenants \X Subjects \X Servers \X Tools,
                      EvaluatePermission(PermissionsFor(q[1], q[2])', q[3], q[4])
               PROVE  EvaluatePermission(PermissionsFor(q[1], q[2]), q[3], q[4])
    BY DEF Allowed, EvaluatePermission, Matching, Matches, TopSet, RanksAbove,
           RuleSpecificity, Specificity
  <2> DEFINE R == PermissionsFor(q[1], q[2])
  <2>2. q[1] \in Tenants /\ q[2] \in Subjects
    OBVIOUS
  <2>3. R \in SUBSET Rules /\ (R' = R \/ R' = R \cup {rule})
    BY <2>1, <2>2, CreateAddsRule
  <2> HIDE DEF R
  <2>4. CASE R' = R
    BY <2>4 DEF R
  <2>5. CASE R' = R \cup {rule}
    BY <2>1, <2>3, <2>5, DenyLowers DEF R
  <2> QED
    BY <2>3, <2>4, <2>5
<1> QED
  BY <1>1, RbacTypeCorrect, PTL DEF RbacSpec, DenyNeverGrants

(* Adding an allow rule through create_permission denies no call that was
   allowed. *)
THEOREM AllowOnlyGives ==
  RbacSpec => AllowNeverRevokes
<1>1. RbacTypeOK /\ [RbacNext]_rbacVars => [Creates("allow") => Allowed \subseteq Allowed']_rbacVars
  <2> SUFFICES ASSUME RbacTypeOK, Creates("allow") PROVE Allowed \subseteq Allowed'
    OBVIOUS
  <2>1. PICK t \in Tenants, r \in Roles, i \in Rows, rule \in Rules :
          rule.effect = "allow" /\ CreatePermission(t, r, i, rule)
    BY DEF Creates
  <2> SUFFICES ASSUME NEW q \in Tenants \X Subjects \X Servers \X Tools,
                      EvaluatePermission(PermissionsFor(q[1], q[2]), q[3], q[4])
               PROVE  EvaluatePermission(PermissionsFor(q[1], q[2])', q[3], q[4])
    BY DEF Allowed, EvaluatePermission, Matching, Matches, TopSet, RanksAbove,
           RuleSpecificity, Specificity
  <2> DEFINE R == PermissionsFor(q[1], q[2])
  <2>2. q[1] \in Tenants /\ q[2] \in Subjects
    OBVIOUS
  <2>3. R \in SUBSET Rules /\ (R' = R \/ R' = R \cup {rule})
    BY <2>1, <2>2, CreateAddsRule
  <2> HIDE DEF R
  <2>4. CASE R' = R
    BY <2>4 DEF R
  <2>5. CASE R' = R \cup {rule}
    BY <2>1, <2>3, <2>5, AllowRaises DEF R
  <2> QED
    BY <2>3, <2>4, <2>5
<1> QED
  BY <1>1, RbacTypeCorrect, PTL DEF RbacSpec, AllowNeverRevokes

(* A rule moves the decisions in one direction only, that of its effect. *)
THEOREM RulesOnlyAddUp ==
  RbacSpec => RulesAreMonotone
<1>1. /\ [Creates("deny") => Allowed' \subseteq Allowed]_rbacVars
      /\ [Creates("allow") => Allowed \subseteq Allowed']_rbacVars
      => [/\ Creates("deny") => Allowed' \subseteq Allowed
          /\ Creates("allow") => Allowed \subseteq Allowed']_rbacVars
  OBVIOUS
<1> QED
  BY <1>1, DenyOnlyTakes, AllowOnlyGives, PTL DEF RulesAreMonotone, DenyNeverGrants, AllowNeverRevokes

-----------------------------------------------------------------------------
(* An admin's step leaves the rules that apply in another tenant as they are. *)
LEMMA OtherTenantsRules ==
  ASSUME RbacTypeOK, NEW t \in Tenants, Admin(t), NEW u \in Tenants \ {t}, NEW s \in Subjects
  PROVE  PermissionsFor(u, s)' = PermissionsFor(u, s)
<1> DEFINE J == {j \in Rows : /\ permissions[j] # None
                              /\ owner[permissions[j].role] = u
                              /\ <<permissions[j].role, s>> \in bindings}
<1>1. J' = J /\ \A j \in J : permissions'[j] = permissions[j]
  <2> USE PermissionsAssumption DEF PermissionsAssumption, RbacTypeOK, Row
  <2>1. ASSUME NEW r \in Roles, CreateRole(t, r)
        PROVE  J' = J /\ \A j \in J : permissions'[j] = permissions[j]
    BY <2>1 DEF CreateRole
  <2>2. ASSUME NEW r \in Roles, NEW x \in Subjects,
               CreateBinding(t, r, x) \/ DeleteBinding(t, r, x)
        PROVE  J' = J /\ \A j \in J : permissions'[j] = permissions[j]
    BY <2>2 DEF CreateBinding, DeleteBinding
  <2>3. ASSUME NEW r \in Roles, NEW i \in Rows, NEW rule \in Rules,
               CreatePermission(t, r, i, rule)
        PROVE  J' = J /\ \A j \in J : permissions'[j] = permissions[j]
    BY <2>3 DEF CreatePermission
  <2>4. ASSUME NEW i \in Rows, DeletePermission(t, i)
        PROVE  J' = J /\ \A j \in J : permissions'[j] = permissions[j]
    BY <2>4 DEF DeletePermission
  <2> QED
    BY <2>1, <2>2, <2>3, <2>4 DEF Admin
<1>2. PermissionsFor(u, s) = {permissions[j].rule : j \in J}
  BY DEF PermissionsFor
<1>3. PermissionsFor(u, s)' = {permissions'[j].rule : j \in J'}
  BY DEF PermissionsFor
<1> HIDE DEF J
<1> QED
  BY <1>1, <1>2, <1>3

(* What the admins of a tenant do changes no decision in another tenant: the
   role endpoints look roles up by tenant and get_permissions_for_subject joins
   on the tenant of the role. *)
THEOREM TenantsAreIsolated ==
  RbacSpec => TenantIsolation
<1>1. ASSUME RbacTypeOK, NEW t \in Tenants, Admin(t),
             NEW q \in (Tenants \ {t}) \X Subjects \X Servers \X Tools
      PROVE  (q \in Allowed) = (q \in Allowed')
  <2>1. PermissionsFor(q[1], q[2])' = PermissionsFor(q[1], q[2])
    BY <1>1, OtherTenantsRules
  <2> QED
    BY <2>1 DEF Allowed, EvaluatePermission, Matching, Matches, TopSet, RanksAbove,
                RuleSpecificity, Specificity
<1>2. RbacTypeOK /\ [RbacNext]_rbacVars =>
        [\A t \in Tenants : Admin(t) =>
           \A q \in (Tenants \ {t}) \X Subjects \X Servers \X Tools :
             (q \in Allowed) = (q \in Allowed')]_rbacVars
  BY <1>1
<1> QED
  BY <1>2, RbacTypeCorrect, PTL DEF RbacSpec, TenantIsolation

-----------------------------------------------------------------------------
(* SlidingWindow. *)

(* The empty log satisfies the invariant. *)
LEMMA SlidingInitIInv ==
  WindowInit => WindowIInv
<1> SUFFICES ASSUME WindowInit PROVE WindowIInv
  OBVIOUS
<1>1. WindowTypeOK
  BY WindowAssumption DEF WindowAssumption, WindowInit, WindowTypeOK
<1>2. LogBounded
  BY FS_EmptySet, WindowAssumption DEF WindowAssumption, WindowInit, LogBounded
<1> QED
  BY <1>1, <1>2 DEF WindowInit, WindowIInv, RecentIsLogged, Recent, ExpiresLate, PromiseKept

(* The clock moving, and the key expiring with it, preserves the invariant. *)
LEMMA SlidingTickIInv ==
  WindowIInv /\ WindowTick => WindowIInv'
<1> SUFFICES ASSUME WindowIInv, WindowTick PROVE WindowIInv'
  OBVIOUS
<1>0. /\ Limit \in Nat \ {0} /\ Window \in Nat /\ Lag \in Nat /\ MaxTime \in Nat
      /\ time \in Int /\ time' = time + 1 /\ expireAt \in Int
      /\ UNCHANGED <<expireAt, retryAt, outcome, passed, total>>
  BY WindowAssumption DEF WindowAssumption, WindowIInv, WindowTypeOK, WindowTick
<1>1. WindowTypeOK'
  <2>0. time' \in 0..MaxTime
    BY <1>0 DEF WindowIInv, WindowTypeOK, WindowTick
  <2>1. log' \subseteq (0 - Lag)..MaxTime
    <3>1. log' \subseteq log
      BY DEF WindowTick
    <3> QED
      BY <3>1 DEF WindowIInv, WindowTypeOK
  <2>2. \A a \in passed' : a.at \in 0..time' /\ a.now \in (a.at - Lag)..a.at
    BY <1>0 DEF WindowIInv, WindowTypeOK
  <2> QED
    BY <1>0, <2>0, <2>1, <2>2 DEF WindowIInv, WindowTypeOK
<1>2. LogBounded'
  BY <1>0, FS_EmptySet DEF WindowIInv, LogBounded, WindowTick
<1>3. ExpiresLate'
  BY <1>0 DEF WindowIInv, ExpiresLate
<1>4. RecentIsLogged'
  <2> SUFFICES ASSUME NEW a \in passed, a.at > time' - (Window - Lag)
               PROVE  a.now \in log'
    BY <1>0 DEF RecentIsLogged, Recent
  <2>1. a.at \in Int /\ a.at <= expireAt - Window
    BY <1>0 DEF WindowIInv, WindowTypeOK, ExpiresLate
  <2>2. a \in Recent
    BY <1>0, <2>1 DEF Recent
  <2>3. ~(time' >= expireAt)
    BY <1>0, <2>1
  <2> QED
    BY <2>2, <2>3 DEF WindowTick, WindowIInv, RecentIsLogged
<1>5. PromiseKept'
  <2>1. CASE log' = {}
    BY <1>0, <2>1, FS_EmptySet DEF PromiseKept
  <2>2. CASE log' = log
    BY <1>0, <2>2 DEF WindowIInv, PromiseKept
  <2> QED
    BY <2>1, <2>2 DEF WindowTick
<1> QED
  BY <1>1, <1>2, <1>3, <1>4, <1>5 DEF WindowIInv

(* What zremrangebyscore leaves is a finite part of the log. *)
LEMMA KeptFinite ==
  ASSUME WindowIInv, NEW now
  PROVE  /\ IsFiniteSet(Kept(now)) /\ Kept(now) \in SUBSET log
         /\ Cardinality(Kept(now)) \in Nat /\ Cardinality(Kept(now)) <= Cardinality(log)
         /\ Cardinality(log) \in Nat
         /\ Cardinality(Kept(now)) = Cardinality(log) => Kept(now) = log
BY FS_Subset, FS_CardinalityType DEF Kept, WindowIInv, LogBounded

(* Pruning by a reading that is not newer than Redis' clock keeps everything
   that is recent. *)
LEMMA RecentIsKept ==
  ASSUME WindowIInv, NEW now \in (time - Lag)..time, NEW a \in Recent PROVE a.now \in Kept(now)
<1>1. /\ Window \in Nat /\ Lag \in Nat /\ time \in Int /\ now \in Int /\ now <= time
  BY WindowAssumption DEF WindowAssumption, WindowIInv, WindowTypeOK
<1>2. /\ a.now \in log /\ a \in passed /\ a.at > time - (Window - Lag)
  BY DEF WindowIInv, RecentIsLogged, Recent
<1>3. a.at \in Int /\ a.now \in Int /\ a.now >= a.at - Lag
  BY <1>1, <1>2 DEF WindowIInv, WindowTypeOK
<1> QED
  BY <1>1, <1>2, <1>3 DEF Kept

(* An passed check preserves the invariant. *)
LEMMA SlidingAllowIInv ==
  ASSUME NEW now \in (time - Lag)..time PROVE WindowIInv /\ Allow(now) => WindowIInv'
<1> SUFFICES ASSUME WindowIInv, Allow(now) PROVE WindowIInv'
  OBVIOUS
<1> DEFINE n == [now |-> now, at |-> time]
<1>0. /\ Limit \in Nat \ {0} /\ Window \in Nat /\ Lag \in Nat /\ MaxTime \in Nat
      /\ time \in 0..MaxTime /\ now \in Int /\ now >= time - Lag /\ now <= time
      /\ time' = time /\ log' = Kept(now) \cup {now} /\ expireAt' = time + Window
      /\ passed' = passed \cup {n} /\ outcome' = "allowed" /\ retryAt' = retryAt
      /\ total' = [total EXCEPT ![time] = @ + 1]
      /\ n.now = now /\ n.at = time
  <2>1. /\ Limit \in Nat \ {0} /\ Window \in Nat /\ Lag \in Nat /\ MaxTime \in Nat
        /\ time \in 0..MaxTime
    BY WindowAssumption DEF WindowAssumption, WindowIInv, WindowTypeOK
  <2>2. now \in Int /\ now >= time - Lag /\ now <= time
    BY <2>1
  <2> QED
    BY <2>1, <2>2 DEF Allow
<1> HIDE DEF n
<1>1. WindowTypeOK'
  <2>1. log' \subseteq (0 - Lag)..MaxTime
    <3>1. now \in (0 - Lag)..MaxTime
      BY <1>0
    <3>2. Kept(now) \subseteq (0 - Lag)..MaxTime
      BY DEF WindowIInv, WindowTypeOK, Kept
    <3> QED
      BY <1>0, <3>1, <3>2
  <2>2. \A a \in passed' : a.at \in 0..time' /\ a.now \in (a.at - Lag)..a.at
    BY <1>0 DEF WindowIInv, WindowTypeOK
  <2>3. total' \in [0..MaxTime -> Nat]
    BY <1>0 DEF WindowIInv, WindowTypeOK
  <2> QED
    BY <1>0, <2>1, <2>2, <2>3 DEF WindowIInv, WindowTypeOK
<1>2. LogBounded'
  <2>1. /\ IsFiniteSet(log')
        /\ Cardinality(log') = (IF now \in Kept(now) THEN Cardinality(Kept(now))
                                                   ELSE Cardinality(Kept(now)) + 1)
    BY <1>0, KeptFinite, FS_AddElement
  <2>2. Cardinality(Kept(now)) < Limit /\ Cardinality(Kept(now)) \in Nat
    BY KeptFinite DEF Allow
  <2> QED
    BY <1>0, <2>1, <2>2 DEF LogBounded
<1>3. ExpiresLate'
  BY <1>0 DEF WindowIInv, WindowTypeOK, ExpiresLate
<1>4. RecentIsLogged'
  BY <1>0, RecentIsKept DEF RecentIsLogged, Recent
<1>5. PromiseKept'
  BY <1>0 DEF PromiseKept
<1> QED
  BY <1>1, <1>2, <1>3, <1>4, <1>5 DEF WindowIInv

(* A denied check, which prunes the log all the same, preserves it. *)
LEMMA SlidingDenyIInv ==
  ASSUME NEW now \in (time - Lag)..time PROVE WindowIInv /\ Deny(now) => WindowIInv'
<1> SUFFICES ASSUME WindowIInv, Deny(now) PROVE WindowIInv'
  OBVIOUS
<1>0. /\ Limit \in Nat \ {0} /\ Window \in Nat /\ Lag \in Nat /\ MaxTime \in Nat
      /\ time \in Int /\ now \in Int /\ time' = time /\ log' = Kept(now)
      /\ UNCHANGED <<expireAt, passed, total>> /\ outcome' = "denied"
      /\ Cardinality(Kept(now)) >= Limit
  BY WindowAssumption DEF WindowAssumption, WindowIInv, WindowTypeOK, Deny
<1>1. Kept(now) = log
  BY <1>0, KeptFinite DEF WindowIInv, LogBounded
<1>2. WindowTypeOK' /\ LogBounded' /\ ExpiresLate'
  <2>1. retryAt' \in Int
    BY <1>0, <1>1 DEF Deny, WindowIInv, WindowTypeOK
  <2> QED
    BY <1>0, <1>1, <2>1 DEF WindowIInv, WindowTypeOK, LogBounded, ExpiresLate
<1>3. RecentIsLogged'
  BY <1>0, RecentIsKept DEF RecentIsLogged, Recent
<1>4. PromiseKept'
  <2>1. PICK m \in log : retryAt' = now + (m + Window - now)
    BY <1>1 DEF Deny
  <2>2. m + Window = retryAt'
    BY <1>0, <2>1 DEF WindowIInv, WindowTypeOK
  <2> QED
    BY <1>0, <1>1, <2>2 DEF PromiseKept
<1> QED
  BY <1>2, <1>3, <1>4 DEF WindowIInv

(* Init and the three steps together: the invariant holds of every state of
   check_rate_limit on one key. *)
THEOREM SlidingInvariant ==
  WindowSpec => []WindowIInv
<1>1. WindowIInv /\ [WindowNext]_windowVars => WindowIInv'
  <2> SUFFICES ASSUME WindowIInv, [WindowNext]_windowVars PROVE WindowIInv'
    OBVIOUS
  <2>1. CASE WindowTick
    BY <2>1, SlidingTickIInv
  <2>2. CASE \E now \in (time - Lag)..time : WindowCheck(now) /\ total[time] <= Limit
    BY <2>2, SlidingAllowIInv, SlidingDenyIInv DEF WindowCheck
  <2>3. CASE UNCHANGED windowVars
    BY <2>3 DEF WindowIInv, windowVars, WindowTypeOK, RecentIsLogged, Recent, LogBounded, ExpiresLate, PromiseKept
  <2> QED
    BY <2>1, <2>2, <2>3 DEF WindowNext
<1> QED
  BY <1>1, SlidingInitIInv, PTL DEF WindowSpec

(* The log and the counters keep their types. *)
THEOREM SlidingTypeCorrect ==
  WindowSpec => []WindowTypeOK
BY SlidingInvariant, PTL DEF WindowIInv

(* At most Limit different readings are passed in a window less the age of
   the oldest reading, for every limit and window. *)
THEOREM WindowRespected ==
  WindowSpec => []ReadingsWithinLimit
<1>1. WindowIInv => ReadingsWithinLimit
  <2> SUFFICES ASSUME WindowIInv PROVE ReadingsWithinLimit
    OBVIOUS
  <2> DEFINE R == {a.now : a \in Recent}
  <2>1. R \in SUBSET log
    BY DEF WindowIInv, RecentIsLogged
  <2>2. /\ IsFiniteSet(log) /\ Cardinality(log) <= Limit
        /\ Cardinality(log) \in Nat /\ Limit \in Nat
    BY FS_CardinalityType, WindowAssumption DEF WindowAssumption, WindowIInv, LogBounded
  <2>3. Cardinality(R) \in Nat /\ Cardinality(R) <= Cardinality(log)
    BY <2>1, <2>2, FS_Subset, FS_CardinalityType
  <2> QED
    BY <2>2, <2>3 DEF ReadingsWithinLimit
<1> QED
  BY <1>1, SlidingInvariant, PTL

(* Waiting out Retry-After is enough when nobody else was passed. *)
THEOREM RetryAfterHonoured ==
  WindowSpec => RetryAfterSuffices
<1> DEFINE A == \A now \in (time - Lag)..time :
       (outcome = "denied" /\ now >= retryAt /\ WindowCheck(now)) => outcome' = "allowed"
<1>1. WindowIInv => A
  <2> SUFFICES ASSUME WindowIInv, NEW now \in (time - Lag)..time, outcome = "denied",
                      now >= retryAt, Deny(now)
               PROVE  FALSE
    BY DEF WindowCheck, Allow
  <2>0. /\ Limit \in Nat /\ Window \in Nat /\ Lag \in Nat /\ now \in Int
        /\ Cardinality(Kept(now)) >= Limit
    BY WindowAssumption DEF WindowAssumption, Deny, WindowIInv, WindowTypeOK
  <2>1. Kept(now) = log /\ Cardinality(log) >= Limit
    BY <2>0, KeptFinite DEF WindowIInv, LogBounded
  <2>2. PICK m \in log : m + Window = retryAt
    BY <2>1 DEF WindowIInv, PromiseKept
  <2>3. m > now - Window /\ m \in Int
    BY <2>0, <2>1 DEF Kept, WindowIInv, WindowTypeOK
  <2> QED
    BY <2>0, <2>2, <2>3
<1>2. WindowIInv /\ [WindowNext]_windowVars => [A]_windowVars
  BY <1>1
<1> QED
  BY <1>2, SlidingInvariant, PTL DEF WindowSpec, RetryAfterSuffices

-----------------------------------------------------------------------------
(* TokenBucket. *)

(* Multiplication is left to these lemmas: the steps below are then linear. *)
LEMMA Distribute ==
  ASSUME NEW r \in Int, NEW a \in Int, NEW b \in Int
  PROVE  /\ r * (a - b) = r * a - r * b
         /\ r * a \in Int
BY SMT

(* A non-negative rate keeps the order of two instants. *)
LEMMA Monotone ==
  ASSUME NEW r \in Nat, NEW a \in Int, NEW b \in Int, a <= b
  PROVE  r * a <= r * b
BY SMT

(* Subtraction keeps the order of two integers. *)
LEMMA MinusMonotone ==
  ASSUME NEW a \in Int, NEW b \in Int, NEW c \in Int, a <= b
  PROVE  a - c \in Int /\ b - c \in Int /\ a - c <= b - c
OBVIOUS

(* The script multiplies the elapsed time by the rate, the account the rate by the time. *)
LEMMA Commute ==
  ASSUME NEW a \in Int, NEW b \in Int PROVE a * b = b * a
BY SMT

(* The rate is a natural number of tokens. *)
LEMMA RateType ==
  Rate \in Int /\ Rate \in Nat
BY BucketAssumption DEF BucketAssumption

(* A refill is an integer. *)
LEMMA RateInt == ASSUME NEW a \in Int PROVE Rate * a \in Int
BY BucketAssumption DEF BucketAssumption

(* A refill over an interval that is not negative takes no tokens. *)
LEMMA RateNonNegative ==
  ASSUME NEW a \in Int, NEW b \in Int, a >= b
  PROVE  Rate * (a - b) >= 0 /\ Rate * (a - b) \in Int
BY RateType

(* A longer interval refills no less. *)
LEMMA RateMonotone ==
  ASSUME NEW a \in Int, NEW b \in Int, a <= b PROVE Rate * a <= Rate * b
BY BucketAssumption, Monotone DEF BucketAssumption

(* Forgetting the bucket after its time to live pays for a full one. *)
LEMMA TtlPays ==
  ASSUME NEW d \in Int, d >= Ttl - Lag PROVE Capacity <= Rate * d /\ Rate * d \in Int
<1>1. /\ Rate \in Int /\ Ttl - Second \in Int /\ Ttl - Second <= d
      /\ (Ttl - Second) * Rate >= Capacity /\ Capacity \in Int
  BY BucketAssumption DEF BucketAssumption
<1>2. Rate * (Ttl - Second) <= Rate * d
  BY <1>1, RateMonotone
<1>3. Rate * (Ttl - Second) = (Ttl - Second) * Rate
  BY <1>1, Commute
<1>4. Rate * d \in Int /\ Rate * (Ttl - Second) \in Int
  BY <1>1, SMT
<1> QED
  BY <1>1, <1>2, <1>3, <1>4

(* A key that does not exist yet satisfies the invariant. *)
LEMMA BucketInitIInv ==
  BucketInit => BucketIInv
<1> SUFFICES ASSUME BucketInit PROVE BucketIInv
  OBVIOUS
<1>1. BucketTypeOK
  <2>1. present \in BOOLEAN
    BY DEF BucketInit
  <2> QED
    BY <2>1, BucketAssumption DEF BucketAssumption, BucketInit, BucketTypeOK, Outcomes
<1>2. high <= time
  BY BucketAssumption DEF BucketAssumption, BucketInit
<1>3. granted * Cost = 0 /\ high - base = 0 /\ time - Lag - base = 0
  BY BucketAssumption DEF BucketAssumption, BucketInit
<1>4. Rate * 0 = 0
  BY BucketAssumption DEF BucketAssumption
<1>5. BucketAccount /\ Debt /\ AdmissionBound
  BY <1>3, <1>4, BucketAssumption DEF BucketAssumption, BucketInit, BucketAccount, Debt, AdmissionBound
<1> QED
  BY <1>1, <1>2, <1>5 DEF BucketIInv

(* The clock moving, and the key expiring with it, preserves the invariant. *)
LEMMA BucketTickIInv ==
  BucketIInv /\ BucketTick => BucketIInv'
<1> SUFFICES ASSUME BucketIInv, BucketTick PROVE BucketIInv'
  OBVIOUS
<1>0. /\ time \in Int /\ time' = time + 1 /\ granted \in Nat /\ granted * Cost \in Int
      /\ tokens \in Int /\ last_refill \in Int /\ expireAt \in Int /\ high \in Int /\ base \in Int
      /\ Lag \in Int /\ Ttl \in Int /\ Capacity \in Int
      /\ UNCHANGED <<tokens, last_refill, expireAt, high, base, granted, outcome>>
  BY BucketAssumption DEF BucketAssumption, BucketIInv, BucketTypeOK, BucketTick
<1>1. BucketTypeOK'
  <2>1. present' \in BOOLEAN
    BY DEF BucketTick
  <2> QED
    BY <1>0, <2>1, BucketAssumption DEF BucketAssumption, BucketIInv, BucketTypeOK, BucketTick
<1>2. (high <= time)' /\ AdmissionBound'
  BY <1>0 DEF BucketIInv, AdmissionBound
<1>3. Debt'
  BY <1>0 DEF BucketIInv, Debt, BucketTick
<1>4. BucketAccount'
  <2>1. CASE ~present
    <3>1. ~present' /\ granted * Cost <= Rate * (time - Lag - base)
      BY <2>1 DEF BucketTick, BucketIInv, BucketAccount
    <3>2. Rate * (time - Lag - base) <= Rate * (time' - Lag - base)
      BY <1>0, RateMonotone
    <3>3. Rate * (time - Lag - base) \in Int /\ Rate * (time' - Lag - base) \in Int
      BY <1>0, RateInt
    <3> QED
      BY <1>0, <3>1, <3>2, <3>3 DEF BucketAccount
  <2>2. CASE present /\ present'
    BY <1>0, <2>2 DEF BucketIInv, BucketAccount
  <2>3. CASE present /\ ~present'
    <3>0. ~(time' < expireAt)
      BY <2>3, Zenon DEF BucketTick
    <3>1. time' >= expireAt
      BY <1>0, <3>0
    <3>2. time' - Lag - high >= Ttl - Lag
      BY <1>0, <2>3, <3>1 DEF BucketIInv, Debt
    <3>3. Capacity <= Rate * (time' - Lag - high)
      BY <1>0, <3>2, TtlPays
    <3> DEFINE t == time' - Lag
    <3>a. t \in Int
      BY <1>0
    <3>4. /\ Rate * (t - base) = Rate * (t - high) + Rate * (high - base)
          /\ Rate * (high - base) = Rate * (high - last_refill) + Rate * (last_refill - base)
          /\ Rate * (t - base) \in Int /\ Rate * (t - high) \in Int
          /\ Rate * (high - base) \in Int /\ Rate * (high - last_refill) \in Int
          /\ Rate * (last_refill - base) \in Int
      <4> HIDE DEF t
      <4>1. Rate * (t - base) = Rate * (t - high) + Rate * (high - base)
        BY <1>0, <3>a, RateType
      <4>2. Rate * (high - base) = Rate * (high - last_refill) + Rate * (last_refill - base)
        BY <1>0, RateType
      <4>3. t - base \in Int /\ t - high \in Int /\ high - base \in Int
            /\ high - last_refill \in Int /\ last_refill - base \in Int
        BY <1>0, <3>a
      <4> QED
        BY <4>1, <4>2, <4>3, RateInt
    <3>5. /\ granted * Cost + tokens <= Capacity + Rate * (last_refill - base)
          /\ tokens + Rate * (high - last_refill) >= 0
      BY <2>3 DEF BucketIInv, BucketAccount, Debt
    <3>6. granted * Cost <= Rate * (t - base)
      BY <1>0, <3>3, <3>4, <3>5
    <3> QED
      BY <1>0, <2>3, <3>6 DEF BucketAccount
  <2> QED
    BY <2>1, <2>2, <2>3
<1> QED
  BY <1>1, <1>2, <1>3, <1>4 DEF BucketIInv

(* What the script puts in the bucket before it decides. *)
LEMMA RefilledBounds ==
  ASSUME BucketIInv, NEW now \in Int
  PROVE  /\ Refilled(now) \in Int /\ Refilled(now) <= Capacity
         /\ ~present => Refilled(now) = Capacity
         /\ present => \/ Refilled(now) = Capacity
                      \/ Refilled(now) = tokens + Rate * (now - last_refill)
         /\ present => Refilled(now) <= tokens + Rate * (now - last_refill)
<1>1. /\ tokens \in Int /\ last_refill \in Int /\ Capacity \in Int
  BY BucketAssumption DEF BucketAssumption, BucketIInv, BucketTypeOK
<1>2. /\ (now - last_refill) * Rate = Rate * (now - last_refill)
      /\ Rate * (now - last_refill) \in Int
  BY <1>1, RateType
<1> QED
  BY <1>1, <1>2 DEF Refilled, MinOf

(* A check, allowed or denied, preserves the invariant: the reading it brings may be
   older than last_refill. *)
LEMMA BucketCheckIInv ==
  ASSUME NEW now \in (time - Lag)..time, NEW opens \in BOOLEAN
  PROVE  BucketIInv /\ BucketCheck(now, opens) => BucketIInv' /\ (Rate * (now - high) >= Cost => outcome' = "allowed")
<1> SUFFICES ASSUME BucketIInv, BucketCheck(now, opens)
             PROVE  BucketIInv' /\ (Rate * (now - high) >= Cost => outcome' = "allowed")
  OBVIOUS
<1> DEFINE f == Refilled(now)
           spent == IF f >= Cost THEN Cost ELSE 0
<1>0. /\ time \in Int /\ granted \in Nat /\ tokens \in Int /\ last_refill \in Int
      /\ high \in Int /\ base \in Int /\ high <= time /\ Cost \in Int /\ Cost > 0
      /\ Lag \in Int /\ Ttl \in Nat /\ Ttl > 0 /\ Capacity \in Int /\ Capacity >= Cost
  <2>1. Ttl > 0
    <3>1. Capacity \in Int /\ Capacity > 0 /\ Ttl \in Nat /\ Second \in Nat /\ (Ttl - Second) * Rate >= Capacity /\ Rate \in Nat
      BY BucketAssumption DEF BucketAssumption
    <3>2. (Ttl - Second) * Rate \in Int /\ (Ttl - Second <= 0 => (Ttl - Second) * Rate <= 0)
      BY <3>1
    <3> QED
      BY <3>1, <3>2
  <2> QED
    BY <2>1, BucketAssumption DEF BucketAssumption, BucketIInv, BucketTypeOK
<1>1. now \in Int /\ time - Lag <= now /\ now <= time
  BY <1>0
<1>2. /\ f \in Int /\ f <= Capacity
      /\ ~present => f = Capacity
      /\ present => f = Capacity \/ f = tokens + Rate * (now - last_refill)
      /\ present => f <= tokens + Rate * (now - last_refill)
  BY <1>1, RefilledBounds
<1>3. /\ tokens' = f - spent /\ last_refill' = now /\ expireAt' = time + Ttl
      /\ high' = MaxOf(high, now) /\ base' = (IF opens THEN now ELSE base)
      /\ time' = time /\ present' = TRUE
      /\ granted' = (IF opens THEN 0 ELSE granted) + (IF f >= Cost THEN 1 ELSE 0)
      /\ outcome' = (IF f >= Cost THEN "allowed" ELSE "denied")
  BY <1>0, <1>2 DEF BucketCheck
<1>4. spent \in Int /\ spent >= 0 /\ (spent # 0 => f >= Cost /\ spent = Cost)
  BY <1>0, <1>2
<1>5. granted' * Cost = (IF opens THEN 0 ELSE granted * Cost) + spent /\ granted' \in Nat
  BY <1>0, <1>2, <1>3
<1> HIDE DEF f
<1>6. /\ high' \in Int /\ high' >= now /\ high' >= high /\ high' <= time
      /\ high' = now \/ high' = high
      /\ base' \in Int
  BY <1>0, <1>1, <1>3 DEF MaxOf
<1>7. BucketTypeOK'
  <2>1. present' \in BOOLEAN
    BY <1>3
  <2> QED
    BY <1>0, <1>1, <1>2, <1>3, <1>4, <1>5, <1>6, <2>1 DEF BucketIInv, BucketTypeOK, Outcomes
<1> HIDE DEF spent
<1>8. BucketAccount'
  <2>1. granted' * Cost + tokens' = (IF opens THEN 0 ELSE granted * Cost) + f
    BY <1>0, <1>2, <1>3, <1>4, <1>5
  <2>2. CASE opens
    <3>1. Rate * (now - now) = 0
      BY <1>1, RateType
    <3> QED
      BY <1>0, <1>2, <1>3, <2>1, <2>2, <3>1 DEF BucketAccount
  <2>3. CASE ~opens /\ present
    <3>1. Rate * (now - base) = Rate * (now - last_refill) + Rate * (last_refill - base)
      BY <1>0, <1>1, RateType
    <3>2. /\ Rate * (now - base) \in Int /\ Rate * (now - last_refill) \in Int
          /\ Rate * (last_refill - base) \in Int /\ granted * Cost \in Int
      BY <1>0, <1>1, RateType
    <3>3. granted * Cost + tokens <= Capacity + Rate * (last_refill - base)
      BY <2>3 DEF BucketIInv, BucketAccount
    <3>4. granted * Cost + f <= Capacity + Rate * (now - base)
      BY <1>0, <1>2, <2>3, <3>1, <3>2, <3>3
    <3> QED
      BY <1>3, <2>1, <2>3, <3>4 DEF BucketAccount
  <2>4. CASE ~opens /\ ~present
    <3>1. granted * Cost <= Rate * (time - Lag - base)
      BY <2>4 DEF BucketIInv, BucketAccount
    <3>2. Rate * (time - Lag - base) <= Rate * (now - base)
      BY <1>0, <1>1, RateMonotone
    <3>3. /\ Rate * (time - Lag - base) \in Int /\ Rate * (now - base) \in Int
          /\ granted * Cost \in Int
      BY <1>0, <1>1, RateType
    <3>4. granted * Cost + f <= Capacity + Rate * (now - base)
      BY <1>0, <1>2, <2>4, <3>1, <3>2, <3>3
    <3> QED
      BY <1>3, <2>1, <2>4, <3>4 DEF BucketAccount
  <2> QED
    BY <2>2, <2>3, <2>4
<1>9. tokens' + Rate * (high' - now) >= 0
  <2>1. Rate * (high' - now) >= 0 /\ Rate * (high' - now) \in Int
    <3>1. high' \in Int /\ now \in Int /\ high' >= now
      BY <1>1, <1>6
    <3> QED
      BY <3>1, RateNonNegative
  <2>2. CASE f >= Cost
    BY <1>0, <1>2, <1>3, <1>4, <2>1, <2>2
  <2>3. CASE ~(f >= Cost)
    <3>1. present /\ tokens' = f /\ f = tokens + Rate * (now - last_refill)
      BY <1>0, <1>2, <1>3, <1>4, <2>3
    <3>2. tokens + Rate * (high - last_refill) >= 0
      BY <3>1 DEF BucketIInv, Debt
    <3>3. Rate * (high - last_refill) <= Rate * (high' - last_refill)
      <4>1. high \in Int /\ high' \in Int /\ last_refill \in Int /\ high <= high'
        BY <1>0, <1>6
      <4>2. /\ high - last_refill \in Int /\ high' - last_refill \in Int
            /\ high - last_refill <= high' - last_refill
        BY <4>1, MinusMonotone
      <4> QED
        BY <4>2, RateMonotone
    <3>4. Rate * (high' - last_refill) = Rate * (high' - now) + Rate * (now - last_refill)
      BY <1>0, <1>1, <1>6, RateType
    <3>5. /\ Rate * (high - last_refill) \in Int /\ Rate * (high' - last_refill) \in Int
          /\ Rate * (now - last_refill) \in Int
      BY <1>0, <1>1, <1>6, RateType
    <3> QED
      BY <1>0, <2>1, <3>1, <3>2, <3>3, <3>4, <3>5
  <2> QED
    BY <2>2, <2>3
<1>10. Debt'
  BY <1>0, <1>1, <1>3, <1>6, <1>9 DEF Debt
<1>11. AdmissionBound'
  <2>1. granted' * Cost + tokens' <= Capacity + Rate * (now - base')
    BY <1>3, <1>8 DEF BucketAccount
  <2>2. Rate * (high' - base') = Rate * (high' - now) + Rate * (now - base')
    BY <1>1, <1>6, RateType
  <2>3. /\ Rate * (high' - base') \in Int /\ Rate * (high' - now) \in Int
        /\ Rate * (now - base') \in Int /\ granted' * Cost \in Int /\ tokens' \in Int
    BY <1>0, <1>1, <1>2, <1>3, <1>4, <1>5, <1>6, RateType
  <2> QED
    BY <1>0, <1>9, <2>1, <2>2, <2>3 DEF AdmissionBound
<1>12. ASSUME Rate * (now - high) >= Cost PROVE outcome' = "allowed"
  <2>1. CASE f = Capacity
    BY <1>0, <1>3, <2>1
  <2>2. CASE present /\ f = tokens + Rate * (now - last_refill)
    <3>1. tokens + Rate * (high - last_refill) >= 0
      BY <2>2 DEF BucketIInv, Debt
    <3>2. Rate * (now - last_refill) = Rate * (now - high) + Rate * (high - last_refill)
      BY <1>0, <1>1, RateType
    <3>3. /\ Rate * (now - last_refill) \in Int /\ Rate * (now - high) \in Int
          /\ Rate * (high - last_refill) \in Int
      BY <1>0, <1>1, RateType
    <3>4. f >= Cost
      BY <1>0, <1>12, <2>2, <3>1, <3>2, <3>3
    <3> QED
      BY <1>3, <3>4
  <2> QED
    BY <1>2, <2>1, <2>2
<1> QED
  BY <1>3, <1>6, <1>7, <1>8, <1>10, <1>11, <1>12 DEF BucketIInv

(* Init and the two steps together: the account holds of every state of the bucket. *)
THEOREM BucketInvariant ==
  BucketSpec => []BucketIInv
<1>1. BucketIInv /\ [BucketNext]_bucketVars => BucketIInv'
  <2> SUFFICES ASSUME BucketIInv, [BucketNext]_bucketVars PROVE BucketIInv'
    OBVIOUS
  <2>1. CASE BucketTick
    BY <2>1, BucketTickIInv
  <2>2. CASE \E now \in (time - Lag)..time, opens \in BOOLEAN : BucketCheck(now, opens)
    BY <2>2, BucketCheckIInv
  <2>3. CASE UNCHANGED bucketVars
    BY <2>3 DEF BucketIInv, bucketVars, BucketTypeOK, BucketAccount, Debt, AdmissionBound
  <2> QED
    BY <2>1, <2>2, <2>3 DEF BucketNext
<1> QED
  BY <1>1, BucketInitIInv, PTL DEF BucketSpec

(* The limiter never allows more than the burst plus what the rate adds over
   any interval, whatever the order in which late readings reach Redis and
   however often the key expires. *)
THEOREM NoOverAdmission ==
  BucketSpec => []AdmissionBound
BY BucketInvariant, PTL DEF BucketIInv

(* The fields of the bucket keep their types and never exceed the capacity. *)
THEOREM BucketTypeCorrect ==
  BucketSpec => []BucketTypeOK
BY BucketInvariant, PTL DEF BucketIInv

(* A request one token's time after the newest reading is allowed, however
   many were denied before. *)
THEOREM PauseAlwaysAdmits ==
  BucketSpec => PauseAdmits
<1> DEFINE A == \A now \in (time - Lag)..time, opens \in BOOLEAN :
       (BucketCheck(now, opens) /\ Rate * (now - high) >= Cost) => outcome' = "allowed"
<1>1. BucketIInv /\ [BucketNext]_bucketVars => [A]_bucketVars
  BY BucketCheckIInv
<1> QED
  BY <1>1, BucketInvariant, PTL DEF BucketSpec, PauseAdmits
=============================================================================
