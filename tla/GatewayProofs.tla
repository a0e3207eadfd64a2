---------------------------- MODULE GatewayProofs ----------------------------
(* What the pipeline of gateway/router.py guarantees for any number of
   concurrent handlers, owners, session ids and request shapes. IInv is
   preserved by each action of a handler; a handler other than the acting one
   only sees the registry and the set of issued ids change, and the latter
   never shrinks.
   Before it, what the probers guarantee of the rows of the servers that the
   pipeline resolves (ServerHealth), for any number of replicas, servers and
   URLs. *)
EXTENDS Gateway, ServerHealth, TLAPS

HealthIInv == HealthTypeOK /\ CountInv

(* The saturating counter is monotone. *)
LEMMA IncrementedMonotone ==
  ASSUME NEW m \in 0..Threshold, NEW n \in 0..Threshold, m <= n
  PROVE  /\ Incremented(m) \in 0..Threshold /\ Incremented(m) <= Incremented(n)
         /\ n <= Incremented(n)
  BY HealthAssumption DEF HealthAssumption, Incremented

(* The initial rows satisfy the invariant. *)
LEMMA HealthInitIInv ==
  HealthInit => HealthIInv
  BY HealthAssumption
  DEF HealthAssumption, HealthInit, HealthIInv, HealthTypeOK, CountInv, Live, Row, Status, Sessions, Loaded

(* What each action does to the invariant. *)
LEMMA RunOnceStep ==
  ASSUME HealthIInv, NEW r \in Replicas, RunOnce(r)
  PROVE  HealthIInv'
  BY HealthAssumption, IncrementedMonotone
  DEF HealthAssumption, HealthIInv, HealthTypeOK, CountInv, Live, Row, Sessions, RunOnce

(* CheckUrl preserves it. *)
LEMMA CheckUrlStep ==
  ASSUME HealthIInv, NEW r \in Replicas, NEW t \in Slugs \X Urls, CheckUrl(r, t)
  PROVE  HealthIInv'
<1> USE HealthAssumption, RowAssumption DEF HealthAssumption, RowAssumption, HealthIInv, HealthTypeOK, CountInv, Live, Sessions, CheckUrl
<1> DEFINE h == t[2] \in up
<1>0. h \in BOOLEAN
  OBVIOUS
<1>9. results' = [results EXCEPT ![r] = @ \cup {<<t[1], h>>}]
  OBVIOUS
<1> HIDE DEF h
<1>1. <<t[1], h>> \in Slugs \X BOOLEAN
  BY <1>0
<1>2. results' \in [Replicas -> SUBSET (Slugs \X BOOLEAN)]
  BY <1>1, <1>9
<1>3. targets' \in [Replicas -> SUBSET (Slugs \X Urls)]
  OBVIOUS
<1> QED
  BY <1>2, <1>3

(* Load preserves it. *)
LEMMA LoadStep ==
  ASSUME HealthIInv, NEW r \in Replicas, NEW x \in Slugs \X BOOLEAN, Load(r, x)
  PROVE  HealthIInv'
<1> USE HealthAssumption, RowAssumption DEF HealthAssumption, RowAssumption, HealthIInv, HealthTypeOK, Sessions
<1>1. results' \in [Replicas -> SUBSET (Slugs \X BOOLEAN)]
  BY DEF Load
<1>2. CASE UNCHANGED <<loaded, failed>>
  BY <1>1, <1>2 DEF Load, CountInv, Live
<1>3. ASSUME NEW i \in Live, loaded' = [loaded EXCEPT ![r] = Snapshot(i, x[2])],
             CountFailure(i, x[2])
      PROVE  HealthIInv'
  <2>1. servers[i] \in Row /\ servers[i].failures <= failed[i] /\ i \in Rows
    BY DEF Live, CountInv
  <2>2. x[2] \in BOOLEAN /\ Snapshot(i, x[2]) \in Loaded
    BY <2>1 DEF Snapshot, Loaded, Row
  <2>3. failed' \in [Rows -> 0..Threshold] /\ \A j \in Rows : failed[j] <= failed'[j]
    BY <1>3, <2>1, IncrementedMonotone DEF CountFailure
  <2>4. x[2] = FALSE => failed'[i] = Incremented(failed[i])
    BY <1>3, <2>1 DEF CountFailure
  <2>5. /\ Snapshot(i, x[2]).row = i /\ Snapshot(i, x[2]).failures = servers[i].failures
        /\ Snapshot(i, x[2]).healthy = x[2]
    BY DEF Snapshot
  <2>6. servers' = servers /\ up' = up /\ targets' = targets /\ creating' = creating
    BY DEF Load
  <2>7. HealthTypeOK'
    BY <1>1, <1>3, <2>1, <2>2, <2>3, <2>5, <2>6 DEF Live
  <2>8. (\A j \in Live : servers[j].failures <= failed[j])'
    BY <2>3, <2>6 DEF Live, Row, CountInv
  <2>9. ASSUME NEW p \in Sessions, loaded'[p] # Nil
        PROVE  /\ loaded'[p].failures <= failed'[loaded'[p].row]
               /\ loaded'[p].healthy = FALSE
                    => Incremented(loaded'[p].failures) <= failed'[loaded'[p].row]
    <3>1. CASE p = r
      BY <1>3, <2>1, <2>3, <2>4, <2>5, <3>1, IncrementedMonotone DEF Row
    <3>2. CASE p # r
      <4>1. loaded'[p] = loaded[p] /\ loaded[p] \in Loaded
        BY <1>3, <2>9, <3>2
      <4> QED
        BY <2>3, <2>9, <4>1, IncrementedMonotone DEF CountInv, Loaded
    <3> QED
      BY <3>1, <3>2
  <2> QED
    BY <2>7, <2>8, <2>9 DEF CountInv
<1> QED
  BY <1>2, <1>3 DEF Load

(* TriggerHealthProbe preserves it. *)
LEMMA TriggerHealthProbeStep ==
  ASSUME HealthIInv, NEW p \in Probers, NEW i \in Rows, TriggerHealthProbe(p, i)
  PROVE  HealthIInv'
  BY HealthAssumption, IncrementedMonotone
  DEF HealthAssumption, HealthIInv, HealthTypeOK, CountInv, Live, Row, Sessions, TriggerHealthProbe, Snapshot, Loaded

(* Probe preserves it. *)
LEMMA ProbeStep ==
  ASSUME HealthIInv, NEW p \in Probers, Probe(p)
  PROVE  HealthIInv'
<1> USE HealthAssumption, RowAssumption DEF HealthAssumption, RowAssumption, HealthIInv, HealthTypeOK, Sessions
<1> DEFINE l == loaded[p]
           h == l.url \in up
           new == [row |-> l.row, url |-> l.url, status |-> l.status,
                   failures |-> l.failures, healthy |-> h]
<1>1. /\ l # Nil /\ loaded' = [loaded EXCEPT ![p] = new] /\ CountFailure(l.row, h)
      /\ servers' = servers /\ up' = up /\ targets' = targets /\ results' = results
      /\ creating' = creating
  BY DEF Probe
<1>2. l \in Loaded /\ l.row \in Rows /\ l.failures \in 0..Threshold
  BY <1>1 DEF Loaded
<1>3. new \in Loaded
  BY <1>2 DEF Loaded
<1>4. failed' \in [Rows -> 0..Threshold] /\ \A j \in Rows : failed[j] <= failed'[j]
  BY <1>1, <1>2, IncrementedMonotone DEF CountFailure
<1>5. h = FALSE => failed'[l.row] = Incremented(failed[l.row])
  BY <1>1, <1>2 DEF CountFailure
<1>6. new.row = l.row /\ new.failures = l.failures /\ new.healthy = h
  OBVIOUS
<1> HIDE DEF new, h
<1>7. HealthTypeOK'
  BY <1>1, <1>2, <1>3, <1>4, <1>6 DEF Live
<1>8. (\A j \in Live : servers[j].failures <= failed[j])'
  BY <1>1, <1>4 DEF Live, Row, CountInv
<1>9. ASSUME NEW q \in Sessions, loaded'[q] # Nil
      PROVE  /\ loaded'[q].failures <= failed'[loaded'[q].row]
             /\ loaded'[q].healthy = FALSE
                  => Incremented(loaded'[q].failures) <= failed'[loaded'[q].row]
  <2>1. CASE q = p
    <3>1. loaded'[q] = new /\ l.failures <= failed[l.row]
      BY <1>1, <2>1 DEF CountInv
    <3> QED
      BY <1>2, <1>4, <1>5, <1>6, <3>1, IncrementedMonotone
  <2>2. CASE q # p
    <3>1. loaded'[q] = loaded[q] /\ loaded[q] \in Loaded
      BY <1>1, <1>9, <2>2
    <3> QED
      BY <1>4, <1>9, <3>1, IncrementedMonotone DEF CountInv, Loaded
  <2> QED
    BY <2>1, <2>2
<1> QED
  BY <1>7, <1>8, <1>9 DEF CountInv

(* Commit preserves it. *)
LEMMA CommitStep ==
  ASSUME HealthIInv, NEW p \in Sessions, Commit(p)
  PROVE  HealthIInv'
<1> USE HealthAssumption, RowAssumption DEF HealthAssumption, RowAssumption, HealthIInv, HealthTypeOK, Sessions
<1> DEFINE l == loaded[p]
           new == Applied(l)
           row == [slug |-> servers[l.row].slug, url |-> servers[l.row].url,
                   status |-> IF new.status # l.status THEN new.status
                              ELSE servers[l.row].status,
                   failures |-> IF l.healthy /\ l.failures = 0 THEN servers[l.row].failures
                                ELSE new.failures]
<1>1. /\ l # Nil /\ l.healthy # Nil /\ loaded' = [loaded EXCEPT ![p] = Nil]
      /\ up' = up /\ targets' = targets /\ results' = results
      /\ creating' = creating /\ failed' = failed
      /\ servers' = IF l.row \notin Live THEN servers ELSE [servers EXCEPT ![l.row] = row]
  BY DEF Commit
<1>2. /\ l \in Loaded /\ l.row \in Rows /\ l.failures \in 0..Threshold
      /\ l.healthy \in BOOLEAN /\ l.status \in Status
  BY <1>1 DEF Loaded
<1>3. /\ new.status \in Status /\ new.failures \in 0..Threshold
      /\ new.failures <= failed[l.row]
  BY <1>1, <1>2, IncrementedMonotone DEF Applied, Status, CountInv
<1>4. CASE l.row \notin Live
  BY <1>1, <1>4 DEF Live, CountInv
<1>5. CASE l.row \in Live
  <2>1. servers[l.row] \in Row /\ servers[l.row].failures <= failed[l.row]
    BY <1>5 DEF Live, CountInv
  <2>2. row \in Row /\ row.slug = servers[l.row].slug /\ row.failures <= failed[l.row]
    BY <1>2, <1>3, <2>1 DEF Row
  <2> HIDE DEF row, new
  <2>3. servers' = [servers EXCEPT ![l.row] = row]
    BY <1>1, <1>5
  <2>4. \A i \in Live' : i \in Live /\ servers'[i].slug = servers[i].slug
    BY <1>2, <1>5, <2>2, <2>3 DEF Live
  <2>5. \A q \in Sessions : loaded'[q] # Nil => loaded'[q] = loaded[q]
    BY <1>1
  <2>6. \A i \in Rows : servers[i] # Nil => servers'[i] # Nil
    BY <1>2, <2>2, <2>3
  <2>7. servers' \in [Rows -> Row \cup {Nil, Deleted}]
    BY <1>2, <2>2, <2>3
  <2>8. HealthTypeOK'
    BY <1>1, <1>2, <2>3, <2>4, <2>5, <2>6, <2>7 DEF Loaded
  <2>9. \A i \in Live' : servers'[i].failures <= failed'[i]
    BY <1>1, <1>2, <2>2, <2>3, <2>4 DEF CountInv, Live
  <2> QED
    BY <1>1, <2>5, <2>8, <2>9 DEF CountInv
<1> QED
  BY <1>4, <1>5

(* PersistFailed preserves it. *)
LEMMA PersistFailedStep ==
  ASSUME HealthIInv, NEW p \in Sessions, PersistFailed(p)
  PROVE  HealthIInv'
  BY HealthAssumption, IncrementedMonotone
  DEF HealthAssumption, HealthIInv, HealthTypeOK, CountInv, Live, Row, Sessions, PersistFailed

(* RequireLicense preserves it. *)
LEMMA RequireLicenseStep ==
  ASSUME HealthIInv, NEW a \in Admins, NEW s \in Slugs, RequireLicense(a, s)
  PROVE  HealthIInv'
  BY HealthAssumption, IncrementedMonotone
  DEF HealthAssumption, HealthIInv, HealthTypeOK, CountInv, Live, Row, Sessions, RequireLicense

(* Insert preserves it. *)
LEMMA InsertStep ==
  ASSUME HealthIInv, NEW a \in Admins, NEW i \in Rows, NEW u \in Urls, Insert(a, i, u)
  PROVE  HealthIInv'
<1> USE HealthAssumption, RowAssumption DEF HealthAssumption, RowAssumption, HealthIInv, HealthTypeOK, Sessions
<1> DEFINE row == [slug |-> creating[a], url |-> u, status |-> "active", failures |-> 0]
<1>1. row \in Row /\ row.slug = creating[a] /\ row.failures = 0
  BY DEF Insert, Row, Status
<1>2. CASE servers' = servers
  BY <1>2 DEF Insert, CountInv, Live
<1>3. CASE /\ servers[i] = Nil /\ servers' = [servers EXCEPT ![i] = row]
           /\ \A j \in Live : servers[j].slug # creating[a]
  <2> HIDE DEF row
  <2>1. Live' = Live \cup {i} /\ \A j \in Live : j # i /\ servers'[j] = servers[j]
    BY <1>1, <1>3 DEF Live
  <2>2. servers' \in [Rows -> Row \cup {Nil, Deleted}] /\ servers'[i] = row
    BY <1>1, <1>3
  <2>3. \A j, k \in Live' : servers'[j].slug = servers'[k].slug => j = k
    BY <1>1, <1>3, <2>1, <2>2
  <2>4. \A j \in Rows : servers[j] # Nil => servers'[j] # Nil
    BY <1>1, <1>3
  <2>5. HealthTypeOK'
    BY <2>2, <2>3, <2>4 DEF Insert, Loaded
  <2>6. \A j \in Live' : servers'[j].failures <= failed'[j]
    BY <1>1, <2>1, <2>2 DEF Insert, CountInv
  <2> QED
    BY <2>5, <2>6 DEF Insert, CountInv
<1> QED
  BY <1>2, <1>3 DEF Insert

(* Update preserves it. *)
LEMMA UpdateStep ==
  ASSUME HealthIInv, NEW i \in Rows, NEW s \in Slugs, NEW u \in Urls, NEW state \in Status,
         Update(i, s, u, state)
  PROVE  HealthIInv'
<1> USE HealthAssumption, RowAssumption DEF HealthAssumption, RowAssumption, HealthIInv, HealthTypeOK, Sessions
<1> DEFINE row == [slug |-> s, url |-> u, status |-> state, failures |-> servers[i].failures]
<1>1. /\ i \in Live /\ servers' = [servers EXCEPT ![i] = row]
      /\ \A j \in Live \ {i} : servers[j].slug # s
  BY DEF Update
<1>2. servers[i] \in Row /\ servers[i].failures <= failed[i]
  BY <1>1 DEF Live, CountInv
<1>3. row \in Row /\ row.slug = s /\ row.failures = servers[i].failures
  BY <1>2 DEF Row
<1> HIDE DEF row
<1>4. servers' \in [Rows -> Row \cup {Nil, Deleted}] /\ servers'[i] = row
  BY <1>1, <1>3
<1>5. Live' = Live /\ \A j \in Live \ {i} : servers'[j] = servers[j]
  BY <1>1, <1>3, <1>4 DEF Live
<1>6. \A j, k \in Live' : servers'[j].slug = servers'[k].slug => j = k
  BY <1>1, <1>3, <1>4, <1>5
<1>7. \A j \in Rows : servers[j] # Nil => servers'[j] # Nil
  BY <1>1, <1>3, <1>4
<1>8. HealthTypeOK'
  BY <1>4, <1>6, <1>7 DEF Update, Loaded
<1>9. \A j \in Live' : servers'[j].failures <= failed'[j]
  BY <1>2, <1>3, <1>4, <1>5 DEF Update, CountInv
<1> QED
  BY <1>8, <1>9 DEF Update, CountInv

(* Delete preserves it. *)
LEMMA DeleteStep ==
  ASSUME HealthIInv, NEW i \in Rows, Delete(i)
  PROVE  HealthIInv'
  BY HealthAssumption, IncrementedMonotone
  DEF HealthAssumption, HealthIInv, HealthTypeOK, CountInv, Live, Row, Sessions, Delete

(* Flip preserves it. *)
LEMMA FlipStep ==
  ASSUME HealthIInv, NEW u \in Urls, Flip(u)
  PROVE  HealthIInv'
  BY HealthAssumption, IncrementedMonotone
  DEF HealthAssumption, HealthIInv, HealthTypeOK, CountInv, Live, Row, Sessions, Flip

-----------------------------------------------------------------------------
(* The counts of rows and sessions are bounded by the failures reported. *)
THEOREM HealthInvariant ==
  HealthSpec => []HealthIInv
<1>1. HealthIInv /\ [HealthNext]_healthVars => HealthIInv'
  <2> SUFFICES ASSUME HealthIInv, [HealthNext]_healthVars PROVE HealthIInv'
    OBVIOUS
  <2>1. CASE UNCHANGED healthVars
    BY <2>1 DEF healthVars, HealthIInv, HealthTypeOK, CountInv, Live
  <2>2. CASE Admin
    BY <2>2, RequireLicenseStep, InsertStep, UpdateStep, DeleteStep DEF Admin
  <2>3. CASE HealthNext /\ ~Admin
    BY <2>3, FlipStep, RunOnceStep, CheckUrlStep, LoadStep, TriggerHealthProbeStep,
       ProbeStep, CommitStep, PersistFailedStep DEF HealthNext
  <2> QED
    BY <2>1, <2>2, <2>3
<1> QED
  BY <1>1, HealthInitIInv, PTL DEF HealthSpec

(* Slugs stay unique and every session holds a row that was created. *)
THEOREM HealthTypeCorrect ==
  HealthSpec => []HealthTypeOK
  BY HealthInvariant, PTL DEF HealthIInv

(* A probe opens a circuit only after Threshold failed checks of that server,
   although _apply_result works on counts that may be stale. *)
THEOREM AlarmsAreReal ==
  HealthSpec => NoFalseAlarm
<1>1. ASSUME HealthIInv, NEW p \in Sessions, NEW i \in Rows, Commit(p), i \in Live,
             servers[i].status # "unhealthy", servers'[i].status = "unhealthy"
      PROVE  failed[i] = Threshold
  <2> DEFINE l == loaded[p]
             new == Applied(l)
  <2>1. l # Nil /\ l \in Loaded /\ l.healthy \in BOOLEAN
    BY <1>1 DEF Commit, HealthIInv, HealthTypeOK, Loaded
  <2>2. /\ i = l.row /\ new.status = "unhealthy" /\ l.status # "unhealthy"
    BY <1>1, <2>1 DEF Commit, HealthIInv, HealthTypeOK, Live, Loaded
  <2>3. l.healthy = FALSE /\ Incremented(l.failures) >= Threshold
    BY <2>1, <2>2 DEF Applied
  <2>4. Incremented(l.failures) <= failed[i] /\ failed[i] \in 0..Threshold
    BY <1>1, <2>1, <2>2, <2>3 DEF HealthIInv, HealthTypeOK, CountInv
  <2>5. Incremented(l.failures) \in Int
    BY <2>1, HealthAssumption DEF Loaded, Incremented, HealthAssumption
  <2> QED
    BY <2>3, <2>4, <2>5, HealthAssumption DEF HealthAssumption
<1>2. HealthIInv /\ [HealthNext]_healthVars =>
        [\A p \in Sessions, i \in Rows :
           Commit(p) /\ i \in Live /\ servers[i].status # "unhealthy"
                     /\ servers'[i].status = "unhealthy"
           => failed[i] = Threshold]_healthVars
  BY <1>1
<1> QED
  BY <1>2, HealthInvariant, PTL DEF HealthSpec, NoFalseAlarm

-----------------------------------------------------------------------------
USE GatewayAssumption DEF GatewayAssumption, At, Goto, Reply, Audit, request, history, answer

(* The handlers have done nothing yet. *)
LEMMA InitIInv == Init => IInv
  BY DEF Init, IInv, TypeOK, StageInv, RegistryInv, Stages, Statuses, Early, Late, Validated,
         RefusedNeverForwarded, ForwardedIsCharged, SessionIsolation, AuditAgrees, Refusals

(* A new request starts with nothing established and nothing done. *)
LEMMA ReceiveStep ==
  ASSUME IInv, NEW w \in Workers, Receive(w)
  PROVE  IInv'
<1> USE DEF IInv, TypeOK, StageInv, Receive
<1>1. TypeOK'
  <2>1. stage' \in [Workers -> Stages]
    BY DEF Stages
  <2>2. status' \in [Workers -> Statuses]
    BY DEF Statuses
  <2>3. /\ shape' \in [Workers -> Shapes] /\ who' \in [Workers -> Owners]
        /\ inbound' \in [Workers -> Ids \cup {BadId, None}]
    OBVIOUS
  <2> QED BY <2>1, <2>2, <2>3 DEF Early, Shape
<1>2. StageInv'
  BY DEF RegistryInv, Early, Late, Validated, Owned
<1>3. RegistryInv'
  BY DEF RegistryInv, Late, Owned
<1>4. RefusedNeverForwarded' /\ ForwardedIsCharged' /\ AuditAgrees'
  BY DEF Early, Late, RefusedNeverForwarded, ForwardedIsCharged, AuditAgrees, Refusals
<1>5. SessionIsolation'
  BY DEF Validated, Late, SessionIsolation, Owned
<1> QED BY <1>1, <1>2, <1>3, <1>4, <1>5

(* Before the forward a handler only moves on or refuses. *)
LEMMA RunPreAuthChecksStep ==
  ASSUME IInv, NEW w \in Workers, RunPreAuthChecks(w)
  PROVE  IInv'
<1> USE DEF IInv, TypeOK, StageInv, RunPreAuthChecks
<1>1. TypeOK'
  <2>1. stage' \in [Workers -> Stages]
    BY DEF Stages
  <2>2. status' \in [Workers -> Statuses]
    BY DEF Statuses
  <2> QED BY <2>1, <2>2 DEF Early, Shape
<1>2. StageInv'
  BY DEF RegistryInv, Early, Late, Validated, Owned
<1>3. RegistryInv'
  BY DEF RegistryInv, Late, Owned
<1>4. RefusedNeverForwarded' /\ ForwardedIsCharged' /\ AuditAgrees'
  BY DEF Early, Late, RefusedNeverForwarded, ForwardedIsCharged, AuditAgrees, Refusals
<1>5. SessionIsolation'
  BY DEF Validated, Late, SessionIsolation, Owned
<1> QED BY <1>1, <1>2, <1>3, <1>4, <1>5

(* IInv is preserved by ResolveServer. *)
LEMMA ResolveServerStep ==
  ASSUME IInv, NEW w \in Workers, ResolveServer(w)
  PROVE  IInv'
<1> USE DEF IInv, TypeOK, StageInv, ResolveServer
<1>1. TypeOK'
  <2>1. stage' \in [Workers -> Stages]
    BY DEF Stages
  <2>2. status' \in [Workers -> Statuses]
    BY DEF Statuses
  <2> QED BY <2>1, <2>2 DEF Early, Shape
<1>2. StageInv'
  BY DEF RegistryInv, Early, Late, Validated, Owned
<1>3. RegistryInv'
  BY DEF RegistryInv, Late, Owned
<1>4. RefusedNeverForwarded' /\ ForwardedIsCharged' /\ AuditAgrees'
  BY DEF Early, Late, RefusedNeverForwarded, ForwardedIsCharged, AuditAgrees, Refusals
<1>5. SessionIsolation'
  BY DEF Validated, Late, SessionIsolation, Owned
<1> QED BY <1>1, <1>2, <1>3, <1>4, <1>5

(* What the registry names as owner was issued the id (RegistryInv). *)
LEMMA ValidateSessionStep ==
  ASSUME IInv, NEW w \in Workers, ValidateSession(w)
  PROVE  IInv'
<1> USE DEF IInv, TypeOK, StageInv, ValidateSession, Lookup
<1>1. TypeOK'
  <2>1. stage' \in [Workers -> Stages]
    BY DEF Stages
  <2>2. status' \in [Workers -> Statuses]
    BY DEF Statuses
  <2> QED BY <2>1, <2>2 DEF Early, Shape
<1>2. StageInv'
  BY DEF RegistryInv, Early, Late, Validated, Owned
<1>3. RegistryInv'
  BY DEF RegistryInv, Late, Owned
<1>4. RefusedNeverForwarded' /\ ForwardedIsCharged' /\ AuditAgrees'
  BY DEF Early, Late, RefusedNeverForwarded, ForwardedIsCharged, AuditAgrees, Refusals
<1>5. SessionIsolation'
  BY DEF Validated, Late, SessionIsolation, Owned
<1> QED BY <1>1, <1>2, <1>3, <1>4, <1>5

(* IInv is preserved by Authorize. *)
LEMMA AuthorizeStep ==
  ASSUME IInv, NEW w \in Workers, Authorize(w)
  PROVE  IInv'
<1> USE DEF IInv, TypeOK, StageInv, Authorize, Authorized
<1>1. TypeOK'
  <2>1. stage' \in [Workers -> Stages]
    BY DEF Stages
  <2>2. status' \in [Workers -> Statuses]
    BY DEF Statuses
  <2> QED BY <2>1, <2>2 DEF Early, Shape
<1>2. StageInv'
  BY DEF RegistryInv, Early, Late, Validated, Owned
<1>3. RegistryInv'
  BY DEF RegistryInv, Late, Owned
<1>4. RefusedNeverForwarded' /\ ForwardedIsCharged' /\ AuditAgrees'
  BY DEF Early, Late, RefusedNeverForwarded, ForwardedIsCharged, AuditAgrees, Refusals
<1>5. SessionIsolation'
  BY DEF Validated, Late, SessionIsolation, Owned
<1> QED BY <1>1, <1>2, <1>3, <1>4, <1>5

(* IInv is preserved by Terminate. *)
LEMMA TerminateStep ==
  ASSUME IInv, NEW w \in Workers, Terminate(w)
  PROVE  IInv'
<1> USE DEF IInv, TypeOK, StageInv, Terminate, Lookup
<1>1. TypeOK'
  <2>1. stage' \in [Workers -> Stages]
    BY DEF Stages
  <2>2. status' \in [Workers -> Statuses]
    BY DEF Statuses
  <2> QED BY <2>1, <2>2 DEF Early, Shape
<1>2. StageInv'
  BY DEF RegistryInv, Early, Late, Validated, Owned
<1>3. RegistryInv'
  BY DEF RegistryInv, Late, Owned
<1>4. RefusedNeverForwarded' /\ ForwardedIsCharged' /\ AuditAgrees'
  BY DEF Early, Late, RefusedNeverForwarded, ForwardedIsCharged, AuditAgrees, Refusals
<1>5. SessionIsolation'
  BY DEF Validated, Late, SessionIsolation, Owned
<1> QED BY <1>1, <1>2, <1>3, <1>4, <1>5

(* The admission a later forward needs is taken here. *)
LEMMA CheckRateLimitStep ==
  ASSUME IInv, NEW w \in Workers, CheckRateLimit(w)
  PROVE  IInv'
<1> USE DEF IInv, TypeOK, StageInv, CheckRateLimit
<1>1. TypeOK'
  <2>1. stage' \in [Workers -> Stages]
    BY DEF Stages
  <2>2. status' \in [Workers -> Statuses]
    BY DEF Statuses
  <2> QED BY <2>1, <2>2 DEF Early, Shape
<1>2. StageInv'
  BY DEF RegistryInv, Early, Late, Validated, Owned
<1>3. RegistryInv'
  BY DEF RegistryInv, Late, Owned
<1>4. RefusedNeverForwarded' /\ ForwardedIsCharged' /\ AuditAgrees'
  BY DEF Early, Late, RefusedNeverForwarded, ForwardedIsCharged, AuditAgrees, Refusals
<1>5. SessionIsolation'
  BY DEF Validated, Late, SessionIsolation, Owned
<1> QED BY <1>1, <1>2, <1>3, <1>4, <1>5

(* IInv is preserved by DeleteTerminated. *)
LEMMA DeleteTerminatedStep ==
  ASSUME IInv, NEW w \in Workers, DeleteTerminated(w)
  PROVE  IInv'
<1> USE DEF IInv, TypeOK, StageInv, DeleteTerminated
<1>1. TypeOK'
  BY DEF Stages, Statuses, Early, Late, Validated, Owned, Shape
<1>2. StageInv'
  BY DEF RegistryInv, Early, Late, Validated, Owned
<1>3. RegistryInv'
  BY DEF RegistryInv, Late, Owned
<1>4. RefusedNeverForwarded' /\ ForwardedIsCharged' /\ AuditAgrees'
  BY DEF Early, Late, RefusedNeverForwarded, ForwardedIsCharged, AuditAgrees, Refusals
<1>5. SessionIsolation'
  BY DEF Validated, Late, SessionIsolation, Owned
<1> QED BY <1>1, <1>2, <1>3, <1>4, <1>5

(* IInv is preserved by DryRunOrMeter. *)
LEMMA DryRunOrMeterStep ==
  ASSUME IInv, NEW w \in Workers, DryRunOrMeter(w)
  PROVE  IInv'
<1> USE DEF IInv, TypeOK, StageInv, DryRunOrMeter
<1>1. TypeOK'
  <2>1. stage' \in [Workers -> Stages]
    BY DEF Stages
  <2>2. status' \in [Workers -> Statuses]
    BY DEF Statuses
  <2>3. metered' \in [Workers -> 0..1] /\ events' \in [Workers -> SUBSET {"allowed", "denied"}]
    BY DEF Early
  <2> QED BY <2>1, <2>2, <2>3 DEF Early, Shape
<1>2. StageInv'
  BY DEF RegistryInv, Early, Late, Validated, Owned
<1>3. RegistryInv'
  BY DEF RegistryInv, Late, Owned
<1>4. RefusedNeverForwarded' /\ ForwardedIsCharged' /\ AuditAgrees'
  BY DEF Early, Late, RefusedNeverForwarded, ForwardedIsCharged, AuditAgrees, Refusals
<1>5. SessionIsolation'
  BY DEF Validated, Late, SessionIsolation, Owned
<1> QED BY <1>1, <1>2, <1>3, <1>4, <1>5

(* The id the upstream answers with is issued to the caller. *)
LEMMA ForwardStep ==
  ASSUME IInv, NEW w \in Workers, Forward(w)
  PROVE  IInv'
<1> USE DEF IInv, TypeOK, StageInv, Forward, Answered
<1>1. TypeOK'
  <2>1. stage' \in [Workers -> Stages]
    BY DEF Stages
  <2>2. status' \in [Workers -> Statuses]
    BY DEF Statuses
  <2>3. open' \in [Workers -> BOOLEAN]
    BY DEF Shape
  <2>4. upstream' \in [Workers -> Ids \cup {BadId, None}]
    OBVIOUS
  <2>5. issued' \in [Ids -> SUBSET Owners]
    OBVIOUS
  <2> QED BY <2>1, <2>2, <2>3, <2>4, <2>5 DEF Early, Shape
<1>2. StageInv'
  BY DEF RegistryInv, Early, Late, Validated, Owned
<1>3. RegistryInv'
  BY DEF RegistryInv, Late, Owned
<1>4. RefusedNeverForwarded' /\ ForwardedIsCharged' /\ AuditAgrees'
  BY DEF Early, Late, RefusedNeverForwarded, ForwardedIsCharged, AuditAgrees, Refusals
<1>5. SessionIsolation'
  BY DEF Validated, Late, SessionIsolation, Owned
<1> QED BY <1>1, <1>2, <1>3, <1>4, <1>5

(* IInv is preserved by ForwardTerminate. *)
LEMMA ForwardTerminateStep ==
  ASSUME IInv, NEW w \in Workers, ForwardTerminate(w)
  PROVE  IInv'
<1> USE DEF IInv, TypeOK, StageInv, ForwardTerminate
<1>1. TypeOK'
  <2>1. stage' \in [Workers -> Stages]
    BY DEF Stages
  <2>2. status' \in [Workers -> Statuses]
    BY DEF Statuses
  <2> QED BY <2>1, <2>2 DEF Early, Shape
<1>2. StageInv'
  BY DEF RegistryInv, Early, Late, Validated, Owned
<1>3. RegistryInv'
  BY DEF RegistryInv, Late, Owned
<1>4. RefusedNeverForwarded' /\ ForwardedIsCharged' /\ AuditAgrees'
  BY DEF Early, Late, RefusedNeverForwarded, ForwardedIsCharged, AuditAgrees, Refusals
<1>5. SessionIsolation'
  BY DEF Validated, Late, SessionIsolation, Owned
<1> QED BY <1>1, <1>2, <1>3, <1>4, <1>5

(* IInv is preserved by HandleResponse. *)
LEMMA HandleResponseStep ==
  ASSUME IInv, NEW w \in Workers, HandleResponse(w)
  PROVE  IInv'
<1> USE DEF IInv, TypeOK, StageInv, HandleResponse
<1>1. TypeOK'
  <2>1. stage' \in [Workers -> Stages]
    BY DEF Stages
  <2>2. status' \in [Workers -> Statuses]
    BY DEF Statuses
  <2> QED BY <2>1, <2>2 DEF Early, Shape
<1>2. StageInv'
  BY DEF RegistryInv, Early, Late, Validated, Owned
<1>3. RegistryInv'
  BY DEF RegistryInv, Late, Owned
<1>4. RefusedNeverForwarded' /\ ForwardedIsCharged' /\ AuditAgrees'
  BY DEF Early, Late, RefusedNeverForwarded, ForwardedIsCharged, AuditAgrees, Refusals
<1>5. SessionIsolation'
  BY DEF Validated, Late, SessionIsolation, Owned
<1> QED BY <1>1, <1>2, <1>3, <1>4, <1>5

(* IInv is preserved by PersistLookup. *)
LEMMA PersistLookupStep ==
  ASSUME IInv, NEW w \in Workers, PersistLookup(w)
  PROVE  IInv'
<1> USE DEF IInv, TypeOK, StageInv, PersistLookup, Lookup
<1>1. TypeOK'
  <2>1. stage' \in [Workers -> Stages]
    BY DEF Stages
  <2>2. status' \in [Workers -> Statuses]
    BY DEF Statuses
  <2> QED BY <2>1, <2>2 DEF Early, Shape
<1>2. StageInv'
  BY DEF RegistryInv, Early, Late, Validated, Owned
<1>3. RegistryInv'
  BY DEF RegistryInv, Late, Owned
<1>4. RefusedNeverForwarded' /\ ForwardedIsCharged' /\ AuditAgrees'
  BY DEF Early, Late, RefusedNeverForwarded, ForwardedIsCharged, AuditAgrees, Refusals
<1>5. SessionIsolation'
  BY DEF Validated, Late, SessionIsolation, Owned
<1> QED BY <1>1, <1>2, <1>3, <1>4, <1>5

(* IInv is preserved by PersistDelete. *)
LEMMA PersistDeleteStep ==
  ASSUME IInv, NEW w \in Workers, PersistDelete(w)
  PROVE  IInv'
<1> USE DEF IInv, TypeOK, StageInv, PersistDelete
<1>1. TypeOK'
  BY DEF Stages, Statuses, Early, Late, Validated, Owned, Shape
<1>2. StageInv'
  BY DEF RegistryInv, Early, Late, Validated, Owned
<1>3. RegistryInv'
  BY DEF RegistryInv, Late, Owned
<1>4. RefusedNeverForwarded' /\ ForwardedIsCharged' /\ AuditAgrees'
  BY DEF Early, Late, RefusedNeverForwarded, ForwardedIsCharged, AuditAgrees, Refusals
<1>5. SessionIsolation'
  BY DEF Validated, Late, SessionIsolation, Owned
<1> QED BY <1>1, <1>2, <1>3, <1>4, <1>5

(* The registry only learns ids that the upstream issued to the caller. *)
LEMMA PersistRecordStep ==
  ASSUME IInv, NEW w \in Workers, PersistRecord(w)
  PROVE  IInv'
<1> USE DEF IInv, TypeOK, StageInv, PersistRecord
<1>1. TypeOK'
  BY DEF Stages, Statuses, Early, Late, Validated, Owned, Shape
<1>2. StageInv'
  BY DEF RegistryInv, Early, Late, Validated, Owned
<1>3. RegistryInv'
  BY DEF RegistryInv, Late, Owned
<1>4. RefusedNeverForwarded' /\ ForwardedIsCharged' /\ AuditAgrees'
  BY DEF Early, Late, RefusedNeverForwarded, ForwardedIsCharged, AuditAgrees, Refusals
<1>5. SessionIsolation'
  BY DEF Validated, Late, SessionIsolation, Owned
<1> QED BY <1>1, <1>2, <1>3, <1>4, <1>5

(* IInv is preserved by Deliver. *)
LEMMA DeliverStep ==
  ASSUME IInv, NEW w \in Workers, Deliver(w)
  PROVE  IInv'
<1> USE DEF IInv, TypeOK, StageInv, Deliver
<1>1. TypeOK'
  BY DEF Stages, Statuses, Early, Late, Validated, Owned, Shape
<1>2. StageInv'
  BY DEF RegistryInv, Early, Late, Validated, Owned
<1>3. RegistryInv'
  BY DEF RegistryInv, Late, Owned
<1>4. RefusedNeverForwarded' /\ ForwardedIsCharged' /\ AuditAgrees'
  BY DEF Early, Late, RefusedNeverForwarded, ForwardedIsCharged, AuditAgrees, Refusals
<1>5. SessionIsolation'
  BY DEF Validated, Late, SessionIsolation, Owned
<1> QED BY <1>1, <1>2, <1>3, <1>4, <1>5

(* IInv is preserved by Unhandled. *)
LEMMA UnhandledStep ==
  ASSUME IInv, NEW w \in Workers, Unhandled(w)
  PROVE  IInv'
<1> USE DEF IInv, TypeOK, StageInv, Unhandled
<1>1. TypeOK'
  BY DEF Stages, Statuses, Early, Late, Validated, Owned, Shape
<1>2. StageInv'
  BY DEF RegistryInv, Early, Late, Validated, Owned
<1>3. RegistryInv'
  BY DEF RegistryInv, Late, Owned
<1>4. RefusedNeverForwarded' /\ ForwardedIsCharged' /\ AuditAgrees'
  BY DEF Early, Late, RefusedNeverForwarded, ForwardedIsCharged, AuditAgrees, Refusals
<1>5. SessionIsolation'
  BY DEF Validated, Late, SessionIsolation, Owned
<1> QED BY <1>1, <1>2, <1>3, <1>4, <1>5

(* An expired session is one owner less in the registry. *)
LEMMA ExpireStep ==
  ASSUME IInv, NEW s \in Ids, Expire(s)
  PROVE  IInv'
<1> USE DEF IInv, TypeOK, Expire
<1>1. TypeOK'
  OBVIOUS
<1>2. StageInv'
  BY DEF StageInv, Owned
<1>3. RegistryInv'
  BY DEF RegistryInv, Owned
<1>4. RefusedNeverForwarded' /\ ForwardedIsCharged' /\ AuditAgrees'
  BY DEF RefusedNeverForwarded, ForwardedIsCharged, AuditAgrees
<1>5. SessionIsolation'
  BY DEF SessionIsolation, Owned
<1> QED BY <1>1, <1>2, <1>3, <1>4, <1>5

(* The inductive invariant holds throughout: see IInv. *)
THEOREM InductiveInvariant == Spec => []IInv
<1>1. IInv /\ [Next]_vars => IInv'
  <2> SUFFICES ASSUME IInv, [Next]_vars PROVE IInv'
    OBVIOUS
  <2>1. ASSUME NEW w \in Workers, Receive(w) \/ Step(w) PROVE IInv'
    BY <2>1, ReceiveStep, RunPreAuthChecksStep, ResolveServerStep, ValidateSessionStep,
       AuthorizeStep, TerminateStep, CheckRateLimitStep, DeleteTerminatedStep,
       DryRunOrMeterStep, ForwardStep, ForwardTerminateStep, HandleResponseStep,
       PersistLookupStep, PersistDeleteStep, PersistRecordStep, DeliverStep,
       UnhandledStep
       DEF Step
  <2>2. ASSUME NEW s \in Ids, Expire(s) PROVE IInv'
    BY <2>2, ExpireStep
  <2>3. CASE UNCHANGED vars
    <3>1. TypeOK'
      BY <2>3 DEF vars, IInv, TypeOK
    <3>2. StageInv' /\ RegistryInv' /\ SessionIsolation'
      BY <2>3 DEF vars, IInv, StageInv, RegistryInv, SessionIsolation, Owned
    <3>3. RefusedNeverForwarded' /\ ForwardedIsCharged' /\ AuditAgrees'
      BY <2>3 DEF vars, IInv, RefusedNeverForwarded, ForwardedIsCharged, AuditAgrees
    <3> QED BY <3>1, <3>2, <3>3 DEF IInv
  <2> QED BY <2>1, <2>2, <2>3 DEF Next
<1> QED BY InitIInv, <1>1, PTL DEF Spec

(* The variables keep their types. *)
THEOREM TypeCorrect == Spec => []TypeOK
<1>1. IInv => TypeOK
  BY DEF IInv
<1> QED BY InductiveInvariant, <1>1, PTL

(* A request that a check of the pipeline refused was never sent upstream. *)
THEOREM RefusedStaysInside == Spec => []RefusedNeverForwarded
<1>1. IInv => RefusedNeverForwarded
  BY DEF IInv
<1> QED BY InductiveInvariant, <1>1, PTL

(* Every forwarded request used exactly one admission of the rate limiter. *)
THEOREM ForwardsAreCharged == Spec => []ForwardedIsCharged
<1>1. IInv => ForwardedIsCharged
  BY DEF IInv
<1> QED BY InductiveInvariant, <1>1, PTL

(* No request is forwarded with a session id that no upstream issued to its
   tenant, subject and server. *)
THEOREM SessionsAreIsolated == Spec => []SessionIsolation
<1>1. IInv => SessionIsolation
  BY DEF IInv
<1> QED BY InductiveInvariant, <1>1, PTL

(* The audit events of a request agree with its fate. *)
THEOREM AuditTrailAgrees == Spec => []AuditAgrees
<1>1. IInv => AuditAgrees
  BY DEF IInv
<1> QED BY InductiveInvariant, <1>1, PTL
=============================================================================
