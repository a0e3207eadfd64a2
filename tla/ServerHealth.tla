---------------------------- MODULE ServerHealth -----------------------------
(***************************************************************************)
(* The registry of upstream servers of one tenant (gateway/registry.py,     *)
(* repositories/servers.py, api/servers.py) and the probes that open and    *)
(* close its circuits (gateway/health_monitor.py): every replica runs the   *)
(* monitor loop, admins edit the registry and trigger probes meanwhile.     *)
(* Sessions read a row, compute in Python and write back the columns that   *)
(* they changed; nothing locks the row in between.                          *)
(***************************************************************************)
EXTENDS Integers, FiniteSets

CONSTANTS Replicas,   \* monitor loops
          Probers,    \* requests to POST /v1/servers/{slug}/health
          Admins,     \* requests that create, update or delete servers
          Rows,       \* bound: rows of mcp_servers ever created
          Slugs, Urls,
          Threshold,  \* health_check_failure_threshold
          Limit,      \* server_limit of the license
          Nil, Deleted

ASSUME HealthAssumption ==
  /\ Threshold \in Nat \ {0} /\ Limit \in Nat \ {0}
  /\ Nil # Deleted /\ Nil \notin BOOLEAN

Status == {"active", "unhealthy", "disabled"}

VARIABLES
  servers,   \* [Rows -> the row, Nil before it is created, Deleted after]
  up,        \* the urls whose health check succeeds at the moment
  targets,   \* [Replicas -> what run_once has still to check]
  results,   \* [Replicas -> results it has still to persist]
  loaded,    \* [Replicas \cup Probers -> the row a session has read, or Nil]
  creating,  \* [Admins -> the slug whose license check passed, or Nil]
  failed     \* history: failed checks reported to the row, up to Threshold

healthVars == <<servers, up, targets, results, loaded, creating, failed>>

Sessions == Replicas \cup Probers

(* The counter is only compared with the threshold: it saturates there. *)
Incremented(n) == IF n < Threshold THEN n + 1 ELSE n

Row == [slug : Slugs, url : Urls, status : Status, failures : 0..Threshold]
Live == {i \in Rows : servers[i] \notin {Nil, Deleted}}
Loaded == [row : Rows, url : Urls, status : Status, failures : 0..Threshold,
           healthy : BOOLEAN \cup {Nil}]

ASSUME RowAssumption == Nil \notin Row \cup Loaded /\ Deleted \notin Row

(* Slugs are unique, and a session holds a row that was created. *)
HealthTypeOK ==
  /\ servers \in [Rows -> Row \cup {Nil, Deleted}]
  /\ \A i, j \in Live : servers[i].slug = servers[j].slug => i = j
  /\ up \subseteq Urls
  /\ targets \in [Replicas -> SUBSET (Slugs \X Urls)]
  /\ results \in [Replicas -> SUBSET (Slugs \X BOOLEAN)]
  /\ loaded \in [Sessions -> Loaded \cup {Nil}]
  /\ \A p \in Sessions : loaded[p] # Nil => servers[loaded[p].row] # Nil
  /\ creating \in [Admins -> Slugs \cup {Nil}]
  /\ failed \in [Rows -> 0..Threshold]

(* The gateway starts over a registry with one server. *)
HealthInit ==
  /\ \E i \in Rows, s \in Slugs, u \in Urls :
       servers = [j \in Rows |->
                    IF j = i THEN [slug |-> s, url |-> u, status |-> "active", failures |-> 0]
                    ELSE Nil]
  /\ up \in SUBSET Urls
  /\ targets = [r \in Replicas |-> {}]
  /\ results = [r \in Replicas |-> {}]
  /\ loaded = [p \in Sessions |-> Nil]
  /\ creating = [a \in Admins |-> Nil]
  /\ failed = [i \in Rows |-> 0]

-----------------------------------------------------------------------------
(* Upstreams come and go. *)
Flip(u) ==
  /\ up' = IF u \in up THEN up \ {u} ELSE up \cup {u}
  /\ UNCHANGED <<servers, targets, results, loaded, creating, failed>>

(* run_once, the short read transaction: active and unhealthy servers only. *)
RunOnce(r) ==
  /\ targets[r] = {} /\ results[r] = {} /\ loaded[r] = Nil
  /\ targets' = [targets EXCEPT ![r] =
       {<<servers[i].slug, servers[i].url>> :
          i \in {j \in Live : servers[j].status \in {"active", "unhealthy"}}}]
  /\ targets'[r] # {}
  /\ UNCHANGED <<servers, up, results, loaded, creating, failed>>

(* _probe_one: the network check, in any order. *)
CheckUrl(r, t) ==
  /\ t \in targets[r]
  /\ targets' = [targets EXCEPT ![r] = @ \ {t}]
  /\ results' = [results EXCEPT ![r] = @ \cup {<<t[1], t[2] \in up>>}]
  /\ UNCHANGED <<servers, up, loaded, creating, failed>>

CountFailure(i, healthy) ==
  failed' = IF healthy THEN failed ELSE [failed EXCEPT ![i] = Incremented(@)]

Snapshot(i, healthy) ==
  [row |-> i, url |-> servers[i].url, status |-> servers[i].status,
   failures |-> servers[i].failures, healthy |-> healthy]

(* After gather, one session per result reads the row by slug: a server that is
   gone or renamed is skipped. *)
Load(r, x) ==
  /\ targets[r] = {} /\ loaded[r] = Nil
  /\ x \in results[r]
  /\ results' = [results EXCEPT ![r] = @ \ {x}]
  /\ LET found == {i \in Live : servers[i].slug = x[1]}
     IN  \/ found = {} /\ UNCHANGED <<loaded, failed>>
         \/ \E i \in found : /\ loaded' = [loaded EXCEPT ![r] = Snapshot(i, x[2])]
                             /\ CountFailure(i, x[2])
  /\ UNCHANGED <<servers, up, targets, creating>>

(* trigger_health_probe reads the row, whatever its status, before it probes. *)
TriggerHealthProbe(p, i) ==
  /\ loaded[p] = Nil
  /\ i \in Live
  /\ loaded' = [loaded EXCEPT ![p] = Snapshot(i, Nil)]
  /\ UNCHANGED <<servers, up, targets, results, creating, failed>>

Probe(p) ==
  /\ loaded[p] # Nil /\ loaded[p].healthy = Nil
  /\ LET healthy == loaded[p].url \in up
     IN  /\ loaded' = [loaded EXCEPT ![p] =
              [row |-> @.row, url |-> @.url, status |-> @.status,
               failures |-> @.failures, healthy |-> healthy]]
         /\ CountFailure(loaded[p].row, healthy)
  /\ UNCHANGED <<servers, up, targets, results, creating>>

\* mutant: the circuit opens one failure early
AppliedEarly(l) ==
  IF l.healthy
  THEN [status |-> IF l.status = "unhealthy" THEN "active" ELSE l.status, failures |-> 0]
  ELSE [status |-> IF Incremented(l.failures) + 1 >= Threshold THEN "unhealthy" ELSE l.status,
        failures |-> Incremented(l.failures)]

\* mutant: a success clears the counter and leaves the circuit open
AppliedNoRecovery(l) ==
  IF l.healthy
  THEN [status |-> l.status, failures |-> 0]
  ELSE [status |-> IF Incremented(l.failures) >= Threshold THEN "unhealthy" ELSE l.status,
        failures |-> Incremented(l.failures)]

(* _apply_result, on the row as the session read it. *)
Applied(l) ==
  IF l.healthy
  THEN [status |-> IF l.status = "unhealthy" THEN "active" ELSE l.status, failures |-> 0]
  ELSE [status |-> IF Incremented(l.failures) >= Threshold THEN "unhealthy" ELSE l.status,
        failures |-> Incremented(l.failures)]

(* The commit writes the columns that changed in the session. A row that was
   deleted meanwhile is an error, logged or answered with a 500. *)
Commit(p) ==
  LET l == loaded[p]
      new == Applied(l)
  IN  /\ l # Nil /\ l.healthy # Nil
      /\ loaded' = [loaded EXCEPT ![p] = Nil]
      /\ servers' = IF l.row \notin Live THEN servers ELSE
           [servers EXCEPT ![l.row] =
              [slug |-> @.slug, url |-> @.url,
               status |-> IF new.status # l.status THEN new.status ELSE @.status,
               failures |-> IF l.healthy /\ l.failures = 0 THEN @.failures ELSE new.failures]]
      /\ UNCHANGED <<up, targets, results, creating, failed>>

(* The database is out of reach: the result is lost, the pass goes on. *)
PersistFailed(p) ==
  /\ loaded[p] # Nil /\ loaded[p].healthy # Nil
  /\ loaded' = [loaded EXCEPT ![p] = Nil]
  /\ UNCHANGED <<servers, up, targets, results, creating, failed>>

-----------------------------------------------------------------------------
(* RegistryService.create: the count of servers is compared with the license. *)
RequireLicense(a, s) ==
  /\ creating[a] = Nil
  /\ Cardinality(Live) + 1 <= Limit
  /\ creating' = [creating EXCEPT ![a] = s]
  /\ UNCHANGED <<servers, up, targets, results, loaded, failed>>

(* The insert, or a 409 for a slug that is taken. *)
Insert(a, i, u) ==
  /\ creating[a] # Nil
  /\ creating' = [creating EXCEPT ![a] = Nil]
  /\ IF \E j \in Live : servers[j].slug = creating[a]
     THEN UNCHANGED servers
     ELSE /\ servers[i] = Nil
          /\ servers' = [servers EXCEPT ![i] = [slug |-> creating[a], url |-> u,
                                                status |-> "active", failures |-> 0]]
  /\ UNCHANGED <<up, targets, results, loaded, failed>>

(* RegistryService.update with the fields that matter here; the counter of
   failures is not touched. *)
Update(i, s, u, status) ==
  /\ i \in Live
  /\ \A j \in Live \ {i} : servers[j].slug # s
  /\ servers' = [servers EXCEPT ![i] = [slug |-> s, url |-> u, status |-> status,
                                        failures |-> @.failures]]
  /\ servers' # servers
  /\ UNCHANGED <<up, targets, results, loaded, creating, failed>>

Delete(i) ==
  /\ i \in Live
  /\ servers' = [servers EXCEPT ![i] = Deleted]
  /\ UNCHANGED <<up, targets, results, loaded, creating, failed>>

Admin ==
  \/ \E a \in Admins, s \in Slugs : RequireLicense(a, s)
  \/ \E a \in Admins, i \in Rows, u \in Urls : Insert(a, i, u)
  \/ /\ Admins # {}
     /\ \E i \in Rows : \/ Delete(i)
                        \/ \E s \in Slugs, u \in Urls, status \in Status : Update(i, s, u, status)

HealthNext ==
  \/ \E u \in Urls : Flip(u)
  \/ \E r \in Replicas : \/ RunOnce(r)
                         \/ \E t \in Slugs \X Urls : CheckUrl(r, t)
                         \/ \E x \in Slugs \X BOOLEAN : Load(r, x)
  \/ \E p \in Probers : (\E i \in Rows : TriggerHealthProbe(p, i)) \/ Probe(p)
  \/ \E p \in Sessions : Commit(p) \/ PersistFailed(p)
  \/ Admin

HealthSpec == HealthInit /\ [][HealthNext]_healthVars

(* The loop of start() goes round for ever: probes time out, exceptions are
   caught. A commit that is tried again and again succeeds at last. *)
FairSpec ==
  /\ HealthSpec
  /\ \A r \in Replicas :
       /\ WF_healthVars(RunOnce(r))
       /\ \A t \in Slugs \X Urls : WF_healthVars(CheckUrl(r, t))
       /\ \A x \in Slugs \X BOOLEAN : WF_healthVars(Load(r, x))
       /\ SF_healthVars(Commit(r))
  /\ \A p \in Probers : WF_healthVars(Probe(p)) /\ WF_healthVars(Commit(p) \/ PersistFailed(p))

-----------------------------------------------------------------------------
(* No false alarm: a probe opens the circuit of a server only if Threshold failed
   checks have been reported to it, however the replicas and the manual probes
   overwrite each other's counts and whatever admins edit meanwhile. *)
NoFalseAlarm ==
  [][\A p \in Sessions, i \in Rows :
       Commit(p) /\ i \in Live /\ servers[i].status # "unhealthy" /\ servers'[i].status = "unhealthy"
       => failed[i] = Threshold]_healthVars

(* Self-healing: once admins leave the registry alone, a server whose upstream
   stays up does not stay unhealthy, in spite of late results of failed checks
   and lost updates of the counter. *)
Recovers ==
  \A i \in Rows : <>[][~Admin]_healthVars /\ <>[](i \in Live /\ servers[i].url \in up)
                  => <>[](i \in Live /\ servers[i].status # "unhealthy")

(* Circuit breaking: likewise, a server whose upstream stays down does not stay
   active, in spite of updates of the counter that overwrite each other. *)
OpensCircuit ==
  \A i \in Rows : <>[][~Admin]_healthVars /\ <>[](i \in Live /\ servers[i].url \notin up)
                  => <>[](i \in Live /\ servers[i].status # "active")

(* In the long run the status follows the upstream, in both directions. *)
CircuitFollows == Recovers /\ OpensCircuit

-----------------------------------------------------------------------------
(* Why NoFalseAlarm holds: neither a row nor a session that has read one counts
   more failures than were reported to the row, the one it is about to write
   included. *)
CountInv ==
  /\ \A i \in Live : servers[i].failures <= failed[i]
  /\ \A p \in Sessions : loaded[p] # Nil =>
       /\ loaded[p].failures <= failed[loaded[p].row]
       /\ loaded[p].healthy = FALSE => Incremented(loaded[p].failures) <= failed[loaded[p].row]

-----------------------------------------------------------------------------
(* test_run_once_skips_disabled_servers: "DISABLED servers are excluded". Only
   an admin takes a server out of the status disabled. *)
DisabledStays ==
  [][\A p \in Sessions, i \in Rows :
       Commit(p) /\ i \in Live /\ servers[i].status = "disabled"
       => servers'[i].status = "disabled"]_healthVars

(* registry.py: "Enforce license entitlement before allowing a new server
   registration". *)
WithinLicense == Cardinality(Live) <= Limit
=============================================================================
