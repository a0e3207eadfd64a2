------------------------------ MODULE AuditChain ------------------------------
(***************************************************************************)
(* The per-tenant hash chain of the audit log: AuditRepository.create and  *)
(* verify_chain (repositories/audit.py), its caller record_event with the  *)
(* file dead-letter queue (observability/audit.py, audit_dlq.py), and the  *)
(* retention operations of audit/tamper.py.                                *)
(*                                                                         *)
(* A table is a set of rows: Postgres orders it only by created_at, and    *)
(* rows with equal created_at come back in any order.                      *)
(***************************************************************************)
EXTENDS Integers, FiniteSets

CONSTANTS Events,       \* the audit events requests want to record
          Tenants,
          NoTenant,     \* tenant_id = None (failed authentication)
          TenantOf,     \* [Events -> Tenants \cup {NoTenant}]
          VerifyLimit,  \* the limit=10000 of verify_chain
          Unreliable,   \* bound: the events whose connection may fail
          MaxClock      \* bound: last reading of the wall clock

ASSUME ConstantsAssumption ==
  /\ IsFiniteSet(Events)
  /\ NoTenant \notin Tenants
  /\ TenantOf \in [Events -> Tenants \cup {NoTenant}]
  /\ VerifyLimit \in Nat \ {0}
  /\ Unreliable \subseteq Events
  /\ MaxClock \in Nat

VARIABLES
  clock,       \* datetime.now(UTC), read by every writer
  rows,        \* the audit_log table
  state,       \* [Events -> progress of the record_event call of that event]
  now,         \* [Events -> the timestamp the call took]
  prev,        \* [Events -> the prev_hash the call read under the lock]
  disordered,  \* history: tenants some row of which was committed with a
               \* created_at not after that of every row already there
  unlocked,    \* history: tenants for an append of which the lock statement
               \* found no connection
  purged       \* history: purge_expired_entries deleted a row

vars == <<clock, rows, state, now, prev, disordered, unlocked, purged>>

NoHash == <<>>  \* prev_hash = None

(* _compute_entry_hash: SHA-256 over the sorted JSON of the row, as a free
   constructor of what it covers. The detail it covers is the event, and the
   "archived" mark that archive_old_entries adds to it. *)
EntryHash(p, e, archived, at) == <<p, e, archived, at>>

RowsOf(t) == {r \in rows : r.tenant = t}

(* The rows ORDER BY created_at DESC LIMIT 1 may return. *)
NewestOf(S) == {r \in S : \A q \in S : q.at <= r.at}

Appending == {"locked", "unlocked"}
Pending == {"stamped"} \cup Appending
Settled == {"recorded", "failed"}

(* A row has its event's tenant and a reading of the clock, and every append is at one of its steps. *)
TypeOK ==
  /\ clock \in 0..MaxClock
  /\ \A r \in rows : /\ r.event \in Events
                     /\ r.tenant = TenantOf[r.event]
                     /\ r.at \in 0..MaxClock
                     /\ r.archived \in BOOLEAN
  /\ state \in [Events -> {"new"} \cup Pending \cup Settled]
  /\ now \in [Events -> 0..MaxClock]
  /\ DOMAIN prev = Events
  /\ disordered \subseteq Tenants
  /\ unlocked \subseteq Tenants
  /\ purged \in BOOLEAN

Init ==
  /\ clock = 0
  /\ rows = {}
  /\ state = [e \in Events |-> "new"]
  /\ now = [e \in Events |-> 0]
  /\ prev = [e \in Events |-> NoHash]
  /\ disordered = {}
  /\ unlocked = {}
  /\ purged = FALSE

Tick ==
  /\ clock < MaxClock
  /\ clock' = clock + 1
  /\ UNCHANGED <<rows, state, now, prev, disordered, unlocked, purged>>

-----------------------------------------------------------------------------
(* record_event opens its own session and calls create, which reads the
   clock before it asks for the tenant's advisory lock. *)
Stamp(e) ==
  /\ state[e] = "new"
  /\ state' = [state EXCEPT ![e] = "stamped"]
  /\ now' = [now EXCEPT ![e] = clock]
  /\ UNCHANGED <<clock, rows, prev, disordered, unlocked, purged>>

\* mutant: pg_advisory_lock, which outlives the transaction
LockHoldersOfSession(t) ==
  {e \in Events : state[e] \in {"locked", "recorded"} /\ TenantOf[e] = t}

LockHolders(t) == {e \in Events : state[e] = "locked" /\ TenantOf[e] = t}

\* mutant: the head is read without the lock
ReadHeadUnlocked(e) ==
  /\ state[e] = "stamped"
  /\ \/ \E head \in NewestOf(RowsOf(TenantOf[e])) : prev' = [prev EXCEPT ![e] = head.hash]
     \/ RowsOf(TenantOf[e]) = {} /\ UNCHANGED prev
  /\ state' = [state EXCEPT ![e] = "locked"]
  /\ UNCHANGED <<clock, rows, now, disordered, unlocked, purged>>

(* pg_advisory_xact_lock on the tenant, then the head of its chain. Without a
   tenant neither is done. *)
LockAndReadHead(e) ==
  LET t == TenantOf[e] IN
  /\ state[e] = "stamped"
  /\ t # NoTenant => LockHolders(t) = {}
  /\ \/ /\ t # NoTenant
        /\ \E head \in NewestOf(RowsOf(t)) : prev' = [prev EXCEPT ![e] = head.hash]
     \/ /\ t = NoTenant \/ RowsOf(t) = {}
        /\ prev' = [prev EXCEPT ![e] = NoHash]
  /\ state' = [state EXCEPT ![e] = "locked"]
  /\ UNCHANGED <<clock, rows, now, disordered, unlocked, purged>>

(* The lock statement fails to get a connection. create ignores the error and
   goes on: the head query, whose own failure is ignored as well, and the
   insert run without the lock. An error of a statement that did reach
   Postgres aborts the transaction and is a Fail. *)
LockUnavailable(e) ==
  LET t == TenantOf[e] IN
  /\ state[e] = "stamped"
  /\ t # NoTenant /\ e \in Unreliable
  /\ \/ \E head \in NewestOf(RowsOf(t)) : prev' = [prev EXCEPT ![e] = head.hash]
     \/ prev' = [prev EXCEPT ![e] = NoHash]
  /\ state' = [state EXCEPT ![e] = "unlocked"]
  /\ unlocked' = unlocked \cup {t}
  /\ UNCHANGED <<clock, rows, now, disordered, purged>>

\* mutant: created_at is the server's default, not the hashed timestamp
NewRowServerTime(e) ==
  [event |-> e, tenant |-> TenantOf[e], at |-> clock, prev |-> prev[e],
   archived |-> FALSE, hash |-> EntryHash(prev[e], e, FALSE, now[e])]

NewRow(e) ==
  [event |-> e, tenant |-> TenantOf[e], at |-> now[e], prev |-> prev[e],
   archived |-> FALSE, hash |-> EntryHash(prev[e], e, FALSE, now[e])]

Insert(e) ==
  /\ state[e] \in Appending
  /\ rows' = rows \cup {NewRow(e)}
  /\ disordered' = disordered \cup
       {t \in {TenantOf[e]} \ {NoTenant} : \E r \in RowsOf(t) : now[e] <= r.at}
  /\ UNCHANGED <<clock, now, prev, unlocked, purged>>

\* mutant: record_event tries once more when it gets no answer
CommitRetried(e) ==
  /\ Insert(e)
  /\ state' = [state EXCEPT ![e] = "recorded"] \/ state' = [state EXCEPT ![e] = "stamped"]

(* flush and commit: the row becomes visible and the transaction-scoped lock
   is released. The answer to the COMMIT may be lost, which record_event takes
   for a failed write. *)
Commit(e) ==
  /\ Insert(e)
  /\ \/ state' = [state EXCEPT ![e] = "recorded"]
     \/ e \in Unreliable /\ state' = [state EXCEPT ![e] = "failed"]

(* A database error before that rolls the transaction back. record_event
   spills a failed event to the dead-letter file, or loses it when there is no
   file or it cannot be written; it never raises. *)
Fail(e) ==
  /\ state[e] \in Pending /\ e \in Unreliable
  /\ state' = [state EXCEPT ![e] = "failed"]
  /\ UNCHANGED <<clock, rows, now, prev, disordered, unlocked, purged>>

-----------------------------------------------------------------------------
(* AuditRetentionPolicy, run by an operator; the cutoff is now minus a number
   of days, so any instant up to now. *)
PurgeExpiredEntries(cutoff) ==
  /\ \E r \in rows : r.at < cutoff
  /\ rows' = {r \in rows : r.at >= cutoff}
  /\ purged' = TRUE
  /\ UNCHANGED <<clock, state, now, prev, disordered, unlocked>>

Archived(r) ==
  [event |-> r.event, tenant |-> r.tenant, at |-> r.at, prev |-> r.prev,
   archived |-> TRUE, hash |-> r.hash]

(* Marks the detail of every old row; entry_hash stays as it was. *)
ArchiveOldEntries(cutoff) ==
  /\ \E r \in rows : r.at < cutoff /\ ~r.archived
  /\ rows' = {IF r.at < cutoff THEN Archived(r) ELSE r : r \in rows}
  /\ UNCHANGED <<clock, state, now, prev, disordered, unlocked, purged>>

Record(e) ==
  Stamp(e) \/ LockAndReadHead(e) \/ LockUnavailable(e) \/ Commit(e) \/ Fail(e)

Retain(cutoff) == PurgeExpiredEntries(cutoff) \/ ArchiveOldEntries(cutoff)

Next ==
  \/ Tick
  \/ \E e \in Events : Record(e)
  \/ \E cutoff \in 0..clock : Retain(cutoff)

(* The event loop runs every call to its end. Postgres queues waiters of an
   advisory lock, so a waiting call is not overtaken for ever. *)
Fairness ==
  \A e \in Events : SF_vars(LockAndReadHead(e)) /\ WF_vars(Commit(e))

Spec == Init /\ [][Next]_vars

FairSpec == Spec /\ Fairness

-----------------------------------------------------------------------------
(* The newest VerifyLimit rows of the tenant: list(tenant_id, limit=10000). *)
Window(t) ==
  {r \in RowsOf(t) : Cardinality({q \in RowsOf(t) : q.at > r.at}) < VerifyLimit}

(* verify_chain returns True whatever order rows of equal created_at come in:
   walking the window oldest first from prev = None, every row points at the
   row before it and its hash recomputes. *)
VerifyChain(t) ==
  \A r \in Window(t) :
    LET before == {q \in Window(t) : q # r /\ q.at <= r.at} IN
    /\ before = {} => r.prev = NoHash
    /\ \A p \in NewestOf(before) : r.prev = p.hash
    /\ EntryHash(r.prev, r.event, r.archived, r.at) = r.hash

-----------------------------------------------------------------------------
(* The chain of a tenant has one beginning: the advisory lock makes only the
   first append of a tenant see an empty chain, until a purge empties it or an
   append goes on without the lock. *)
SingleRoot ==
  ~purged => \A r, s \in rows :
    (/\ r.tenant = s.tenant /\ r.tenant \in Tenants \ unlocked
     /\ r.prev = NoHash /\ s.prev = NoHash)
      => r = s

(* Until a purge, every row that is not a root points at a row of its own
   tenant that is still in the table, whether or not it got the lock: create
   never links across tenants or to an append that was rolled back. *)
LinksResolve ==
  ~purged => \A r \in rows :
    r.prev # NoHash => \E p \in rows : p.tenant = r.tenant /\ p.hash = r.prev

(* The log of a tenant is one tree until a purge: what create links, another
   create has committed, and two of them begin a chain only without the lock. *)
ChainIsLinked == SingleRoot /\ LinksResolve

(* When appends got the lock and reached the table in the order of their
   timestamps, nothing was purged or archived and the log fits the query's limit, verify_chain
   accepts the chain: create and verify_chain agree on what is hashed and on
   what is linked. *)
OrderlyChainVerifies ==
  \A t \in Tenants :
    /\ t \notin disordered \cup unlocked
    /\ ~purged
    /\ \A r \in RowsOf(t) : ~r.archived
    /\ Cardinality(RowsOf(t)) <= VerifyLimit
    => VerifyChain(t)

(* A row whose content is no longer what was hashed is reported, wherever in
   the verified window it is. *)
AlteredRowReported ==
  \A t \in Tenants : (\E r \in Window(t) : r.archived) => ~VerifyChain(t)

(* verify_chain can be relied on both ways: it accepts a log that was written in
   order and reports one of which a row was changed. *)
VerifyIsRight == OrderlyChainVerifies /\ AlteredRowReported

(* An event has at most one row, also when the answer to its COMMIT was lost
   and the event was spilled: record_event never writes again. A row in the
   table belongs to a call that has ended. *)
RecordedOnce ==
  /\ \A r, s \in rows : r.event = s.event => r = s
  /\ \A r \in rows : state[r.event] \in Settled

(* record_event always finishes: the lock wait of create ends, because every
   holder commits or rolls back. Each event is recorded by one call and there
   are finitely many, so every call ends if and only if a time comes again and
   again at which none is pending. *)
RecordFinishes ==
  (\E e \in Events : state[e] \in Pending)
    ~> (\A e \in Events : state[e] \notin Pending)

-----------------------------------------------------------------------------
(* The inductive invariant behind the properties above. *)

(* Rows are records of the table's columns, and entry_hash is the hash of the
   row as create inserted it. *)
RowsSealed ==
  \A r \in rows :
    /\ r = [event |-> r.event, tenant |-> r.tenant, at |-> r.at, prev |-> r.prev,
            archived |-> r.archived, hash |-> r.hash]
    /\ r.hash = EntryHash(r.prev, r.event, FALSE, r.at)

LockExclusive ==
  \A e, f \in Events :
    (state[e] = "locked" /\ state[f] = "locked"
       /\ TenantOf[e] = TenantOf[f] /\ TenantOf[e] # NoTenant) => e = f

(* What the lock holder read is still the head when it commits. *)
HeadIsCurrent ==
  ~purged => \A e \in Events :
    (state[e] = "locked" /\ TenantOf[e] \notin unlocked) =>
      \/ TenantOf[e] = NoTenant /\ prev[e] = NoHash
      \/ TenantOf[e] # NoTenant /\ RowsOf(TenantOf[e]) = {} /\ prev[e] = NoHash
      \/ TenantOf[e] # NoTenant
         /\ \E h \in NewestOf(RowsOf(TenantOf[e])) : prev[e] = h.hash

UnlockedKnown ==
  \A e \in Events : state[e] = "unlocked" => TenantOf[e] \in unlocked

(* What any call read as the head was a row of its own tenant. *)
HeadResolves ==
  ~purged => \A e \in Events :
    prev[e] # NoHash => \E p \in rows : p.tenant = TenantOf[e] /\ p.hash = prev[e]

(* Row r of tenant t continues the row before it in created_at order. *)
Continues(r, t) ==
  LET before == {q \in RowsOf(t) : q # r /\ q.at <= r.at} IN
  /\ \A q \in before : q.at < r.at
  /\ before = {} => r.prev = NoHash
  /\ \A p \in NewestOf(before) : r.prev = p.hash

OrderlyChainLinked ==
  ~purged => \A t \in Tenants \ (disordered \cup unlocked) : \A r \in RowsOf(t) : Continues(r, t)

IInv ==
  /\ TypeOK
  /\ RecordedOnce
  /\ RowsSealed
  /\ LockExclusive
  /\ HeadIsCurrent
  /\ UnlockedKnown
  /\ HeadResolves
  /\ OrderlyChainLinked
  /\ SingleRoot
  /\ LinksResolve

-----------------------------------------------------------------------------
(* What the comment of create claims: "two writers cannot fork prev_hash",
   here even for appends that got the lock and have different timestamps. *)
NoFork ==
  (~purged /\ \A r, s \in rows : r.at = s.at => r = s) => \A r, s \in rows :
    (r.tenant = s.tenant /\ r.tenant \in Tenants \ unlocked /\ r.prev = s.prev) => r = s

(* What scripts/audit_retention.py says of pruning: "the oldest surviving row
   keeps its prev_hash pointer (chain verification starts there)". *)
PrunedChainVerifies ==
  \A t \in Tenants :
    /\ t \notin disordered \cup unlocked
    /\ \A r \in RowsOf(t) : ~r.archived
    /\ Cardinality(RowsOf(t)) <= VerifyLimit
    => VerifyChain(t)
=============================================================================
