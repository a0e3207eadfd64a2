----------------------------- MODULE StoresProofs -----------------------------
(***************************************************************************)
(* The two stores of the system that many write and that a later reader    *)
(* relies on. The audit chain: the safety properties of AuditChain, for    *)
(* any set of events and tenants, any clock bound and any verification     *)
(* limit. The console's cache of the backend's lists: ConsoleCache         *)
(* implements ConsoleView and keeps ReadYourWrites, whatever the queries,  *)
(* the pages and the handlers are; with those of the console, it also      *)
(* keeps PagesAreTold.                                                     *)
(***************************************************************************)
EXTENDS AuditChain, ConsoleCache, FiniteSetTheorems, TLAPS

-----------------------------------------------------------------------------
(* The audit chain.                                                        *)

(* The fields of the row that record writes. *)
LEMMA NewRowFields ==
  ASSUME NEW e
  PROVE  /\ NewRow(e).event = e
         /\ NewRow(e).tenant = TenantOf[e]
         /\ NewRow(e).at = now[e]
         /\ NewRow(e).prev = prev[e]
         /\ NewRow(e).archived = FALSE
         /\ NewRow(e).hash = EntryHash(prev[e], e, FALSE, now[e])
         /\ NewRow(e) = [event |-> e, tenant |-> TenantOf[e], at |-> now[e],
                         prev |-> prev[e], archived |-> FALSE,
                         hash |-> EntryHash(prev[e], e, FALSE, now[e])]
BY DEF NewRow

(* The row archive_old_entries leaves for r. *)
Kept(r, cutoff) == IF r.at < cutoff THEN Archived(r) ELSE r

(* Archiving keeps what the hash covers, except the flag. *)
LEMMA KeptFields ==
  ASSUME RowsSealed, NEW r \in rows, NEW cutoff
  PROVE  LET k == Kept(r, cutoff) IN
         /\ k.event = r.event
         /\ k.tenant = r.tenant
         /\ k.at = r.at
         /\ k.prev = r.prev
         /\ k.hash = r.hash
         /\ k.archived = TRUE \/ k.archived = r.archived
         /\ k = [event |-> k.event, tenant |-> k.tenant, at |-> k.at,
                 prev |-> k.prev, archived |-> k.archived, hash |-> k.hash]
<1>1. CASE r.at < cutoff
  BY <1>1 DEF Kept, Archived
<1>2. CASE ~(r.at < cutoff)
  BY <1>2 DEF Kept, RowsSealed
<1> QED
  BY <1>1, <1>2

(* A row always has a hash. *)
LEMMA HashIsNotNone ==
  ASSUME NEW p, NEW e, NEW a, NEW at
  PROVE  EntryHash(p, e, a, at) # NoHash
BY DEF EntryHash, NoHash

(* An empty log satisfies the invariant. *)
THEOREM InitIInv == Init => IInv
<1> SUFFICES ASSUME Init PROVE IInv
  OBVIOUS
<1>1. TypeOK
  <2>1. purged \in BOOLEAN
    BY DEF Init
  <2> QED
    BY <2>1, ConstantsAssumption DEF ConstantsAssumption, Init, TypeOK
<1>2. RecordedOnce /\ RowsSealed /\ SingleRoot /\ LinksResolve
  BY DEF Init, RecordedOnce, RowsSealed, SingleRoot, LinksResolve
<1>3. LockExclusive /\ HeadIsCurrent /\ UnlockedKnown /\ HeadResolves
  BY DEF Init, LockExclusive, HeadIsCurrent, UnlockedKnown, HeadResolves
<1>4. OrderlyChainLinked
  BY DEF Init, OrderlyChainLinked, RowsOf
<1> QED
  BY <1>1, <1>2, <1>3, <1>4 DEF IInv

(* Steps that leave the table alone. *)
LEMMA TableUntouched ==
  ASSUME IInv, UNCHANGED <<rows, disordered, purged>>,
         unlocked \subseteq unlocked'
  PROVE  RowsSealed' /\ OrderlyChainLinked' /\ SingleRoot' /\ LinksResolve'
<1>1. RowsSealed' /\ SingleRoot' /\ LinksResolve'
  BY DEF IInv, RowsSealed, SingleRoot, LinksResolve
<1>2. \A t : RowsOf(t)' = RowsOf(t)
  BY DEF RowsOf
<1>3. \A t, r : Continues(r, t) => Continues(r, t)'
  BY <1>2 DEF Continues, NewestOf
<1>4. OrderlyChainLinked'
  BY <1>2, <1>3 DEF IInv, OrderlyChainLinked
<1> QED
  BY <1>1, <1>4

(* The clock preserves the invariant. *)
LEMMA TickIInv == IInv /\ Tick => IInv'
<1> SUFFICES ASSUME IInv, Tick PROVE IInv'
  OBVIOUS
<1>1. TypeOK'
  BY ConstantsAssumption DEF ConstantsAssumption, IInv, Tick, TypeOK
<1>2. RecordedOnce' /\ LockExclusive' /\ HeadIsCurrent'
  BY DEF IInv, Tick, RecordedOnce, LockExclusive, HeadIsCurrent, RowsOf, NewestOf
<1>3. UnlockedKnown' /\ HeadResolves'
  BY DEF IInv, Tick, UnlockedKnown, HeadResolves
<1> QED
  BY <1>1, <1>2, <1>3, TableUntouched DEF IInv, Tick

(* Stamping an event preserves it. *)
LEMMA StampIInv == ASSUME NEW e \in Events PROVE IInv /\ Stamp(e) => IInv'
<1> SUFFICES ASSUME IInv, Stamp(e) PROVE IInv'
  OBVIOUS
<1>1. TypeOK'
  BY DEF IInv, Stamp, TypeOK, Pending, Appending
<1>2. RecordedOnce'
  BY DEF IInv, Stamp, RecordedOnce, TypeOK, Settled
<1>3. LockExclusive'
  BY DEF IInv, Stamp, LockExclusive, TypeOK
<1>4. HeadIsCurrent'
  BY DEF IInv, Stamp, HeadIsCurrent, TypeOK, RowsOf, NewestOf
<1>5. UnlockedKnown' /\ HeadResolves'
  BY DEF IInv, Stamp, UnlockedKnown, HeadResolves, TypeOK
<1> QED
  BY <1>1, <1>2, <1>3, <1>4, <1>5, TableUntouched DEF IInv, Stamp

(* Giving an event up preserves it. *)
LEMMA FailIInv == ASSUME NEW e \in Events PROVE IInv /\ Fail(e) => IInv'
<1> SUFFICES ASSUME IInv, Fail(e) PROVE IInv'
  OBVIOUS
<1>1. TypeOK'
  BY DEF IInv, Fail, TypeOK, Settled
<1>2. RecordedOnce'
  BY DEF IInv, Fail, RecordedOnce, TypeOK, Settled
<1>3. LockExclusive'
  BY DEF IInv, Fail, LockExclusive, TypeOK
<1>4. HeadIsCurrent'
  BY DEF IInv, Fail, HeadIsCurrent, TypeOK, RowsOf, NewestOf
<1>5. UnlockedKnown' /\ HeadResolves'
  BY DEF IInv, Fail, UnlockedKnown, HeadResolves, TypeOK
<1> QED
  BY <1>1, <1>2, <1>3, <1>4, <1>5, TableUntouched DEF IInv, Fail

(* Taking the lock and reading the head preserves it. *)
LEMMA LockIInv == ASSUME NEW e \in Events PROVE IInv /\ LockAndReadHead(e) => IInv'
<1> SUFFICES ASSUME IInv, LockAndReadHead(e) PROVE IInv'
  OBVIOUS
<1>0. /\ \A f \in Events \ {e} : prev'[f] = prev[f] /\ state'[f] = state[f]
      /\ state'[e] = "locked" /\ DOMAIN prev' = Events
  BY DEF IInv, LockAndReadHead, TypeOK
<1>1. TypeOK'
  BY <1>0 DEF IInv, LockAndReadHead, TypeOK, Pending, Appending
<1>2. RecordedOnce'
  BY DEF IInv, LockAndReadHead, RecordedOnce, TypeOK, Settled
<1>3. LockExclusive'
  BY DEF IInv, LockAndReadHead, LockExclusive, LockHolders, TypeOK
<1>4. HeadIsCurrent'
  <2>1. TenantOf[e] # NoTenant =>
          \/ RowsOf(TenantOf[e]) = {} /\ prev'[e] = NoHash
          \/ \E h \in NewestOf(RowsOf(TenantOf[e])) : prev'[e] = h.hash
    BY DEF IInv, TypeOK, LockAndReadHead
  <2> QED
    BY <2>1, <1>0 DEF IInv, HeadIsCurrent, LockAndReadHead, RowsOf, NewestOf
<1>5. UnlockedKnown'
  BY <1>0 DEF IInv, LockAndReadHead, UnlockedKnown
<1>6. HeadResolves'
  <2>1. prev'[e] # NoHash => \E p \in rows : p.tenant = TenantOf[e] /\ p.hash = prev'[e]
    BY DEF IInv, TypeOK, LockAndReadHead, NewestOf, RowsOf
  <2> QED
    BY <2>1, <1>0 DEF IInv, LockAndReadHead, HeadResolves
<1> QED
  BY <1>1, <1>2, <1>3, <1>4, <1>5, <1>6, TableUntouched DEF IInv, LockAndReadHead

(* An append without the lock takes its tenant out of what the lock protects,
   and still reads a row of its tenant. *)
LEMMA LockUnavailableIInv ==
  ASSUME NEW e \in Events PROVE IInv /\ LockUnavailable(e) => IInv'
<1> SUFFICES ASSUME IInv, LockUnavailable(e) PROVE IInv'
  OBVIOUS
<1>0. /\ \A f \in Events \ {e} : prev'[f] = prev[f] /\ state'[f] = state[f]
      /\ state'[e] = "unlocked" /\ DOMAIN prev' = Events
      /\ unlocked' = unlocked \cup {TenantOf[e]} /\ state[e] = "stamped"
      /\ UNCHANGED <<clock, rows, now, disordered, purged>>
  BY DEF IInv, LockUnavailable, TypeOK
<1>1. TypeOK'
  <2>1. unlocked' \subseteq Tenants
    BY ConstantsAssumption DEF ConstantsAssumption, IInv, LockUnavailable, TypeOK
  <2> QED
    BY <1>0, <2>1 DEF IInv, LockUnavailable, TypeOK, Pending, Appending
<1>2. RecordedOnce'
  BY <1>0 DEF IInv, RecordedOnce, TypeOK, Settled
<1>3. LockExclusive'
  BY <1>0 DEF IInv, LockExclusive
<1>4. HeadIsCurrent'
  BY <1>0 DEF IInv, HeadIsCurrent, RowsOf, NewestOf
<1>5. UnlockedKnown'
  BY <1>0 DEF IInv, UnlockedKnown
<1>6. HeadResolves'
  <2>1. prev'[e] # NoHash => \E p \in rows : p.tenant = TenantOf[e] /\ p.hash = prev'[e]
    BY DEF IInv, TypeOK, LockUnavailable, NewestOf, RowsOf
  <2> QED
    BY <2>1, <1>0 DEF IInv, HeadResolves
<1> QED
  BY <1>0, <1>1, <1>2, <1>3, <1>4, <1>5, <1>6, TableUntouched DEF IInv

(* A committed row is new: its event was not in the table before. *)
LEMMA CommitIInv == ASSUME NEW e \in Events PROVE IInv /\ Commit(e) => IInv'
<1> SUFFICES ASSUME IInv, Commit(e) PROVE IInv'
  OBVIOUS
<1> DEFINE n == NewRow(e)
           t == TenantOf[e]
<1>a. /\ n.event = e /\ n.tenant = t /\ n.at = now[e] /\ n.prev = prev[e]
      /\ n.archived = FALSE /\ n.hash = EntryHash(prev[e], e, FALSE, now[e])
  BY NewRowFields
<1>b. /\ rows' = rows \cup {n} /\ UNCHANGED <<clock, now, prev, unlocked, purged>>
      /\ \A f \in Events \ {e} : state'[f] = state[f]
      /\ state'[e] \in Settled /\ state[e] \in Appending
      /\ state' \in [Events -> {"new"} \cup Pending \cup Settled]
  BY DEF Commit, Insert, IInv, TypeOK, Settled
<1>c. \A r \in rows : r.event # e
  BY <1>b DEF IInv, RecordedOnce, Settled, Appending
<1>d. \A r \in rows : r.at \in Int /\ now[e] \in Int
  BY DEF IInv, TypeOK
<1>e. \A u : u # t => RowsOf(u)' = RowsOf(u)
  BY <1>a, <1>b DEF RowsOf
<1>f. RowsOf(t)' = RowsOf(t) \cup {n} /\ n \notin RowsOf(t)
  BY <1>a, <1>b, <1>c DEF RowsOf
<1> HIDE DEF n
<1>1. TypeOK'
  <2>1. disordered' \subseteq Tenants
    BY ConstantsAssumption DEF ConstantsAssumption, Commit, Insert, IInv, TypeOK
  <2>2. \A r \in rows' : /\ r.event \in Events /\ r.tenant = TenantOf[r.event]
                        /\ r.at \in 0..MaxClock /\ r.archived \in BOOLEAN
    BY <1>a, <1>b DEF IInv, TypeOK
  <2> QED
    BY <1>b, <2>1, <2>2 DEF IInv, TypeOK
<1>2. RecordedOnce'
  BY <1>a, <1>b, <1>c DEF IInv, RecordedOnce, TypeOK
<1>3. RowsSealed'
  <2>1. n = [event |-> n.event, tenant |-> n.tenant, at |-> n.at, prev |-> n.prev,
             archived |-> n.archived, hash |-> n.hash]
    BY <1>a, NewRowFields DEF n
  <2> QED
    BY <1>a, <1>b, <2>1 DEF IInv, RowsSealed
<1>4. LockExclusive'
  BY <1>b DEF IInv, LockExclusive, Settled
<1>5. HeadIsCurrent'
  <2> SUFFICES ASSUME ~purged', NEW f \in Events, state'[f] = "locked", TenantOf[f] \notin unlocked'
               PROVE  \/ TenantOf[f] = NoTenant /\ prev'[f] = NoHash
                      \/ TenantOf[f] # NoTenant /\ RowsOf(TenantOf[f])' = {} /\ prev'[f] = NoHash
                      \/ /\ TenantOf[f] # NoTenant
                         /\ \E h \in NewestOf(RowsOf(TenantOf[f])') : prev'[f] = h.hash
    BY DEF HeadIsCurrent, NewestOf
  <2>1. state[f] = "locked" /\ f # e
    BY <1>b DEF Settled
  <2>2. TenantOf[f] # NoTenant => TenantOf[f] # t
    BY <1>b, <2>1 DEF IInv, LockExclusive, UnlockedKnown, Appending
  <2> QED
    BY <1>b, <1>e, <2>1, <2>2 DEF IInv, HeadIsCurrent
<1>6. ASSUME ~purged, t # NoTenant, t \notin unlocked
      PROVE  \/ RowsOf(t) = {} /\ prev[e] = NoHash
             \/ \E h \in NewestOf(RowsOf(t)) : prev[e] = h.hash
  BY <1>b, <1>6 DEF IInv, HeadIsCurrent, UnlockedKnown, Appending
<1>7. OrderlyChainLinked'
  <2> SUFFICES ASSUME ~purged', NEW u \in Tenants, u \notin disordered' \cup unlocked', NEW r \in RowsOf(u)'
               PROVE  Continues(r, u)'
    BY DEF OrderlyChainLinked
  <2>0. ~purged /\ u \notin disordered \cup unlocked /\ u # NoTenant
    BY <1>b, ConstantsAssumption DEF ConstantsAssumption, Commit, Insert
  <2>1. CASE u # t
    <3>1. RowsOf(u)' = RowsOf(u)
      BY <1>e, <2>1
    <3>2. Continues(r, u)
      BY <2>0, <3>1 DEF IInv, OrderlyChainLinked
    <3> QED
      BY <3>1, <3>2 DEF Continues
  <2>2. CASE u = t
    <3>1. \A q \in RowsOf(t) : q.at < now[e]
      <4>1. \A q \in RowsOf(t) : ~(now[e] <= q.at)
        BY <2>0, <2>2 DEF Commit, Insert
      <4> QED
        BY <4>1, <1>d DEF RowsOf
    <3>2. CASE r = n
      <4>1. {q \in RowsOf(t)' : q # r /\ q.at <= r.at} = RowsOf(t)
        BY <1>a, <1>d, <1>f, <3>1, <3>2 DEF RowsOf
      <4>2. RowsOf(t) = {} => prev[e] = NoHash
        BY <1>6, <2>0, <2>2 DEF NewestOf
      <4>3. \A p \in NewestOf(RowsOf(t)) : prev[e] = p.hash
        <5> SUFFICES ASSUME NEW p \in NewestOf(RowsOf(t)) PROVE prev[e] = p.hash
          OBVIOUS
        <5>1. PICK h \in NewestOf(RowsOf(t)) : prev[e] = h.hash
          BY <1>6, <2>0, <2>2 DEF NewestOf
        <5>2. p.at = h.at /\ p \in RowsOf(t) /\ h \in RowsOf(t)
          BY <1>d DEF NewestOf, RowsOf
        <5>3. Continues(p, t)
          BY <2>0, <2>2, <5>2 DEF IInv, OrderlyChainLinked
        <5>4. p = h
          BY <5>2, <5>3, <1>d DEF Continues, RowsOf
        <5> QED
          BY <5>1, <5>4
      <4> QED
        BY <1>a, <2>2, <3>1, <3>2, <4>1, <4>2, <4>3 DEF Continues
    <3>3. CASE r # n
      <4>1. r \in RowsOf(t) /\ Continues(r, t)
        BY <1>f, <2>0, <2>2, <3>3 DEF IInv, OrderlyChainLinked
      <4>2. {q \in RowsOf(t)' : q # r /\ q.at <= r.at} = {q \in RowsOf(t) : q # r /\ q.at <= r.at}
        BY <1>a, <1>d, <1>f, <3>1, <4>1 DEF RowsOf
      <4> QED
        BY <2>2, <4>1, <4>2 DEF Continues
    <3> QED
      BY <3>2, <3>3
  <2> QED
    BY <2>1, <2>2
<1>8. SingleRoot'
  <2>1. ASSUME ~purged, t \in Tenants \ unlocked, NEW r \in rows, r.tenant = t
        PROVE  prev[e] # NoHash
    <3>0. t # NoTenant
      BY <2>1, ConstantsAssumption DEF ConstantsAssumption
    <3>1. r \in RowsOf(t)
      BY <2>1 DEF RowsOf
    <3>2. PICK h \in rows : prev[e] = h.hash
      BY <1>6, <2>1, <3>0, <3>1 DEF NewestOf, RowsOf
    <3>3. h.hash = EntryHash(h.prev, h.event, FALSE, h.at)
      BY DEF IInv, RowsSealed
    <3>4. EntryHash(h.prev, h.event, FALSE, h.at) # NoHash
      BY HashIsNotNone
    <3> QED
      BY <3>2, <3>3, <3>4
  <2> QED
    BY <1>a, <1>b, <2>1 DEF IInv, SingleRoot
<1>9. LinksResolve'
  <2>1. ~purged /\ prev[e] # NoHash => \E p \in rows : p.tenant = t /\ p.hash = prev[e]
    BY DEF IInv, HeadResolves
  <2> QED
    BY <1>a, <1>b, <2>1 DEF IInv, LinksResolve
<1>10. UnlockedKnown' /\ HeadResolves'
  BY <1>b DEF IInv, UnlockedKnown, HeadResolves, Settled
<1> QED
  BY <1>1, <1>2, <1>3, <1>4, <1>5, <1>7, <1>8, <1>9, <1>10 DEF IInv

(* After a purge only the properties that survive it are left to show. *)
LEMMA PurgeIInv ==
  ASSUME NEW cutoff \in 0..clock PROVE IInv /\ PurgeExpiredEntries(cutoff) => IInv'
<1> SUFFICES ASSUME IInv, PurgeExpiredEntries(cutoff) PROVE IInv'
  OBVIOUS
<1>1. rows' \subseteq rows /\ UNCHANGED <<clock, state, now, prev, disordered, unlocked>> /\ purged' = TRUE
  BY DEF PurgeExpiredEntries
<1>2. TypeOK'
  <2>1. purged' \in BOOLEAN
    BY <1>1
  <2> QED
    BY <1>1, <2>1 DEF IInv, TypeOK
<1>3. RecordedOnce' /\ RowsSealed' /\ LockExclusive' /\ UnlockedKnown' /\ HeadResolves'
  BY <1>1 DEF IInv, RecordedOnce, RowsSealed, LockExclusive, UnlockedKnown, HeadResolves
<1>4. HeadIsCurrent' /\ OrderlyChainLinked' /\ SingleRoot' /\ LinksResolve'
  BY <1>1 DEF HeadIsCurrent, OrderlyChainLinked, SingleRoot, LinksResolve
<1> QED
  BY <1>2, <1>3, <1>4 DEF IInv

(* Archiving keeps the hash, the link and the timestamp of every row, and maps
   different rows to different rows. *)
LEMMA ArchiveIInv ==
  ASSUME NEW cutoff \in 0..clock PROVE IInv /\ ArchiveOldEntries(cutoff) => IInv'
<1> SUFFICES ASSUME IInv, ArchiveOldEntries(cutoff) PROVE IInv'
  OBVIOUS
<1> DEFINE K(r) == Kept(r, cutoff)
<1>1. rows' = {K(r) : r \in rows} /\ UNCHANGED <<clock, state, now, prev, disordered, unlocked, purged>>
  BY DEF ArchiveOldEntries, Kept
<1>2. \A r \in rows :
         /\ K(r).event = r.event /\ K(r).tenant = r.tenant /\ K(r).at = r.at
         /\ K(r).prev = r.prev /\ K(r).hash = r.hash
         /\ K(r).archived = TRUE \/ K(r).archived = r.archived
         /\ K(r) = [event |-> K(r).event, tenant |-> K(r).tenant, at |-> K(r).at,
                    prev |-> K(r).prev, archived |-> K(r).archived, hash |-> K(r).hash]
  BY KeptFields DEF IInv
<1> HIDE DEF K
<1>3. \A r, s \in rows : K(r) = K(s) <=> r = s
  BY <1>2 DEF IInv, RecordedOnce
<1>4. \A u : RowsOf(u)' = {K(r) : r \in RowsOf(u)}
  BY <1>1, <1>2 DEF RowsOf
<1>5. \A S \in SUBSET rows : NewestOf({K(r) : r \in S}) = {K(r) : r \in NewestOf(S)}
  BY <1>2 DEF NewestOf
<1>6. TypeOK'
  <2>1. \A r \in rows : K(r).archived \in BOOLEAN
    BY <1>2, Zenon DEF IInv, TypeOK
  <2>2. \A r \in rows : /\ K(r).event \in Events /\ K(r).tenant = TenantOf[K(r).event]
                       /\ K(r).at \in 0..MaxClock
    BY <1>2 DEF IInv, TypeOK
  <2>3. \A k \in rows' : /\ k.event \in Events /\ k.tenant = TenantOf[k.event]
                        /\ k.at \in 0..MaxClock /\ k.archived \in BOOLEAN
    BY <1>1, <2>1, <2>2, Zenon
  <2> QED
    BY <1>1, <2>3 DEF IInv, TypeOK
<1>7. RecordedOnce' /\ LockExclusive'
  BY <1>1, <1>2, <1>3 DEF IInv, RecordedOnce, LockExclusive
<1>8. RowsSealed'
  <2>1. \A r \in rows : K(r).hash = EntryHash(K(r).prev, K(r).event, FALSE, K(r).at)
    BY <1>2 DEF IInv, RowsSealed
  <2> QED
    BY <1>1, <1>2, <2>1, Zenon DEF RowsSealed
<1>9. HeadIsCurrent'
  <2>1. \A u : RowsOf(u) \in SUBSET rows
    BY DEF RowsOf
  <2>2. \A u : NewestOf(RowsOf(u)') = {K(r) : r \in NewestOf(RowsOf(u))}
    BY <1>4, <1>5, <2>1
  <2>3. \A u : \A h \in NewestOf(RowsOf(u)) : h \in rows
    BY DEF NewestOf, RowsOf
  <2>4. \A u, p : (\E h \in NewestOf(RowsOf(u)) : p = h.hash)
                  => \E h \in NewestOf(RowsOf(u)') : p = h.hash
    BY <1>2, <2>2, <2>3
  <2>5. \A u : RowsOf(u) = {} => RowsOf(u)' = {}
    BY <1>4
  <2> SUFFICES ASSUME ~purged', NEW f \in Events, state'[f] = "locked", TenantOf[f] \notin unlocked'
               PROVE  \/ TenantOf[f] = NoTenant /\ prev'[f] = NoHash
                      \/ TenantOf[f] # NoTenant /\ RowsOf(TenantOf[f])' = {} /\ prev'[f] = NoHash
                      \/ /\ TenantOf[f] # NoTenant
                         /\ \E h \in NewestOf(RowsOf(TenantOf[f])') : prev'[f] = h.hash
    BY DEF HeadIsCurrent, NewestOf
  <2>6. /\ state[f] = "locked" /\ prev'[f] = prev[f] /\ ~purged /\ TenantOf[f] \notin unlocked
    BY <1>1
  <2>7. \/ TenantOf[f] = NoTenant /\ prev[f] = NoHash
        \/ TenantOf[f] # NoTenant /\ RowsOf(TenantOf[f]) = {} /\ prev[f] = NoHash
        \/ TenantOf[f] # NoTenant /\ \E h \in NewestOf(RowsOf(TenantOf[f])) : prev[f] = h.hash
    BY <2>6 DEF IInv, HeadIsCurrent
  <2> QED
    BY <2>4, <2>5, <2>6, <2>7
<1>10. OrderlyChainLinked'
  <2> SUFFICES ASSUME ~purged, NEW u \in Tenants, u \notin disordered \cup unlocked,
                      NEW r \in RowsOf(u)
               PROVE  Continues(K(r), u)'
    BY <1>1, <1>4 DEF OrderlyChainLinked
  <2> DEFINE B == {q \in RowsOf(u) : q # r /\ q.at <= r.at}
  <2>1. Continues(r, u) /\ r \in rows /\ B \in SUBSET rows
    BY DEF IInv, OrderlyChainLinked, RowsOf
  <2>2. {q \in RowsOf(u)' : q # K(r) /\ q.at <= K(r).at} = {K(q) : q \in B}
    BY <1>2, <1>3, <1>4, <2>1 DEF RowsOf
  <2>3. NewestOf({K(q) : q \in B}) = {K(p) : p \in NewestOf(B)}
    BY <1>5, <2>1
  <2>4. \A p \in NewestOf(B) : p \in rows
    BY <2>1 DEF NewestOf
  <2>5. /\ \A q \in B : q.at < r.at
        /\ B = {} => r.prev = NoHash
        /\ \A p \in NewestOf(B) : r.prev = p.hash
    BY <2>1 DEF Continues
  <2> HIDE DEF B
  <2> QED
    BY <1>2, <2>1, <2>2, <2>3, <2>4, <2>5 DEF Continues
<1>11. SingleRoot' /\ LinksResolve'
  BY <1>1, <1>2, <1>3 DEF IInv, SingleRoot, LinksResolve
<1>12. UnlockedKnown' /\ HeadResolves'
  BY <1>1, <1>2 DEF IInv, UnlockedKnown, HeadResolves
<1> QED
  BY <1>6, <1>7, <1>8, <1>9, <1>10, <1>11, <1>12 DEF IInv

(* The steps together: the invariant holds of every state of the log. *)
THEOREM InductiveInvariant == Spec => []IInv
<1>1. IInv /\ [Next]_vars => IInv'
  <2> SUFFICES ASSUME IInv, [Next]_vars PROVE IInv'
    OBVIOUS
  <2>1. CASE Tick
    BY <2>1, TickIInv
  <2>2. ASSUME NEW e \in Events, Record(e) PROVE IInv'
    BY <2>2, StampIInv, LockIInv, LockUnavailableIInv, CommitIInv, FailIInv DEF Record
  <2>3. ASSUME NEW cutoff \in 0..clock, Retain(cutoff) PROVE IInv'
    BY <2>3, PurgeIInv, ArchiveIInv DEF Retain
  <2>4. CASE UNCHANGED vars
    <3>1. TypeOK' /\ RecordedOnce' /\ LockExclusive' /\ HeadIsCurrent'
      BY <2>4 DEF IInv, vars, TypeOK, RecordedOnce, LockExclusive, HeadIsCurrent, RowsOf, NewestOf
    <3>2. UnlockedKnown' /\ HeadResolves'
      BY <2>4 DEF IInv, vars, UnlockedKnown, HeadResolves
    <3> QED
      BY <2>4, <3>1, <3>2, TableUntouched DEF IInv, vars
  <2> QED
    BY <2>1, <2>2, <2>3, <2>4 DEF Next
<1> QED
  BY <1>1, InitIInv, PTL DEF Spec

(* Every event, row and timestamp has the shape create gives it. *)
THEOREM TypeCorrect == Spec => []TypeOK
BY InductiveInvariant, PTL DEF IInv

(* A tenant's chain has at most one root: the advisory lock of create makes
   reading the head and inserting after it one step to every other writer. *)
THEOREM OneRootPerTenant == Spec => []SingleRoot
BY InductiveInvariant, PTL DEF IInv

(* create never links to a row of another tenant, nor to one rolled back. *)
THEOREM LinksAlwaysResolve == Spec => []LinksResolve
BY InductiveInvariant, PTL DEF IInv

(* Until a purge the log of a tenant is one tree, for any number of writers. *)
THEOREM ChainStaysLinked == Spec => []ChainIsLinked
BY OneRootPerTenant, LinksAlwaysResolve, PTL DEF ChainIsLinked

(* An event has at most one row, whatever became of the answer to its COMMIT. *)
THEOREM EventsRecordedOnce == Spec => []RecordedOnce
BY InductiveInvariant, PTL DEF IInv

(* The table is finite: it holds at most one row per event. *)
LEMMA RowsFinite == IInv => \A t : IsFiniteSet(RowsOf(t))
<1> SUFFICES ASSUME IInv, NEW t PROVE IsFiniteSet(RowsOf(t))
  OBVIOUS
<1> DEFINE f == [r \in rows |-> r.event]
<1>1. f \in Injection(rows, Events)
  BY DEF IInv, TypeOK, RecordedOnce, Injection, IsInjective
<1>2. IsFiniteSet(rows)
  BY <1>1, FS_Injection, ConstantsAssumption DEF ConstantsAssumption
<1> QED
  BY <1>2, FS_Subset DEF RowsOf

(* A log within the limit is verified in full. *)
LEMMA WindowIsAll ==
  ASSUME IInv, NEW t, Cardinality(RowsOf(t)) <= VerifyLimit PROVE Window(t) = RowsOf(t)
<1> SUFFICES ASSUME NEW r \in RowsOf(t)
             PROVE  Cardinality({q \in RowsOf(t) : q.at > r.at}) < VerifyLimit
  BY DEF Window
<1> DEFINE N == {q \in RowsOf(t) : q.at > r.at}
<1>1. r \notin N
  BY DEF IInv, TypeOK, RowsOf
<1>2. /\ IsFiniteSet(RowsOf(t)) /\ N \in SUBSET RowsOf(t) /\ N # RowsOf(t)
  BY <1>1, RowsFinite
<1>3. /\ Cardinality(N) \in Nat /\ Cardinality(RowsOf(t)) \in Nat
      /\ Cardinality(N) <= Cardinality(RowsOf(t)) /\ Cardinality(N) # Cardinality(RowsOf(t))
  BY <1>2, FS_Subset, FS_CardinalityType
<1> QED
  BY <1>3, ConstantsAssumption DEF ConstantsAssumption

(* The chain create builds is the chain verify_chain accepts, for any number
   of rows up to its limit, as long as appends get the lock and commit in timestamp order. *)
THEOREM ChainVerifies == Spec => []OrderlyChainVerifies
<1>1. IInv => OrderlyChainVerifies
  <2> SUFFICES ASSUME IInv, NEW t \in Tenants, t \notin disordered \cup unlocked, ~purged,
                      \A r \in RowsOf(t) : ~r.archived,
                      Cardinality(RowsOf(t)) <= VerifyLimit
               PROVE  VerifyChain(t)
    BY DEF OrderlyChainVerifies
  <2>1. Window(t) = RowsOf(t)
    BY WindowIsAll
  <2>2. \A r \in RowsOf(t) : Continues(r, t)
    BY DEF IInv, OrderlyChainLinked
  <2>3. \A r \in RowsOf(t) : EntryHash(r.prev, r.event, r.archived, r.at) = r.hash
    <3>1. \A r \in RowsOf(t) : r.archived = FALSE /\ r \in rows
      BY DEF IInv, TypeOK, RowsOf
    <3> QED
      BY <3>1 DEF IInv, RowsSealed
  <2> QED
    BY <2>1, <2>2, <2>3 DEF VerifyChain, Continues
<1> QED
  BY <1>1, InductiveInvariant, PTL

(* Any change of what a row says is reported: no row's stored hash matches its
   content once the content differs from what was hashed. *)
THEOREM AlteredRowsReported == Spec => []AlteredRowReported
<1>1. IInv => AlteredRowReported
  <2> SUFFICES ASSUME IInv, NEW t \in Tenants, NEW r \in Window(t), r.archived, VerifyChain(t)
               PROVE  FALSE
    BY DEF AlteredRowReported
  <2>1. r \in rows /\ r.archived = TRUE
    BY DEF Window, RowsOf, IInv, TypeOK
  <2>2. EntryHash(r.prev, r.event, TRUE, r.at) = EntryHash(r.prev, r.event, FALSE, r.at)
    BY <2>1 DEF VerifyChain, IInv, RowsSealed
  <2> QED
    BY <2>2 DEF EntryHash
<1> QED
  BY <1>1, InductiveInvariant, PTL

(* verify_chain accepts what create wrote in order and reports what was changed. *)
THEOREM VerifyCanBeTrusted == Spec => []VerifyIsRight
BY ChainVerifies, AlteredRowsReported, PTL DEF VerifyIsRight

-----------------------------------------------------------------------------
(* The console's cache.                                                    *)

\* Types, and that versions are never ahead of the backend. The version that a running fetch
\* has read is not older than the data that it will replace.
CacheInv ==
  /\ db \in Nat
  /\ entry \in [data: Nat \cup {NoData}, stale: BOOLEAN, failed: BOOLEAN]
  /\ fetch \in [on: BOOLEAN, read: Nat \cup {NoData}, tries: Nat]
  /\ entry.data # NoData => entry.data <= db
  /\ fetch.read # NoData => fetch.read <= db
  /\ (fetch.read # NoData /\ entry.data # NoData) => entry.data <= fetch.read

\* What a running fetch brings has the handlers' writes, unless a refresh came to nothing.
WritesInv ==
  /\ own \in Nat /\ own <= db
  /\ missed \in BOOLEAN
  /\ \A j \in jobs : j.wrote \in Nat /\ j.wrote <= db
  /\ (fetch.on /\ fetch.read # NoData) => (fetch.read >= own \/ missed)
  /\ ReadYourWrites

EntryType == [data: Nat \cup {NoData}, stale: BOOLEAN, failed: BOOLEAN]
FetchType == [on: BOOLEAN, read: Nat \cup {NoData}, tries: Nat]

-----------------------------------------------------------------------------
(* The pieces that several actions share.                                  *)

\* A fetch that starts has read nothing.
LEMMA StartedType == Started \in FetchType /\ Idle \in FetchType /\ Started.read = NoData
                     /\ Idle.read = NoData /\ Started.on /\ ~Idle.on
  BY DEF Started, Idle, FetchType

\* A restart leaves the fetch alone or begins a new one.
LEMMA RestartFetch ==
  ASSUME Restart
  PROVE  fetch' = fetch \/ fetch' = Started
  BY DEF Restart

\* A refresh touches the data of the entry in no way.
LEMMA RefreshEntry ==
  ASSUME NEW h, CacheInv, Refresh(h)
  PROVE  /\ entry' \in EntryType
         /\ entry'.data = entry.data
         /\ fetch' = fetch \/ fetch' = Started
  <1>1. entry \in EntryType
    BY DEF CacheInv, EntryType
  <1>2. CASE \E f \in h.refreshes : Matches(f)
    <2>1. entry' = [entry EXCEPT !.stale = TRUE]
      BY <1>2 DEF Refresh
    <2>2. fetch' = fetch \/ fetch' = Started
      BY <1>2, RestartFetch DEF Refresh
    <2> QED BY <1>1, <2>1, <2>2 DEF EntryType
  <1>3. CASE ~ \E f \in h.refreshes : Matches(f)
    <2>1. entry' = entry
      BY <1>3 DEF Refresh
    <2>2. fetch' = fetch \/ fetch' = Started
      BY <1>3, RestartFetch DEF Refresh
    <2> QED BY <1>1, <2>1, <2>2
  <1> QED BY <1>2, <1>3

\* A page change lets the fetch run, stops it or starts another.
LEMMA GoFetch ==
  ASSUME NEW p, Go(p)
  PROVE  fetch' = fetch \/ fetch' = Started \/ fetch' = Idle
  BY DEF Go

\* The invariant survives a step that keeps the versions of the backend and the data, and
\* keeps, stops or starts the fetch.
LEMMA FetchSteps ==
  ASSUME CacheInv, db' = db, entry' \in EntryType, entry'.data = entry.data,
         fetch' = fetch \/ fetch' = Started \/ fetch' = Idle
  PROVE  CacheInv'
  BY StartedType DEF CacheInv, EntryType, FetchType

\* It survives a write.
LEMMA WriteSteps ==
  ASSUME CacheInv, db' \in {db, db + 1}, UNCHANGED <<entry, fetch>>
  PROVE  CacheInv'
  BY DEF CacheInv

-----------------------------------------------------------------------------

\* CacheInv is inductive.
LEMMA CacheInvStep ==
  ASSUME CacheInv, [CacheNext]_cacheVars
  PROVE  CacheInv'
  <1>0. entry \in EntryType /\ fetch \in FetchType
    BY DEF CacheInv, EntryType, FetchType
  <1>1. ASSUME NEW p \in Near[query], Visit(p) PROVE CacheInv'
    BY <1>0, <1>1, GoFetch, FetchSteps DEF Visit
  <1>2. CASE FetchReads
    <2>1. fetch' = [fetch EXCEPT !.read = db] /\ db' = db /\ entry' = entry
      BY <1>2 DEF FetchReads
    <2> QED BY <2>1, CacheAssumption DEF CacheInv, CacheAssumption
  <1>3. CASE FetchAnswers
    <2>1. /\ fetch.read # NoData /\ fetch' = Idle /\ db' = db
          /\ entry' = [data |-> fetch.read, stale |-> FALSE, failed |-> FALSE]
      BY <1>3 DEF FetchAnswers
    <2>2. fetch.read \in Nat
      BY <1>0, <2>1 DEF FetchType
    <2> QED BY <1>0, <2>1, <2>2, StartedType DEF CacheInv, FetchType
  <1>4. CASE FetchFails
    <2>1. db' = db
      BY <1>4 DEF FetchFails
    <2>2. CASE /\ fetch' = [on |-> TRUE, read |-> NoData, tries |-> fetch.tries + 1]
              /\ entry' = entry
      <3>1. fetch' \in FetchType /\ fetch'.read = NoData
        BY <1>0, <2>2 DEF FetchType
      <3> QED BY <1>0, <2>1, <2>2, <3>1 DEF CacheInv, FetchType
    <2>3. CASE fetch' = Idle /\ entry' = [entry EXCEPT !.stale = TRUE, !.failed = TRUE]
      <3>1. entry' \in EntryType /\ entry'.data = entry.data
        BY <1>0, <2>3 DEF EntryType
      <3> QED BY <2>1, <2>3, <3>1, FetchSteps
    <2> QED BY <1>4, <2>2, <2>3 DEF FetchFails
  <1>5. CASE LateAnswer
    BY <1>0, <1>5, FetchSteps DEF LateAnswer
  <1>6. CASE StaleTime
    <2>1. entry' = [entry EXCEPT !.stale = TRUE] /\ db' = db /\ fetch' = fetch
      BY <1>6 DEF StaleTime
    <2>2. entry' \in EntryType /\ entry'.data = entry.data
      BY <1>0, <2>1 DEF EntryType
    <2> QED BY <2>1, <2>2, FetchSteps
  <1>7. CASE Focus \/ Poll
    BY <1>0, <1>7, FetchSteps DEF Focus, Poll, Begin
  <1>8. CASE Collect
    <2>1. /\ entry' = [data |-> NoData, stale |-> FALSE, failed |-> FALSE]
          /\ db' = db /\ fetch' = fetch
      BY <1>8 DEF Collect
    <2> QED BY <1>0, <2>1 DEF CacheInv
  <1>9. ASSUME NEW h \in Handlers, StartHandler(h) PROVE CacheInv'
    BY <1>9, WriteSteps DEF StartHandler
  <1>10. ASSUME NEW j \in jobs, Serve(j) PROVE CacheInv'
    BY <1>10, WriteSteps DEF Serve
  <1>11. ASSUME NEW j \in jobs, Proceed(j) PROVE CacheInv'
    <2>1. db' = db
      BY <1>11 DEF Proceed
    <2>2. CASE Refresh(j.h)
      BY <2>1, <2>2, RefreshEntry, FetchSteps
    <2>3. CASE UNCHANGED <<entry, fetch>>
      BY <2>1, <2>3, WriteSteps
    <2> QED BY <1>11, <2>2, <2>3 DEF Proceed
  <1>12. ASSUME NEW j \in jobs, CallAnswered(j) \/ CallFails(j) PROVE CacheInv'
    <2>1. Proceed(j) \/ UNCHANGED <<db, entry, fetch>>
      BY <1>12 DEF CallAnswered, CallFails
    <2> QED BY <1>11, <2>1, WriteSteps
  <1>13. ASSUME NEW j \in jobs, Redirect(j) PROVE CacheInv'
    BY <1>0, <1>13, GoFetch, FetchSteps DEF Redirect
  <1>14. CASE OthersWrite
    BY <1>14, WriteSteps DEF OthersWrite
  <1>15. CASE UNCHANGED cacheVars
    BY <1>15, WriteSteps DEF cacheVars
  <1> QED BY <1>1, <1>2, <1>3, <1>4, <1>5, <1>6, <1>7, <1>8, <1>9, <1>10, <1>12, <1>13, <1>14,
             <1>15 DEF CacheNext

\* It holds before anything was read.
LEMMA CacheInvInit == CacheInit => CacheInv
  BY StartedType DEF CacheInit, CacheInv, FetchType

-----------------------------------------------------------------------------
(* Refinement.                                                             *)

\* The initial states map to initial states of the view.
LEMMA ViewInit == CacheInit => View!Init
  BY DEF CacheInit, View!Init, Observed

\* What a step does to the data: nothing, a newer version, or it drops it while no page
\* observes the query.
LEMMA ViewStep ==
  ASSUME CacheInv, [CacheNext]_cacheVars
  PROVE  [View!Next]_(View!vars)
  <1>0. entry \in EntryType /\ fetch \in FetchType
    BY DEF CacheInv, EntryType, FetchType
  <1>a. ASSUME db' = db, entry'.data = entry.data, route' = route, query' = query
        PROVE  UNCHANGED View!vars
    BY <1>a DEF View!vars, Observed
  <1>b. ASSUME db' = db + 1, entry' = entry, route' = route, query' = query
        PROVE  View!Write
    BY <1>b DEF View!Write, Observed
  <1>c. ASSUME db' = db, entry' = entry
        PROVE  View!Turn
    BY <1>c DEF View!Turn, Observed
  <1>1. ASSUME NEW p \in Near[query], Visit(p) PROVE View!Next
    BY <1>1, <1>c DEF Visit, View!Next
  <1>2. CASE FetchReads \/ LateAnswer
    BY <1>2, <1>a DEF FetchReads, LateAnswer
  <1>3. CASE FetchAnswers
    <2>1. /\ fetch.read # NoData /\ db' = db /\ route' = route /\ query' = query
          /\ entry'.data = fetch.read
      BY <1>3 DEF FetchAnswers
    <2>2. fetch.read \in Nat /\ fetch.read <= db /\ (entry.data # NoData => entry.data <= fetch.read)
      BY <1>0, <2>1 DEF FetchType, CacheInv
    <2>3. View!Show
      BY <2>1, <2>2 DEF View!Show, Observed
    <2> QED BY <2>3 DEF View!Next
  <1>4. CASE FetchFails
    <2>1. db' = db /\ route' = route /\ query' = query
      BY <1>4 DEF FetchFails
    <2>2. entry' = entry \/ entry' = [entry EXCEPT !.stale = TRUE, !.failed = TRUE]
      BY <1>4 DEF FetchFails
    <2>3. entry'.data = entry.data
      BY <1>0, <2>2 DEF EntryType
    <2> QED BY <1>a, <2>1, <2>3
  <1>6. CASE StaleTime
    <2>1. entry'.data = entry.data
      BY <1>0, <1>6 DEF StaleTime, EntryType
    <2> QED BY <1>6, <1>a, <2>1 DEF StaleTime
  <1>7. CASE Focus \/ Poll
    BY <1>7, <1>a DEF Focus, Poll, Begin
  <1>8. CASE Collect
    <2>1. View!Forget
      BY <1>8 DEF Collect, View!Forget, Observed
    <2> QED BY <2>1 DEF View!Next
  <1>9. ASSUME NEW h \in Handlers, StartHandler(h) PROVE UNCHANGED View!vars
    BY <1>9, <1>a DEF StartHandler
  <1>10. ASSUME NEW j \in jobs, Serve(j) PROVE View!Next \/ UNCHANGED View!vars
    BY <1>10, <1>a, <1>b DEF Serve, View!Next
  <1>11. ASSUME NEW j \in jobs, Proceed(j) PROVE UNCHANGED View!vars
    <2>1. db' = db /\ route' = route /\ query' = query
      BY <1>11 DEF Proceed
    <2>2. entry'.data = entry.data
      BY <1>11, RefreshEntry DEF Proceed
    <2> QED BY <1>a, <2>1, <2>2
  <1>12. ASSUME NEW j \in jobs, CallAnswered(j) \/ CallFails(j) PROVE UNCHANGED View!vars
    BY <1>11, <1>12, <1>a DEF CallAnswered, CallFails
  <1>13. ASSUME NEW j \in jobs, Redirect(j) PROVE View!Next
    BY <1>13, <1>c DEF Redirect, View!Next
  <1>14. CASE OthersWrite
    BY <1>14, <1>b DEF OthersWrite, View!Next
  <1>15. CASE UNCHANGED cacheVars
    BY <1>15, <1>a DEF cacheVars
  <1> QED BY <1>1, <1>2, <1>3, <1>4, <1>6, <1>7, <1>8, <1>9, <1>10, <1>12, <1>13, <1>14, <1>15
          DEF CacheNext

\* Whatever the pages and handlers do, in whatever order requests are answered, cancelled and
\* repeated: the copy of a query moves forward only, never ahead of the backend, and is not
\* lost under a page that observes it.
THEOREM CacheImplementsView == CacheSpec => ViewSpec
  <1>1. CacheInit => CacheInv
    BY CacheInvInit
  <1>2. CacheInv /\ [CacheNext]_cacheVars => CacheInv'
    BY CacheInvStep
  <1>3. CacheInv /\ [CacheNext]_cacheVars => [View!Next]_(View!vars)
    BY ViewStep
  <1>4. CacheInit => View!Init
    BY ViewInit
  <1> QED BY <1>1, <1>2, <1>3, <1>4, PTL DEF CacheSpec, ViewSpec, View!Spec

-----------------------------------------------------------------------------
(* Read your own writes.                                                   *)

\* It holds while nothing was written.
LEMMA WritesInvInit == CacheInit => WritesInv
  <1> SUFFICES ASSUME CacheInit PROVE WritesInv
    OBVIOUS
  <1>1. own \in Nat /\ own <= db /\ jobs = {}
    BY DEF CacheInit
  <1>2. missed \in BOOLEAN
    BY DEF CacheInit
  <1>3. entry.data = NoData /\ ~fetch.on
    BY StartedType DEF CacheInit
  <1> QED BY <1>1, <1>2, <1>3 DEF WritesInv, ReadYourWrites

\* The part of WritesInv about the entry and its fetch, for the handlers' version v and the
\* value m of missed.
Holds(v, m) ==
  /\ (fetch.on /\ fetch.read # NoData) => (fetch.read >= v \/ m)
  /\ (entry.data # NoData /\ ~entry.stale /\ ~fetch.on) => (entry.data >= v \/ m)

\* A refresh makes room for any newer version: the fetch is new, or missed is set, and the
\* data is stale or being fetched.
LEMMA RefreshHolds ==
  ASSUME NEW h, CacheInv, WritesInv, Refresh(h), Refreshes(h)
  PROVE  /\ (fetch'.on /\ fetch'.read # NoData) => missed'
         /\ (entry'.data # NoData /\ ~entry'.stale /\ ~fetch'.on) => FALSE
         /\ missed' \in BOOLEAN
  <1>0. entry \in EntryType /\ fetch \in FetchType /\ missed \in BOOLEAN
    BY DEF CacheInv, WritesInv, EntryType, FetchType
  <1>1. ASSUME Restart
        PROVE  /\ (fetch'.on /\ fetch'.read # NoData) => missed'
               /\ missed' \in BOOLEAN
               /\ fetch'.on
    <2>1. CASE fetch.on /\ entry.data = NoData
      BY <1>0, <1>1, <2>1 DEF Restart
    <2>2. CASE ~(fetch.on /\ entry.data = NoData)
      BY <1>1, <2>2, StartedType DEF Restart
    <2> QED BY <2>1, <2>2
  <1>2. CASE \E f \in h.refreshes : Matches(f)
    <2>1. entry' = [entry EXCEPT !.stale = TRUE]
      BY <1>2 DEF Refresh
    <2>2. entry'.stale
      BY <1>0, <2>1 DEF EntryType
    <2>3. CASE Restart
      BY <1>1, <2>2, <2>3
    <2>4. CASE missed' = (missed \/ (fetch.on /\ fetch.read # NoData)) /\ fetch' = fetch
      BY <1>0, <2>2, <2>4
    <2> QED BY <1>2, <2>3, <2>4 DEF Refresh
  <1>3. CASE ~ \E f \in h.refreshes : Matches(f)
    <2>1. Restart
      BY <1>3 DEF Refresh, Refreshes
    <2> QED BY <1>1, <2>1
  <1> QED BY <1>2, <1>3

\* A refresh that is not about the query changes nothing.
LEMMA NoRefresh ==
  ASSUME NEW h, Refresh(h), ~Refreshes(h)
  PROVE  UNCHANGED <<entry, fetch, missed>>
  BY DEF Refresh, Refreshes

\* A step that keeps own and the backend's version, given what became of entry and fetch.
LEMMA QuietSteps ==
  ASSUME CacheInv, WritesInv, own' = own, db' = db, jobs' \subseteq jobs, Holds(own, missed)',
         missed' \in BOOLEAN
  PROVE  WritesInv'
  BY DEF WritesInv, ReadYourWrites, Holds

\* Every step preserves it.
LEMMA WritesInvStep ==
  ASSUME CacheInv, WritesInv, [CacheNext]_cacheVars
  PROVE  WritesInv'
  <1>0. entry \in EntryType /\ fetch \in FetchType /\ missed \in BOOLEAN /\ db \in Nat /\ own \in Nat
    BY DEF CacheInv, WritesInv, EntryType, FetchType
  <1>a. Holds(own, missed)
    BY DEF WritesInv, ReadYourWrites, Holds
  <1>c. own <= db /\ \A j \in jobs : j.wrote \in Nat /\ j.wrote <= db
    BY DEF WritesInv
  <1>b. ASSUME NEW p, Go(p), entry' = entry, own' = own
        PROVE  Holds(own, missed)' /\ missed' \in BOOLEAN
    <2> DEFINE gone == Observed(route) /\ ~Stays(p)
               cancels == gone /\ fetch.on /\ query.signal
               running == fetch.on /\ ~cancels
               needed == Observed(p) /\ ~running /\ (entry.data = NoData \/ entry.stale)
    <2>1. /\ fetch' = IF needed THEN Started ELSE IF running THEN fetch ELSE Idle
          /\ missed' = (~needed /\ (missed \/ cancels))
      BY <1>b DEF Go
    <2>2. CASE needed
      BY <2>1, <2>2, StartedType DEF Holds
    <2>3. CASE ~needed /\ running
      <3>1. fetch' = fetch /\ missed' = (missed \/ cancels)
        BY <2>1, <2>3
      <3>2. ~cancels
        BY <2>3
      <3>3. missed' = missed
        BY <1>0, <3>1, <3>2
      <3> HIDE DEF gone, cancels, running, needed
      <3> QED BY <1>0, <1>a, <1>b, <3>1, <3>3 DEF Holds
    <2>4. CASE ~needed /\ ~running
      <3>1. fetch' = Idle /\ missed' = (missed \/ cancels)
        BY <2>1, <2>4
      <3>2. ~fetch.on \/ cancels
        BY <2>4
      <3>3. missed' \in BOOLEAN
        BY <3>1
      <3>4. CASE cancels
        BY <1>0, <3>1, <3>4, StartedType DEF Holds
      <3>5. CASE ~cancels
        <4>1. missed' = missed /\ ~fetch.on
          BY <1>0, <3>1, <3>2, <3>5
        <4> HIDE DEF gone, cancels, running, needed
        <4> QED BY <1>0, <1>a, <1>b, <3>1, <4>1, StartedType DEF Holds
      <3> QED BY <3>3, <3>4, <3>5
    <2> QED BY <2>2, <2>3, <2>4
  <1>1. ASSUME NEW p \in Near[query], Visit(p) PROVE WritesInv'
    BY <1>1, <1>b, QuietSteps DEF Visit
  <1>2. CASE FetchReads
    <2>1. fetch' = [fetch EXCEPT !.read = db] /\ UNCHANGED <<db, entry, own, missed, jobs>>
      BY <1>2 DEF FetchReads
    <2>2. fetch'.read = db /\ fetch'.on = fetch.on
      BY <1>0, <2>1 DEF FetchType
    <2>3. own <= db
      BY DEF WritesInv
    <2>4. Holds(own, missed)'
      BY <1>0, <1>a, <2>1, <2>2, <2>3 DEF Holds
    <2> QED BY <1>0, <2>1, <2>4, QuietSteps
  <1>3. CASE FetchAnswers
    <2>1. /\ fetch.on /\ fetch.read # NoData /\ fetch' = Idle
          /\ entry'.data = fetch.read /\ UNCHANGED <<db, own, missed, jobs>>
      BY <1>3 DEF FetchAnswers
    <2>2. Holds(own, missed)'
      BY <1>0, <1>a, <2>1, StartedType DEF Holds
    <2> QED BY <1>0, <2>1, <2>2, QuietSteps
  <1>4. CASE FetchFails
    <2>1. UNCHANGED <<db, own, missed, jobs>> /\ fetch.on
      BY <1>4 DEF FetchFails
    <2>2. CASE /\ fetch' = [on |-> TRUE, read |-> NoData, tries |-> fetch.tries + 1]
               /\ entry' = entry
      <3>1. Holds(own, missed)'
        BY <2>2 DEF Holds
      <3> QED BY <1>0, <2>1, <3>1, QuietSteps
    <2>3. CASE fetch' = Idle /\ entry' = [entry EXCEPT !.stale = TRUE, !.failed = TRUE]
      <3>1. entry'.stale
        BY <1>0, <2>3 DEF EntryType
      <3>2. Holds(own, missed)'
        BY <2>3, <3>1, StartedType DEF Holds
      <3> QED BY <1>0, <2>1, <3>2, QuietSteps
    <2> QED BY <1>4, <2>2, <2>3 DEF FetchFails
  <1>5. CASE LateAnswer
    <2>1. UNCHANGED <<db, entry, fetch, own, missed, jobs>>
      BY <1>5 DEF LateAnswer
    <2> QED BY <1>0, <1>a, <2>1, QuietSteps DEF Holds
  <1>6. CASE StaleTime
    <2>1. entry' = [entry EXCEPT !.stale = TRUE] /\ UNCHANGED <<db, fetch, own, missed, jobs>>
      BY <1>6 DEF StaleTime
    <2>2. entry'.stale
      BY <1>0, <2>1 DEF EntryType
    <2>3. Holds(own, missed)'
      BY <1>a, <2>1, <2>2 DEF Holds
    <2> QED BY <1>0, <2>1, <2>3, QuietSteps
  <1>7. CASE Focus \/ Poll
    <2>1. fetch' = Started /\ missed' = FALSE /\ UNCHANGED <<db, own, jobs>>
      BY <1>7 DEF Focus, Poll, Begin
    <2>2. Holds(own, missed)'
      BY <2>1, StartedType DEF Holds
    <2> QED BY <2>1, <2>2, QuietSteps
  <1>8. CASE Collect
    <2>1. /\ entry' = [data |-> NoData, stale |-> FALSE, failed |-> FALSE]
          /\ UNCHANGED <<db, fetch, own, missed, jobs>>
      BY <1>8 DEF Collect
    <2>2. Holds(own, missed)'
      BY <1>a, <2>1 DEF Holds
    <2> QED BY <1>0, <2>1, <2>2, QuietSteps
  <1>9. ASSUME NEW h \in Handlers, StartHandler(h) PROVE WritesInv'
    <2>1. UNCHANGED <<db, entry, fetch, own, missed>> /\ jobs' = jobs \cup {Job(h, 1, FALSE, 0)}
      BY <1>9 DEF StartHandler
    <2>2. Job(h, 1, FALSE, 0).wrote = 0
      BY DEF Job
    <2>3. \A i \in jobs' : i.wrote \in Nat /\ i.wrote <= db'
      <3> DEFINE new == Job(h, 1, FALSE, 0)
      <3> HIDE DEF new
      <3>1. jobs' = jobs \cup {new} /\ new.wrote = 0 /\ db' = db /\ db \in Nat
        BY <1>0, <2>1, <2>2 DEF new
      <3> QED BY <1>c, <3>1
    <2>4. own' \in Nat /\ own' <= db'
      BY <1>0, <1>c, <2>1
    <2>5. missed' \in BOOLEAN
      BY <1>0, <2>1
    <2>6. Holds(own, missed)'
      BY <1>a, <2>1 DEF Holds
    <2> QED BY <2>3, <2>4, <2>5, <2>6 DEF WritesInv, ReadYourWrites, Holds
  <1>10. ASSUME NEW j \in jobs, Serve(j) PROVE WritesInv'
    <2>1. /\ UNCHANGED <<entry, fetch, own, missed>>
          /\ \/ db' = db + 1 /\ jobs' = (jobs \ {j}) \cup {Job(j.h, j.at, TRUE, db + 1)}
             \/ db' = db /\ jobs' = (jobs \ {j}) \cup {Job(j.h, j.at, TRUE, j.wrote)}
      BY <1>10 DEF Serve
    <2>2. \A i \in jobs' : i.wrote \in Nat /\ i.wrote <= db'
      BY <1>0, <2>1 DEF Job, WritesInv
    <2>3. own' \in Nat /\ own' <= db'
      <3>1. own' = own /\ db' \in {db, db + 1}
        BY <2>1
      <3> QED BY <1>0, <1>c, <3>1
    <2>4. missed' \in BOOLEAN
      BY <1>0, <2>1
    <2>5. Holds(own, missed)'
      BY <1>a, <2>1 DEF Holds
    <2> QED BY <2>2, <2>3, <2>4, <2>5 DEF WritesInv, ReadYourWrites, Holds
  <1>11. ASSUME NEW j \in jobs, Proceed(j) PROVE WritesInv'
    <2>1. /\ db' = db
          /\ jobs' = (jobs \ {j}) \cup
                     IF Last(j) /\ j.h.goes = j.h.on THEN {} ELSE {Job(j.h, j.at + 1, FALSE, j.wrote)}
      BY <1>11 DEF Proceed
    <2>2. \A i \in jobs' : i.wrote \in Nat /\ i.wrote <= db'
      BY <1>0, <2>1 DEF Job, WritesInv
    <2>3. j.wrote \in Nat /\ j.wrote <= db
      BY DEF WritesInv
    <2>4. CASE UNCHANGED <<entry, fetch, own, missed>>
      BY <1>0, <2>1, <2>2, <2>4 DEF WritesInv, ReadYourWrites
    <2>5. CASE /\ Refresh(j.h)
               /\ own' = IF Refreshes(j.h) /\ j.wrote > own THEN j.wrote ELSE own
      <3>1. CASE Refreshes(j.h)
        <4>1. own' \in Nat /\ own' <= db'
          BY <1>0, <2>1, <2>3, <2>5 DEF WritesInv
        <4> QED BY <2>2, <2>5, <3>1, <4>1, RefreshHolds DEF WritesInv, ReadYourWrites
      <3>2. CASE ~Refreshes(j.h)
        <4>1. UNCHANGED <<entry, fetch, own, missed>>
          BY <2>5, <3>2, NoRefresh
        <4> QED BY <2>4, <4>1
      <3> QED BY <3>1, <3>2
    <2> QED BY <1>11, <2>4, <2>5 DEF Proceed
  <1>12. ASSUME NEW j \in jobs, CallAnswered(j) \/ CallFails(j) PROVE WritesInv'
    <2>1. Proceed(j) \/ (jobs' = jobs \ {j} /\ UNCHANGED <<db, entry, fetch, own, missed>>)
      BY <1>12 DEF CallAnswered, CallFails
    <2>2. CASE jobs' = jobs \ {j} /\ UNCHANGED <<db, entry, fetch, own, missed>>
      BY <1>0, <1>a, <2>2, QuietSteps DEF Holds
    <2> QED BY <1>11, <2>1, <2>2
  <1>13. ASSUME NEW j \in jobs, Redirect(j) PROVE WritesInv'
    BY <1>13, <1>b, QuietSteps DEF Redirect
  <1>14. CASE OthersWrite
    BY <1>0, <1>14 DEF OthersWrite, WritesInv, ReadYourWrites
  <1>15. CASE UNCHANGED cacheVars
    <2>1. UNCHANGED <<db, entry, fetch, own, missed, jobs>>
      BY <1>15 DEF cacheVars
    <2> QED BY <1>0, <1>a, <2>1, QuietSteps DEF Holds
  <1> QED BY <1>1, <1>2, <1>3, <1>4, <1>5, <1>6, <1>7, <1>8, <1>9, <1>10, <1>12, <1>13, <1>14,
             <1>15 DEF CacheNext

\* Data that the console treats as current has every write of a handler that refreshed the
\* query, for any set of queries, pages and handlers and any number of writes.
THEOREM CacheReadsItsWrites == CacheSpec => []ReadYourWrites
  <1>1. CacheInit => CacheInv /\ WritesInv
    BY CacheInvInit, WritesInvInit
  <1>2. CacheInv /\ WritesInv /\ [CacheNext]_cacheVars => (CacheInv /\ WritesInv)'
    BY CacheInvStep, WritesInvStep
  <1>3. WritesInv => ReadYourWrites
    BY DEF WritesInv
  <1> QED BY <1>1, <1>2, <1>3, PTL DEF CacheSpec

-----------------------------------------------------------------------------
(* What pages are told. First what the tables of the console's pages,      *)
(* queries and handlers say.                                               *)

\* The pages by name.
LEMMA PageNames ==
  DOMAIN Pages =
    {"home", "servers", "server", "serverTools", "serverLogs", "serverTraffic", "newServer",
     "keys", "policies", "policy", "newPolicy", "rateLimits", "roles", "access", "members",
     "teams", "logs", "traffic", "observability", "traces", "errors", "alerts", "audit",
     "usage", "subscription", "tools", "tool", "playground", "search", "adminHome",
     "adminAudit", "adminBilling", "adminInfrastructure", "adminOrganizations",
     "adminPolicies", "adminSecurity", "adminServers", "adminTelemetry", "adminTools",
     "adminTraffic", "adminUsers", "developerHome", "developerKeys", "developerLogs",
     "developerServers", "developerTools", "developerUsage", "developerPlayground",
     "onboarding", "other", "outside"}
  BY DEF Pages

\* A page waits for every list of which it says that it is empty, the hasty ones excepted.
LEMMA NothingWaits ==
  ASSUME NEW p \in DOMAIN Pages, NEW q \in Pages[p].nothing, <<p, q>> \notin Hasty
  PROVE  q \in Pages[p].waits
  <1> DEFINE Patient(page) == page.nothing \subseteq page.waits
  <1>1. Patient(HomePage) /\ Patient(ServersPage) /\ Patient(ServerPage) /\
        Patient(ToolsTab) /\ Patient(LogsTab) /\ Patient(TrafficTab) /\
        Patient(NewServerPage) /\ Patient(KeysPage)
    BY DEF PageOf, ListOf, ServerTab, OtherPage, HomePage, ServersPage, ServerPage, ToolsTab,
           LogsTab, TrafficTab, NewServerPage, KeysPage
  <1>2. Patient(PoliciesPage) /\ Patient(NewPolicyPage) /\ Patient(RateLimitsPage) /\
        Patient(AccessPage) /\ Patient(MembersPage) /\ Patient(LogsPage) /\
        Patient(TrafficPage) /\ Patient(ObservabilityPage)
    BY DEF PageOf, ListOf, ServerTab, OtherPage, PoliciesPage, NewPolicyPage, RateLimitsPage,
           AccessPage, MembersPage, LogsPage, TrafficPage, ObservabilityPage
  <1>3. Patient(TracesPage) /\ Patient(ErrorsPage) /\ Patient(AlertsPage) /\
        Patient(AuditPage) /\ Patient(UsagePage) /\ Patient(SubscriptionPage) /\
        Patient(ToolsPage) /\ Patient(PlaygroundPage)
    BY DEF PageOf, ListOf, ServerTab, OtherPage, TracesPage, ErrorsPage, AlertsPage, AuditPage,
           UsagePage, SubscriptionPage, ToolsPage, PlaygroundPage
  <1>4. Patient(SearchPage) /\ Patient(AdminHomePage) /\ Patient(AdminAuditPage) /\
        Patient(AdminBillingPage) /\ Patient(AdminInfrastructurePage) /\
        Patient(AdminOrganizationsPage) /\ Patient(AdminPoliciesPage) /\
        Patient(AdminSecurityPage)
    BY DEF PageOf, ListOf, ServerTab, OtherPage, SearchPage, AdminHomePage, AdminAuditPage,
           AdminBillingPage, AdminInfrastructurePage, AdminOrganizationsPage,
           AdminPoliciesPage, AdminSecurityPage
  <1>5. Patient(AdminServersPage) /\ Patient(AdminTelemetryPage) /\
        Patient(AdminToolsPage) /\ Patient(AdminTrafficPage) /\ Patient(AdminUsersPage) /\
        Patient(DeveloperHomePage) /\ Patient(DeveloperKeysPage) /\
        Patient(DeveloperLogsPage)
    BY DEF PageOf, ListOf, ServerTab, OtherPage, AdminServersPage, AdminTelemetryPage,
           AdminToolsPage, AdminTrafficPage, AdminUsersPage, DeveloperHomePage,
           DeveloperKeysPage, DeveloperLogsPage
  <1>6. Patient(DeveloperServersPage) /\ Patient(DeveloperToolsPage) /\
        Patient(DeveloperUsagePage) /\ Patient(DeveloperPlaygroundPage) /\
        Patient(OnboardingPage) /\ Patient(OtherPage) /\ Patient(Outside)
    BY DEF PageOf, ListOf, ServerTab, OtherPage, DeveloperServersPage, DeveloperToolsPage,
           DeveloperUsagePage, DeveloperPlaygroundPage, OnboardingPage, Outside
  <1>7. Pages.home = HomePage /\ Pages.servers = ServersPage /\ Pages.server = ServerPage /\
        Pages.serverTools = ToolsTab /\ Pages.serverLogs = LogsTab /\
        Pages.serverTraffic = TrafficTab /\ Pages.newServer = NewServerPage /\
        Pages.keys = KeysPage /\ Pages.policies = PoliciesPage /\
        Pages.newPolicy = NewPolicyPage /\ Pages.rateLimits = RateLimitsPage /\
        Pages.access = AccessPage /\ Pages.members = MembersPage /\ Pages.logs = LogsPage /\
        Pages.traffic = TrafficPage /\ Pages.observability = ObservabilityPage
    BY DEF Pages
  <1>8. Pages.traces = TracesPage /\ Pages.errors = ErrorsPage /\ Pages.alerts = AlertsPage /\
        Pages.audit = AuditPage /\ Pages.usage = UsagePage /\
        Pages.subscription = SubscriptionPage /\ Pages.tools = ToolsPage /\
        Pages.playground = PlaygroundPage /\ Pages.search = SearchPage /\
        Pages.adminHome = AdminHomePage /\ Pages.adminAudit = AdminAuditPage /\
        Pages.adminBilling = AdminBillingPage /\
        Pages.adminInfrastructure = AdminInfrastructurePage /\
        Pages.adminOrganizations = AdminOrganizationsPage /\
        Pages.adminPolicies = AdminPoliciesPage /\ Pages.adminSecurity = AdminSecurityPage
    BY DEF Pages
  <1>9. Pages.adminServers = AdminServersPage /\ Pages.adminTelemetry = AdminTelemetryPage /\
        Pages.adminTools = AdminToolsPage /\ Pages.adminTraffic = AdminTrafficPage /\
        Pages.adminUsers = AdminUsersPage /\ Pages.developerHome = DeveloperHomePage /\
        Pages.developerKeys = DeveloperKeysPage /\ Pages.developerLogs = DeveloperLogsPage /\
        Pages.developerServers = DeveloperServersPage /\
        Pages.developerTools = DeveloperToolsPage /\
        Pages.developerUsage = DeveloperUsagePage /\
        Pages.developerPlayground = DeveloperPlaygroundPage /\
        Pages.onboarding = OnboardingPage /\ Pages.other = OtherPage /\
        Pages.outside = Outside
    BY DEF Pages
  <1>10. Pages.policy = PolicyPage /\ Pages.roles = RolesPage /\ Pages.teams = TeamsPage /\
        Pages.tool = ToolPage
    BY DEF Pages
  <1>11. /\ \A x : x \in PolicyPage.nothing /\ <<"policy", x>> \notin Hasty => x \in PolicyPage.waits
         /\ \A x : x \in RolesPage.nothing /\ <<"roles", x>> \notin Hasty => x \in RolesPage.waits
    BY DEF Hasty, PageOf, PolicyPage, RolesPage
  <1>12. /\ \A x : x \in ToolPage.nothing /\ <<"tool", x>> \notin Hasty => x \in ToolPage.waits
         /\ \A x : x \in TeamsPage.nothing /\ <<"teams", x>> \notin Hasty => x \in TeamsPage.waits
    BY DEF Hasty, PageOf, ToolPage, TeamsPage
  <1> HIDE DEF Patient
  <1>13. p \notin {"policy", "roles", "tool", "teams"} => Patient(Pages[p])
    BY <1>1, <1>2, <1>3, <1>4, <1>5, <1>6, <1>7, <1>8, <1>9, PageNames
  <1>14. p \in {"policy", "roles", "tool", "teams"} => q \in Pages[p].waits
    BY <1>10, <1>11, <1>12
  <1> QED BY <1>13, <1>14 DEF Patient

\* A request is repeated at most once (the default of query-provider.tsx).
LEMMA RetryOnce == \A q \in Queries : q.retry \in {0, 1}
  BY DEF Queries, Hook, AdHoc, Me, ListServers, GetServer, ListApiKeys, ListRoles, ListPolicies,
         ListAuditLogs, OrgGetLicense, ListTenants, OrgUsage, AdminTelemetrySummary,
         AdminTelemetryInstances, Members, Teams, License, McpTools, Healthz

\* Who reads the tables that handlers write.
LEMMA Readers ==
  ASSUME NEW q \in Queries
  PROVE  /\ "servers" \in q.of => q \in {ListServers, GetServer}
         /\ "keys" \in q.of => q = ListApiKeys
         /\ "roles" \in q.of => q = ListRoles
         /\ "policies" \in q.of => q = ListPolicies
         /\ "tenants" \in q.of => q = ListTenants
         /\ "teams" \in q.of => q \in {Members, Teams}
         /\ "members" \in q.of => q \in {Members, Teams}
         /\ "bindings" \notin q.of /\ "permissions" \notin q.of
  BY DEF Queries, Hook, AdHoc, Me, ListServers, GetServer, ListApiKeys, ListRoles, ListPolicies,
         ListAuditLogs, OrgGetLicense, ListTenants, OrgUsage, AdminTelemetrySummary,
         AdminTelemetryInstances, Members, Teams, License, McpTools, Healthz

\* A query matches its own key.
LEMMA OwnKey ==
  ASSUME NEW k, query.key = <<k>>
  PROVE  Matches(<<k>>)
  BY DEF Matches

\* Every handler goes to a page.
LEMMA HandlersGo == \A h \in Handlers : h.goes \in DOMAIN Pages
  BY DEF Pages, Handlers, Handler, Refetching, DeleteRow, HealthCheck, SaveServer, ToggleStatus,
         DeleteHere, Register, AdminDisable, AdminDelete, OnboardServer, SubmitKey, RevokeKey,
         DeveloperCreate, DeveloperRevoke, AdminRevoke, SecurityRevoke, OnboardKey, SeedRoles,
         AccessCreateRole, AddBinding, RolesCreateRole, AddPermission, RemovePermission,
         AssignMember, PublishLimit, PublishAccess, SavePolicy, DeletePolicyHere,
         DeletePolicyRow, CreateLimit, DeleteLimit, OnboardPolicy, CreateTeam,
         ToggleTeamServer, DeleteTeam, InviteMember, EditMember, DeleteMember, ProvisionTenant

\* Every handler refreshes the queries that it writes to, except for the listed ones.
LEMMA AllRefresh ==
  ASSUME query \in Queries
  PROVE  WritersRefresh
  <1> SUFFICES ASSUME NEW h \in Handlers, Writes(h, query), <<h, query>> \notin Blind
               PROVE  Refreshes(h)
    BY DEF WritersRefresh
  <1>1. CASE h \in {DeleteRow, HealthCheck, DeleteHere, AdminDisable, AdminDelete}
    <2>1. h.calls = <<"servers">> /\ ServersKey \in h.refreshes
      <3>1. CASE h = DeleteRow
        BY SMT, <3>1 DEF DeleteRow, Handler, DeleteServer, TriggerHealthProbe, UpdateServer
      <3>2. CASE h = HealthCheck
        BY SMT, <3>2 DEF HealthCheck, Handler, DeleteServer, TriggerHealthProbe, UpdateServer
      <3>3. CASE h = DeleteHere
        BY SMT, <3>3 DEF DeleteHere, Handler, DeleteServer, TriggerHealthProbe, UpdateServer
      <3>4. CASE h = AdminDisable
        BY SMT, <3>4 DEF AdminDisable, Handler, DeleteServer, TriggerHealthProbe, UpdateServer
      <3>5. CASE h = AdminDelete
        BY SMT, <3>5 DEF AdminDelete, Handler, DeleteServer, TriggerHealthProbe, UpdateServer
      <3> QED BY Zenon, <1>1, <3>1, <3>2, <3>3, <3>4, <3>5
    <2>2. query = ListServers
      BY <1>1, <2>1, Readers DEF Writes, Blind
    <2>3. query.key = <<"/v1/servers">>
      BY <2>2 DEF ListServers, Hook
    <2> QED BY <2>1, <2>3, OwnKey DEF Refreshes, ServersKey
  <1>2. CASE h \in {SaveServer, ToggleStatus}
    <2>1. h.calls = <<"servers">> /\ <<"/v1/servers/slug">> \in h.refreshes
      BY <1>2 DEF SaveServer, ToggleStatus, Handler, UpdateServer
    <2>2. query = GetServer
      BY <1>2, <2>1, Readers DEF Writes, Blind
    <2>3. query.key = <<"/v1/servers/slug">>
      BY <2>2 DEF GetServer, Hook
    <2> QED BY <2>1, <2>3, OwnKey DEF Refreshes
  <1>3. CASE h \in {Register, OnboardServer}
    <2>1. h.calls = <<"servers">>
      BY <1>3 DEF Register, OnboardServer, Handler, CreateServer
    <2> QED BY <1>3, <2>1, Readers DEF Writes, Blind
  <1>4. CASE h \in {SubmitKey, RevokeKey, DeveloperCreate, DeveloperRevoke, AdminRevoke}
    <2>1. h.calls = <<"keys">> /\ KeysKey \in h.refreshes
      <3>1. CASE h = SubmitKey
        BY SMT, <3>1 DEF SubmitKey, Handler, CreateApiKey, RevokeApiKey
      <3>2. CASE h = RevokeKey
        BY SMT, <3>2 DEF RevokeKey, Handler, CreateApiKey, RevokeApiKey
      <3>3. CASE h = DeveloperCreate
        BY SMT, <3>3 DEF DeveloperCreate, Handler, CreateApiKey, RevokeApiKey
      <3>4. CASE h = DeveloperRevoke
        BY SMT, <3>4 DEF DeveloperRevoke, Handler, CreateApiKey, RevokeApiKey
      <3>5. CASE h = AdminRevoke
        BY SMT, <3>5 DEF AdminRevoke, Handler, CreateApiKey, RevokeApiKey
      <3> QED BY Zenon, <1>4, <3>1, <3>2, <3>3, <3>4, <3>5
    <2>2. query.key = <<"/v1/api-keys">>
      BY <2>1, Readers DEF Writes, ListApiKeys, Hook
    <2> QED BY <2>1, <2>2, OwnKey DEF Refreshes, KeysKey
  <1>5. CASE h \in {SecurityRevoke, OnboardKey}
    <2>1. h.calls = <<"keys">>
      BY <1>5 DEF SecurityRevoke, OnboardKey, Handler, CreateApiKey, RevokeApiKey
    <2> QED BY <1>5, <2>1, Readers DEF Writes, Blind
  <1>6. CASE h \in {SeedRoles, AccessCreateRole, RolesCreateRole, PublishAccess}
    <2>1. /\ \A i \in DOMAIN h.calls : h.calls[i] \in {"roles", "permissions"}
          /\ RolesKey \in h.refreshes
      <3>1. CASE h = SeedRoles
        BY SMT, <3>1 DEF SeedRoles, Handler, CreateRole, CreatePermission
      <3>2. CASE h = AccessCreateRole
        BY SMT, <3>2 DEF AccessCreateRole, Handler, CreateRole, CreatePermission
      <3>3. CASE h = RolesCreateRole
        BY SMT, <3>3 DEF RolesCreateRole, Handler, CreateRole, CreatePermission
      <3>4. CASE h = PublishAccess
        BY SMT, <3>4 DEF PublishAccess, Handler, CreateRole, CreatePermission
      <3> QED BY Zenon, <1>6, <3>1, <3>2, <3>3, <3>4
    <2>2. query.key = <<"/v1/roles">>
      BY <2>1, Readers DEF Writes, ListRoles, Hook
    <2> QED BY <2>1, <2>2, OwnKey DEF Refreshes, RolesKey
  <1>7. CASE h \in {AddBinding, AddPermission, RemovePermission, AssignMember}
    <2>1. h.calls = <<"bindings">> \/ h.calls = <<"permissions">>
      BY <1>7 DEF AddBinding, AddPermission, RemovePermission, AssignMember, Handler,
                  CreateBinding, CreatePermission, DeletePermission
    <2> QED BY <2>1, Readers DEF Writes
  <1>8. CASE h \in {PublishLimit, SavePolicy, DeletePolicyHere, DeletePolicyRow, CreateLimit,
                    DeleteLimit}
    <2>1. h.calls = <<"policies">> /\ PoliciesKey \in h.refreshes
      <3>1. CASE h = PublishLimit
        BY SMT, <3>1 DEF PublishLimit, Handler, CreatePolicy, UpdatePolicy, DeletePolicy
      <3>2. CASE h = SavePolicy
        BY SMT, <3>2 DEF SavePolicy, Handler, CreatePolicy, UpdatePolicy, DeletePolicy
      <3>3. CASE h = DeletePolicyHere
        BY SMT, <3>3 DEF DeletePolicyHere, Handler, CreatePolicy, UpdatePolicy, DeletePolicy
      <3>4. CASE h = DeletePolicyRow
        BY SMT, <3>4 DEF DeletePolicyRow, Handler, CreatePolicy, UpdatePolicy, DeletePolicy
      <3>5. CASE h = CreateLimit
        BY SMT, <3>5 DEF CreateLimit, Handler, CreatePolicy, UpdatePolicy, DeletePolicy
      <3>6. CASE h = DeleteLimit
        BY SMT, <3>6 DEF DeleteLimit, Handler, CreatePolicy, UpdatePolicy, DeletePolicy
      <3> QED BY Zenon, <1>8, <3>1, <3>2, <3>3, <3>4, <3>5, <3>6
    <2>2. query.key = <<"/v1/rate-limit-policies">>
      BY <2>1, Readers DEF Writes, ListPolicies, Hook
    <2> QED BY <2>1, <2>2, OwnKey DEF Refreshes, PoliciesKey
  <1>9. CASE h = OnboardPolicy
    <2>1. h.calls = <<"policies">>
      BY <1>9 DEF OnboardPolicy, Handler, CreatePolicy
    <2> QED BY <1>9, <2>1, Readers DEF Writes, Blind
  <1>10. CASE h \in {CreateTeam, ToggleTeamServer, DeleteTeam}
    <2>1. h.calls = <<"teams">> /\ Teams \in h.refetches
      BY <1>10 DEF CreateTeam, ToggleTeamServer, DeleteTeam, Refetching, Handler
    <2> QED BY <1>10, <2>1, Readers DEF Writes, Blind, Refreshes
  <1>11. CASE h \in {InviteMember, EditMember, DeleteMember}
    <2>1. h.calls = <<"members">> /\ Members \in h.refetches
      BY <1>11 DEF InviteMember, EditMember, DeleteMember, Refetching, Handler
    <2> QED BY <1>11, <2>1, Readers DEF Writes, Blind, Refreshes
  <1>12. CASE h = ProvisionTenant
    <2>1. h.calls = <<"tenants">> /\ ListTenants \in h.refetches
      BY <1>12 DEF ProvisionTenant, Refetching, Handler
    <2> QED BY <2>1, Readers DEF Writes, Refreshes
  <1> QED BY <1>1, <1>2, <1>3, <1>4, <1>5, <1>6, <1>7, <1>8, <1>9, <1>10, <1>11, <1>12
          DEF Handlers

-----------------------------------------------------------------------------
(* Now the behaviour: the state is well typed, a handler that runs is one  *)
(* that writes what the query reads, and an observed query without data is *)
(* being fetched, or its fetch has failed.                                 *)

ToldInv ==
  /\ CacheTypeOK
  /\ \A j \in jobs : j.h \in Handlers /\ Writes(j.h, query)
  /\ (Observed(route) /\ entry.data = NoData) => (fetch.on \/ entry.failed)

VersionsOr == Versions \cup {NoData}

\* The version in a cancelled answer.
LEMMA CancelledType == ASSUME CacheTypeOK PROVE Cancelled \in VersionsOr
  BY DEF CacheTypeOK, Cancelled, VersionsOr

\* The two fetches that the console sets.
LEMMA StartedTyped ==
  /\ Started \in [on: BOOLEAN, read: VersionsOr, tries: 0 .. 1] /\ Started.on
  /\ Idle \in [on: BOOLEAN, read: VersionsOr, tries: 0 .. 1] /\ ~Idle.on
  BY DEF Started, Idle, VersionsOr

\* A page of the shell or of none is never far from a query; the pages that a handler comes
\* from and goes to are near what it writes.
LEMMA NearFacts ==
  ASSUME NEW q \in Watched
  PROVE  /\ "outside" \in Near[q] /\ Near[q] \subseteq DOMAIN Pages
         /\ \A h \in Handlers : Writes(h, q) => h.goes \in Near[q]
  <1>1. "outside" \in DOMAIN Pages /\ "other" \in DOMAIN Pages
    BY PageNames
  <1> QED BY <1>1, HandlersGo DEF Near

\* A step that keeps the page and the data, and stops no fetch.
LEMMA StayTold ==
  ASSUME ToldInv, query' = query, route' = route, db' \in Versions,
         entry' \in [data: VersionsOr, stale: BOOLEAN, failed: BOOLEAN],
         fetch' \in [on: BOOLEAN, read: VersionsOr, tries: 0 .. 1],
         late' \in VersionsOr, own' \in Versions, missed' \in BOOLEAN,
         \A j \in jobs' : j.h \in Handlers /\ Writes(j.h, query),
         entry'.data = NoData =>
           \/ ~Observed(route) \/ fetch'.on \/ entry'.failed
           \/ entry.data = NoData /\ fetch'.on = fetch.on /\ entry'.failed = entry.failed
  PROVE  ToldInv'
  <1>1. CacheTypeOK'
    BY DEF ToldInv, CacheTypeOK, VersionsOr
  <1>2. (\A j \in jobs : j.h \in Handlers /\ Writes(j.h, query))'
    BY DEF Writes
  <1>3. ((Observed(route) /\ entry.data = NoData) => (fetch.on \/ entry.failed))'
    BY DEF ToldInv, Observed
  <1> QED BY <1>1, <1>2, <1>3 DEF ToldInv

\* A change of pages.
LEMMA GoTold ==
  ASSUME ToldInv, NEW p \in Near[query], Go(p), UNCHANGED <<query, db, entry, own>>,
         jobs' \subseteq jobs
  PROVE  ToldInv'
  <1> DEFINE gone == Observed(route) /\ ~Stays(p)
             cancels == gone /\ fetch.on /\ query.signal
             running == fetch.on /\ ~cancels
             needed == Observed(p) /\ ~running /\ (entry.data = NoData \/ entry.stale)
  <1>1. /\ route' = p
        /\ late' = IF cancels THEN Cancelled ELSE late
        /\ fetch' = IF needed THEN Started ELSE IF running THEN fetch ELSE Idle
        /\ missed' = (~needed /\ (missed \/ cancels))
    BY DEF Go
  <1>2. late' \in VersionsOr /\ missed' \in BOOLEAN
    BY <1>1, CancelledType DEF ToldInv, CacheTypeOK, VersionsOr
  <1>3. fetch' \in [on: BOOLEAN, read: VersionsOr, tries: 0 .. 1]
    BY <1>1, StartedTyped DEF ToldInv, CacheTypeOK, VersionsOr
  <1>4. CacheTypeOK'
    BY <1>1, <1>2, <1>3 DEF ToldInv, CacheTypeOK, VersionsOr
  <1>5. (\A j \in jobs : j.h \in Handlers /\ Writes(j.h, query))'
    BY DEF ToldInv, Writes
  <1>6. (Observed(p) /\ entry.data = NoData) => fetch'.on
    BY <1>1, StartedTyped
  <1>7. ((Observed(route) /\ entry.data = NoData) => (fetch.on \/ entry.failed))'
    BY <1>1, <1>6 DEF Observed
  <1> QED BY <1>4, <1>5, <1>7 DEF ToldInv

\* A refresh restarts the fetch or leaves it alone, and loses no data.
LEMMA RefreshTold ==
  ASSUME ToldInv, NEW h, Refresh(h)
  PROVE  /\ entry' \in [data: VersionsOr, stale: BOOLEAN, failed: BOOLEAN]
         /\ entry'.data = entry.data /\ entry'.failed = entry.failed
         /\ fetch' = fetch \/ fetch' = Started
         /\ late' \in VersionsOr /\ missed' \in BOOLEAN
  <1>1. /\ entry \in [data: VersionsOr, stale: BOOLEAN, failed: BOOLEAN]
        /\ late \in VersionsOr /\ missed \in BOOLEAN /\ Cancelled \in VersionsOr
    BY CancelledType DEF ToldInv, CacheTypeOK, VersionsOr
  <1>2. entry' = entry \/ entry' = [entry EXCEPT !.stale = TRUE]
    BY DEF Refresh
  <1>3. fetch' = fetch \/ fetch' = Started
    BY RestartFetch DEF Refresh
  <1>4. late' = late \/ late' = Cancelled
    BY DEF Refresh, Restart
  <1>5. missed' \in BOOLEAN
    BY <1>1 DEF Refresh, Restart
  <1> QED BY <1>1, <1>2, <1>3, <1>4, <1>5

\* It holds before any page was opened.
LEMMA ToldInvInit == CacheInit => ToldInv
  <1> SUFFICES ASSUME CacheInit PROVE ToldInv
    OBVIOUS
  <1>1. db \in Versions /\ own \in Versions
    BY CacheAssumption DEF CacheInit, CacheAssumption, Versions
  <1>2. /\ entry = [data |-> NoData, stale |-> FALSE, failed |-> FALSE] /\ fetch = Idle
        /\ late = NoData /\ route = "outside" /\ jobs = {} /\ missed = FALSE /\ query \in Watched
    BY DEF CacheInit
  <1>3. CacheTypeOK
    BY <1>1, <1>2, StartedTyped, NearFacts DEF CacheTypeOK, VersionsOr
  <1>4. ~Observed("outside")
    BY DEF Observed, Pages, Outside, OtherPage, PageOf
  <1> QED BY <1>2, <1>3, <1>4 DEF ToldInv

\* Every step preserves it.
LEMMA ToldInvStep ==
  ASSUME CacheInv, WritesInv, ToldInv, [CacheNext]_cacheVars
  PROVE  ToldInv'
  <1>1. /\ query \in Watched /\ db \in Versions /\ route \in Near[query]
        /\ entry \in [data: VersionsOr, stale: BOOLEAN, failed: BOOLEAN]
        /\ fetch \in [on: BOOLEAN, read: VersionsOr, tries: 0 .. 1]
        /\ late \in VersionsOr /\ own \in Versions /\ missed \in BOOLEAN
        /\ \A j \in jobs : j.h \in Handlers /\ Writes(j.h, query)
    BY DEF ToldInv, CacheTypeOK, VersionsOr
  <1>2. ASSUME NEW p \in Near[query], Visit(p) PROVE ToldInv'
    BY <1>2, GoTold DEF Visit
  <1>3. CASE FetchReads
    <2>1. /\ fetch' = [fetch EXCEPT !.read = db]
          /\ UNCHANGED <<query, db, entry, late, route, jobs, own, missed>>
      BY <1>3 DEF FetchReads
    <2>2. fetch' \in [on: BOOLEAN, read: VersionsOr, tries: 0 .. 1] /\ fetch'.on = fetch.on
      BY <1>1, <2>1 DEF VersionsOr
    <2> QED BY <1>1, <2>1, <2>2, StayTold
  <1>4. CASE FetchAnswers
    <2>1. /\ fetch.read # NoData /\ fetch' = Idle
          /\ entry' = [data |-> fetch.read, stale |-> FALSE, failed |-> FALSE]
          /\ UNCHANGED <<query, db, late, route, jobs, own, missed>>
      BY <1>4 DEF FetchAnswers
    <2>2. /\ entry' \in [data: VersionsOr, stale: BOOLEAN, failed: BOOLEAN]
          /\ entry'.data # NoData
      BY <1>1, <2>1
    <2> QED BY <1>1, <2>1, <2>2, StartedTyped, StayTold
  <1>5. CASE FetchFails
    <2>1. UNCHANGED <<query, db, late, route, jobs, own, missed>>
      BY <1>5 DEF FetchFails
    <2>2. CASE /\ fetch.tries < query.retry
               /\ fetch' = [on |-> TRUE, read |-> NoData, tries |-> fetch.tries + 1]
               /\ entry' = entry
      <3>1. query.retry \in {0, 1} /\ fetch.tries \in 0 .. 1
        BY <1>1, RetryOnce, CacheAssumption DEF CacheAssumption
      <3>2. fetch.tries + 1 \in 0 .. 1
        BY <2>2, <3>1
      <3>3. fetch' \in [on: BOOLEAN, read: VersionsOr, tries: 0 .. 1] /\ fetch'.on
        BY <2>2, <3>2 DEF VersionsOr
      <3> QED BY <1>1, <2>1, <2>2, <3>3, StayTold
    <2>3. CASE fetch' = Idle /\ entry' = [entry EXCEPT !.stale = TRUE, !.failed = TRUE]
      <3>1. entry' \in [data: VersionsOr, stale: BOOLEAN, failed: BOOLEAN] /\ entry'.failed
        BY <1>1, <2>3
      <3> QED BY <1>1, <2>1, <2>3, <3>1, StartedTyped, StayTold
    <2> QED BY <1>5, <2>2, <2>3 DEF FetchFails
  <1>6. CASE LateAnswer
    <2>1. late' = NoData /\ UNCHANGED <<query, db, entry, fetch, route, jobs, own, missed>>
      BY <1>6 DEF LateAnswer
    <2>2. late' \in VersionsOr
      BY <2>1 DEF VersionsOr
    <2> QED BY <1>1, <2>1, <2>2, StayTold
  <1>7. CASE StaleTime
    <2>1. /\ entry' = [entry EXCEPT !.stale = TRUE]
          /\ UNCHANGED <<query, db, fetch, late, route, jobs, own, missed>>
      BY <1>7 DEF StaleTime
    <2>2. /\ entry' \in [data: VersionsOr, stale: BOOLEAN, failed: BOOLEAN]
          /\ entry'.data = entry.data /\ entry'.failed = entry.failed
      BY <1>1, <2>1
    <2> QED BY <1>1, <2>1, <2>2, StayTold
  <1>8. CASE Focus \/ Poll
    <2>1. /\ fetch' = Started /\ missed' = FALSE
          /\ UNCHANGED <<query, db, entry, late, route, jobs, own>>
      BY <1>8 DEF Focus, Poll, Begin
    <2> QED BY <1>1, <2>1, StartedTyped, StayTold
  <1>9. CASE Collect
    <2>1. /\ ~Observed(route) /\ entry' = [data |-> NoData, stale |-> FALSE, failed |-> FALSE]
          /\ UNCHANGED <<query, db, fetch, late, route, jobs, own, missed>>
      BY <1>9 DEF Collect
    <2>2. entry' \in [data: VersionsOr, stale: BOOLEAN, failed: BOOLEAN]
      BY <2>1 DEF VersionsOr
    <2> QED BY <1>1, <2>1, <2>2, StayTold
  <1>10. ASSUME NEW h \in Handlers, StartHandler(h) PROVE ToldInv'
    <2>1. /\ jobs' = jobs \cup {Job(h, 1, FALSE, 0)} /\ Writes(h, query)
          /\ UNCHANGED <<query, db, entry, fetch, late, route, own, missed>>
      BY <1>10 DEF StartHandler
    <2>2. \A j \in jobs' : j.h \in Handlers /\ Writes(j.h, query)
      BY <1>1, <2>1 DEF Job
    <2> QED BY <1>1, <2>1, <2>2, StayTold
  <1>11. ASSUME NEW j \in jobs, Serve(j) PROVE ToldInv'
    <2>1. /\ db' = db \/ (db < MaxVersion /\ db' = db + 1)
          /\ UNCHANGED <<query, entry, fetch, late, route, own, missed>>
      BY <1>11 DEF Serve
    <2>2. db' \in Versions
      BY <1>1, <2>1, CacheAssumption DEF Versions, CacheAssumption
    <2>3. \A i \in jobs' : i.h \in Handlers /\ Writes(i.h, query)
      BY <1>1, <1>11 DEF Serve, Job
    <2> QED BY <1>1, <2>1, <2>2, <2>3, StayTold
  <1>12. ASSUME NEW j \in jobs, Proceed(j) PROVE ToldInv'
    <2>1. UNCHANGED <<query, db, route>>
      BY <1>12 DEF Proceed
    <2>2. \A i \in jobs' : i.h \in Handlers /\ Writes(i.h, query)
      BY <1>1, <1>12 DEF Proceed, Job
    <2>3. j.wrote \in Nat /\ j.wrote <= db
      BY DEF WritesInv
    <2>4. j.wrote \in Versions
      BY <1>1, <2>3, CacheAssumption DEF Versions, CacheAssumption
    <2>5. CASE Refresh(j.h) /\ own' \in {j.wrote, own}
      <3>1. fetch' = fetch \/ (fetch' = Started /\ fetch'.on)
        BY <2>5, RefreshTold, StartedTyped
      <3>2. fetch' \in [on: BOOLEAN, read: VersionsOr, tries: 0 .. 1]
        BY <1>1, <3>1, StartedTyped
      <3>3. own' \in Versions
        BY <1>1, <2>4, <2>5
      <3> QED BY <1>1, <2>1, <2>2, <2>5, <3>1, <3>2, <3>3, RefreshTold, StayTold
    <2>6. CASE UNCHANGED <<entry, fetch, late, own, missed>>
      BY <1>1, <2>1, <2>2, <2>6, StayTold
    <2> QED BY <1>12, <2>5, <2>6 DEF Proceed
  <1>13. ASSUME NEW j \in jobs, CallAnswered(j) \/ CallFails(j) PROVE ToldInv'
    <2>1. \/ Proceed(j)
          \/ /\ jobs' = jobs \ {j}
             /\ UNCHANGED <<query, db, entry, fetch, late, route, own, missed>>
      BY <1>13 DEF CallAnswered, CallFails
    <2>2. CASE /\ jobs' = jobs \ {j}
               /\ UNCHANGED <<query, db, entry, fetch, late, route, own, missed>>
      BY <1>1, <2>2, StayTold
    <2> QED BY <1>12, <2>1, <2>2
  <1>14. ASSUME NEW j \in jobs, Redirect(j) PROVE ToldInv'
    <2>1. Go(j.h.goes) /\ jobs' = jobs \ {j} /\ UNCHANGED <<query, db, entry, own>>
      BY <1>14 DEF Redirect
    <2>2. j.h.goes \in Near[query]
      BY <1>1, NearFacts
    <2> QED BY <2>1, <2>2, GoTold
  <1>15. CASE OthersWrite
    <2>1. /\ db < MaxVersion /\ db' = db + 1
          /\ UNCHANGED <<query, entry, fetch, late, route, jobs, own, missed>>
      BY <1>15 DEF OthersWrite
    <2>2. db' \in Versions
      BY <1>1, <2>1, CacheAssumption DEF Versions, CacheAssumption
    <2> QED BY <1>1, <2>1, <2>2, StayTold
  <1>16. CASE UNCHANGED cacheVars
    <2>1. UNCHANGED <<query, db, entry, fetch, late, route, jobs, own, missed>>
      BY <1>16 DEF cacheVars
    <2> QED BY <1>1, <2>1, StayTold
  <1> QED BY <1>2, <1>3, <1>4, <1>5, <1>6, <1>7, <1>8, <1>9, <1>10, <1>11, <1>13, <1>14, <1>15,
             <1>16 DEF CacheNext

\* Pages are told what they must know, for any of the console's queries, any number of
\* writes and of handlers in flight: handlers refresh what they write, and a page says that
\* there is nothing only when the backend said so or the fetch failed.
THEOREM ConsoleTellsItsPages == CacheSpec => []PagesAreTold
  <1>1. CacheInit => CacheInv /\ WritesInv /\ ToldInv
    BY CacheInvInit, WritesInvInit, ToldInvInit
  <1>2. CacheInv /\ WritesInv /\ ToldInv /\ [CacheNext]_cacheVars
          => (CacheInv /\ WritesInv /\ ToldInv)'
    BY CacheInvStep, WritesInvStep, ToldInvStep
  <1>3. ToldInv => PagesAreTold
    <2> SUFFICES ASSUME ToldInv PROVE PagesAreTold
      OBVIOUS
    <2>1. CacheTypeOK /\ query \in Watched /\ route \in DOMAIN Pages
      BY NearFacts DEF ToldInv, CacheTypeOK
    <2>2. WritersRefresh
      BY <2>1, AllRefresh, CacheAssumption DEF CacheAssumption
    <2>3. ASSUME Shows = "none", query \in Pages[route].nothing, <<route, query>> \notin Hasty
          PROVE  entry.data = 0 \/ entry.failed
      <3>1. query \in Pages[route].waits
        BY <2>1, <2>3, NothingWaits
      <3>2. query \in Pages[route].mounts
        BY <2>3 DEF Shows
      <3>3. CASE entry.data # NoData
        BY <2>3, <3>2, <3>3 DEF Shows
      <3>4. CASE entry.data = NoData
        <4>1. ~fetch.on
          BY <2>3, <3>1, <3>2, <3>4 DEF Shows
        <4> QED BY <3>2, <3>4, <4>1 DEF ToldInv, Observed
      <3> QED BY <3>3, <3>4
    <2>4. NoneIsKnown
      BY <2>3 DEF NoneIsKnown
    <2> QED BY <2>1, <2>2, <2>4 DEF PagesAreTold
  <1> QED BY <1>1, <1>2, <1>3, PTL DEF CacheSpec
===============================================================================
