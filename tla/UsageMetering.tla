---------------------------- MODULE UsageMetering ----------------------------
(***************************************************************************)
(* Usage metering (usage.py, usage_queue.py, repositories/usage.py): the    *)
(* requests of each replica put deltas into an in-memory queue, its flush   *)
(* loop aggregates them and upserts one row per tenant and day in one       *)
(* transaction. Transactions of the replicas meet on the row locks of       *)
(* Postgres. One day; a delta counts one tool call.                         *)
(***************************************************************************)
EXTENDS Integers, Sequences, FiniteSets, Functions

CONSTANTS Replicas, Tenants,
          Events,       \* bound: the deltas that are recorded
          Tenant,       \* [Events -> Tenants]
          Route,        \* bound: [Events -> replicas that may serve the request]
          QueueSize, MaxBatch,
          Stop,         \* the None that ends the loop
          None

ASSUME MeteringAssumption ==
  /\ QueueSize \in Nat \ {0} /\ MaxBatch \in Nat \ {0}
  /\ Tenant \in [Events -> Tenants] /\ Route \in [Events -> SUBSET Replicas]
  /\ Stop \notin Events
  /\ None \notin Nat \cup Replicas

VARIABLES
  place,      \* [Events -> where the delta is, or what became of it]
  home,       \* [Events -> the replica that recorded it, or None]
  queue,      \* [Replicas -> sequence of events and Stop]
  loop,       \* [Replicas -> where _flush_loop is]
  batch,      \* [Replicas -> sequence of events]
  final,      \* [Replicas -> the loop returns after this flush]
  todo,       \* [Replicas -> tenants the open transaction has still to upsert]
  skipped,    \* [Replicas -> tenants whose increment did nothing]
  read,       \* [Replicas -> [Tenants -> the count its SELECT returned, or None]]
  lock,       \* row locks of usage_daily: [Tenants -> Replicas or None]
  usage,      \* usage_daily: [Tenants -> Nat], as committed
  fellBack,   \* history: the tenants whose row a flush read and wrote back
  stopping    \* [Replicas -> how far stop() is]

vars == <<place, home, queue, loop, batch, final, todo, skipped, read, lock, usage, fellBack,
          stopping>>

Held == {"direct", "queued"}
Fates == {"stored",
          "dropped",   \* lost as ADR-010 says: with a warning, or in a crash
          "silent"}    \* lost otherwise

(* Queues and batches hold deltas within their sizes (QueueSize, MaxBatch). *)
TypeOK ==
  /\ place \in [Events -> {"new"} \cup Held \cup Fates]
  /\ home \in [Events -> Replicas \cup {None}]
  /\ queue \in [Replicas -> Seq(Events \cup {Stop})]
  /\ \A r \in Replicas : Len(queue[r]) <= QueueSize /\ Len(batch[r]) <= MaxBatch
  /\ loop \in [Replicas -> {"get", "sleep", "flush", "done"}]
  /\ batch \in [Replicas -> Seq(Events)]
  /\ final \in [Replicas -> BOOLEAN]
  /\ todo \in [Replicas -> SUBSET Tenants] /\ skipped \in [Replicas -> SUBSET Tenants]
  /\ read \in [Replicas -> [Tenants -> Nat \cup {None}]]
  /\ lock \in [Tenants -> Replicas \cup {None}]
  /\ usage \in [Tenants -> Nat]
  /\ fellBack \subseteq Tenants
  /\ stopping \in [Replicas -> {"no", "wait", "done"}]

Init ==
  /\ place = [e \in Events |-> "new"]
  /\ home = [e \in Events |-> None]
  /\ queue = [r \in Replicas |-> <<>>]
  /\ loop = [r \in Replicas |-> "get"]
  /\ batch = [r \in Replicas |-> <<>>]
  /\ final = [r \in Replicas |-> FALSE]
  /\ todo = [r \in Replicas |-> {}] /\ skipped = [r \in Replicas |-> {}]
  /\ read = [r \in Replicas |-> [t \in Tenants |-> None]]
  /\ lock = [t \in Tenants |-> None]
  /\ usage = [t \in Tenants |-> 0]
  /\ fellBack = {}
  /\ stopping = [r \in Replicas |-> "no"]

-----------------------------------------------------------------------------
(* The deltas of replica r in some places. *)
Of(r, places) == {e \in Events : place[e] \in places /\ home[e] = r}

Become(events, what) == place' = [e \in Events |-> IF e \in events THEN what ELSE place[e]]

(* record_usage_queued: a full queue falls back to a direct write. *)
RecordUsage(r, e) ==
  /\ place[e] = "new" /\ r \in Route[e] /\ stopping[r] = "no"
  /\ IF Len(queue[r]) < QueueSize
     THEN /\ queue' = [queue EXCEPT ![r] = Append(@, e)]
          /\ Become({e}, "queued")
     ELSE Become({e}, "direct") /\ UNCHANGED queue
  /\ home' = [home EXCEPT ![e] = r]
  /\ UNCHANGED <<loop, batch, final, todo, skipped, read, lock, usage, fellBack, stopping>>

(* record_usage: a transaction with one upsert, which waits for the row. *)
DirectWrite(r, e) ==
  /\ e \in Of(r, {"direct"})
  /\ lock[Tenant[e]] = None
  /\ usage' = [usage EXCEPT ![Tenant[e]] = @ + 1]
  /\ Become({e}, "stored")
  /\ UNCHANGED <<home, queue, loop, batch, final, todo, skipped, read, lock, fellBack, stopping>>

(* A connection lost on the way fails the COMMIT, which is logged; one that is
   refused fails inside increment, which is not, and leaves nothing to commit. *)
DirectWriteFails(r, e) ==
  /\ e \in Of(r, {"direct"})
  /\ \E what \in {"dropped", "silent"} : Become({e}, what)
  /\ UNCHANGED <<home, queue, loop, batch, final, todo, skipped, read, lock, usage, fellBack, stopping>>

-----------------------------------------------------------------------------
(* get_nowait until the batch is full, the queue is empty or Stop comes out of
   it: how many events are taken, and whether Stop was. *)
Taken(q, room) ==
  CHOOSE n \in 0..Len(q) :
    /\ n <= room /\ \A i \in 1..n : q[i] # Stop
    /\ n = room \/ n = Len(q) \/ q[n + 1] = Stop

StopTaken(q, room) == Taken(q, room) < room /\ Taken(q, room) < Len(q)

TenantsOf(b) == {Tenant[e] : e \in Range(b)}

\* mutant: Stop ends the loop and the batch with it
DrainLosing(r, b, q, next) ==
  LET room == MaxBatch - Len(b)
      n == Taken(q, room)
      stop == StopTaken(q, room)
      all == b \o SubSeq(q, 1, n)
  IN  /\ batch' = [batch EXCEPT ![r] = IF stop THEN <<>> ELSE all]
      /\ queue' = [queue EXCEPT ![r] = SubSeq(q, n + 1 + (IF stop THEN 1 ELSE 0), Len(q))]
      /\ final' = [final EXCEPT ![r] = stop]
      /\ loop' = [loop EXCEPT ![r] = IF stop THEN "done" ELSE next]
      /\ todo' = [todo EXCEPT ![r] = IF next = "flush" /\ ~stop THEN TenantsOf(all) ELSE {}]

(* Take what the queue has into batch b; after Stop the batch is flushed and
   the loop returns. *)
Drain(r, b, q, next) ==
  LET room == MaxBatch - Len(b)
      n == Taken(q, room)
      stop == StopTaken(q, room)
      all == b \o SubSeq(q, 1, n)
      then == IF stop THEN "flush" ELSE next
  IN  /\ batch' = [batch EXCEPT ![r] = all]
      /\ queue' = [queue EXCEPT ![r] = SubSeq(q, n + 1 + (IF stop THEN 1 ELSE 0), Len(q))]
      /\ final' = [final EXCEPT ![r] = stop]
      /\ loop' = [loop EXCEPT ![r] = then]
      /\ todo' = [todo EXCEPT ![r] = IF then = "flush" THEN TenantsOf(all) ELSE {}]

(* _flush_loop waits for a first item; Stop as the first item ends it. *)
Get(r) ==
  /\ loop[r] = "get" /\ queue[r] # <<>>
  /\ IF Head(queue[r]) = Stop
     THEN /\ queue' = [queue EXCEPT ![r] = Tail(@)]
          /\ loop' = [loop EXCEPT ![r] = "done"]
          /\ UNCHANGED <<batch, final, todo>>
     ELSE Drain(r, <<Head(queue[r])>>, Tail(queue[r]), "sleep")
  /\ UNCHANGED <<place, home, skipped, read, lock, usage, fellBack, stopping>>

\* mutant: only full batches are flushed
WakeWhenFull(r) ==
  /\ loop[r] = "sleep"
  /\ Len(batch[r]) + Taken(queue[r], MaxBatch) >= MaxBatch
  /\ Drain(r, batch[r], queue[r], "flush")
  /\ UNCHANGED <<place, home, skipped, read, lock, usage, fellBack, stopping>>

(* After the sleep that coalesces bursts, once more. *)
Wake(r) ==
  /\ loop[r] = "sleep"
  /\ Drain(r, batch[r], queue[r], "flush")
  /\ UNCHANGED <<place, home, skipped, read, lock, usage, fellBack, stopping>>

-----------------------------------------------------------------------------
(* aggregated has the tenants of the batch in the order of their first delta. *)
IsNext(r, t) ==
  /\ loop[r] = "flush" /\ t \in todo[r]
  /\ \E i \in DOMAIN batch[r] :
       Tenant[batch[r][i]] = t /\ \A j \in 1..(i - 1) : Tenant[batch[r][j]] \notin todo[r]

(* _flush: one upsert after the other, each keeps its row locked until the
   transaction ends. *)
Upsert(r) ==
  /\ \E t \in Tenants :
       /\ IsNext(r, t) /\ lock[t] \in {None, r}
       /\ lock' = [lock EXCEPT ![t] = r]
       /\ todo' = [todo EXCEPT ![r] = @ \ {t}]
  /\ UNCHANGED <<place, home, queue, loop, batch, final, skipped, read, usage, fellBack, stopping>>

Open(r) == \E t \in Tenants : lock[t] = r \/ read[r][t] # None

(* No connection for the upsert nor for the SELECT after it: increment returns
   as if it had counted, and the loop goes on with the next tenant. *)
ConnectFails(r) ==
  /\ ~Open(r)
  /\ \E t \in Tenants :
       /\ IsNext(r, t)
       /\ skipped' = [skipped EXCEPT ![r] = @ \cup {t}]
       /\ todo' = [todo EXCEPT ![r] = @ \ {t}]
  /\ UNCHANGED <<place, home, queue, loop, batch, final, read, lock, usage, fellBack, stopping>>

(* No connection for the upsert, but one for the SELECT: the row's count plus
   the delta is what the transaction will write. (The row exists.) *)
FallbackReads(r) ==
  /\ ~Open(r)
  /\ \E t \in Tenants :
       /\ IsNext(r, t)
       /\ read' = [read EXCEPT ![r][t] = usage[t]]
       /\ fellBack' = fellBack \cup {t}
       /\ todo' = [todo EXCEPT ![r] = @ \ {t}]
  /\ UNCHANGED <<place, home, queue, loop, batch, final, skipped, lock, usage, stopping>>

(* The transaction is over, what became of the deltas of each tenant is known. *)
EndFlush(r, fate) ==
  /\ place' = [e \in Events |-> IF e \in Range(batch[r]) THEN fate[Tenant[e]] ELSE place[e]]
  /\ batch' = [batch EXCEPT ![r] = <<>>]
  /\ todo' = [todo EXCEPT ![r] = {}]
  /\ skipped' = [skipped EXCEPT ![r] = {}]
  /\ read' = [read EXCEPT ![r] = [t \in Tenants |-> None]]
  /\ lock' = [t \in Tenants |-> IF lock[t] = r THEN None ELSE lock[t]]
  /\ loop' = [loop EXCEPT ![r] = IF final[r] THEN "done" ELSE "get"]
  /\ UNCHANGED <<home, queue, final, fellBack, stopping>>

AllOf(what) == [t \in Tenants |-> what]

Counted(r) == [t \in Tenants |-> IF t \in skipped[r] THEN "silent" ELSE "stored"]

(* aggregated: the sum of the batch's deltas for a tenant. *)
Deltas(r, t) ==
  IF t \in skipped[r] THEN 0
  ELSE Cardinality({i \in DOMAIN batch[r] : Tenant[batch[r][i]] = t})

\* mutant: the upsert sets the row to the delta of the batch
CommitFlushSets(r) ==
  /\ loop[r] = "flush" /\ todo[r] = {}
  /\ usage' = [t \in Tenants |-> IF lock[t] = r THEN Deltas(r, t) ELSE usage[t]]
  /\ EndFlush(r, Counted(r))

(* COMMIT; a row that the fallback read is written first, and may be locked.
   When only the answer is lost the deltas are stored all the same, since
   nothing writes them again. *)
CommitFlush(r) ==
  /\ loop[r] = "flush" /\ todo[r] = {}
  /\ \A t \in Tenants : read[r][t] # None => lock[t] \in {None, r}
  /\ usage' = [t \in Tenants |->
                 (IF read[r][t] = None THEN usage[t] ELSE read[r][t]) + Deltas(r, t)]
  /\ EndFlush(r, Counted(r))

(* The connection is lost inside the transaction: usage.queue_flush_failed. *)
FlushFails(r) ==
  /\ loop[r] = "flush" /\ Open(r)
  /\ EndFlush(r, AllOf("dropped"))
  /\ UNCHANGED usage

(* The rows that the transaction needs next. *)
Needs(r) == {t \in Tenants : IsNext(r, t) \/ (todo[r] = {} /\ read[r][t] # None)}

Waits(r, q) == loop[r] = "flush" /\ \E t \in Needs(r) : lock[t] = q

(* Postgres ends a deadlock by failing one statement and with it the
   transaction. increment swallows the error of an upsert, as it does that of
   its SELECT in the failed transaction, and the COMMIT is then a rollback that
   reports no error. A write that waits in the COMMIT itself is logged. *)
DeadlockDetected(r) ==
  /\ \E q \in Replicas \ {r} : Waits(r, q) /\ Waits(q, r)
  /\ EndFlush(r, AllOf(IF todo[r] # {} THEN "silent" ELSE "dropped"))
  /\ UNCHANGED usage

-----------------------------------------------------------------------------
(* stop, from the lifespan's shutdown, when requests are over: the put waits
   for room. *)
StopQueue(r) ==
  /\ stopping[r] = "no"
  /\ Of(r, {"direct"}) = {}
  /\ Len(queue[r]) < QueueSize
  /\ queue' = [queue EXCEPT ![r] = Append(@, Stop)]
  /\ stopping' = [stopping EXCEPT ![r] = "wait"]
  /\ UNCHANGED <<place, home, loop, batch, final, todo, skipped, read, lock, usage, fellBack>>

Stopped(r) ==
  /\ stopping[r] = "wait" /\ loop[r] = "done"
  /\ stopping' = [stopping EXCEPT ![r] = "done"]
  /\ UNCHANGED <<place, home, queue, loop, batch, final, todo, skipped, read, lock, usage, fellBack>>

(* The process dies and starts again; Postgres rolls its transaction back. *)
Crash(r) ==
  /\ stopping[r] # "done"
  /\ Become(Of(r, Held), "dropped")
  /\ queue' = [queue EXCEPT ![r] = <<>>]
  /\ loop' = [loop EXCEPT ![r] = "get"]
  /\ batch' = [batch EXCEPT ![r] = <<>>]
  /\ final' = [final EXCEPT ![r] = FALSE]
  /\ todo' = [todo EXCEPT ![r] = {}]
  /\ skipped' = [skipped EXCEPT ![r] = {}]
  /\ lock' = [t \in Tenants |-> IF lock[t] = r THEN None ELSE lock[t]]
  /\ read' = [read EXCEPT ![r] = [t \in Tenants |-> None]]
  /\ stopping' = [stopping EXCEPT ![r] = "no"]
  /\ UNCHANGED <<home, usage, fellBack>>

Flush(r) == Upsert(r) \/ CommitFlush(r) \/ DeadlockDetected(r)
Outage(r) == ConnectFails(r) \/ FallbackReads(r) \/ FlushFails(r)
Direct(r, e) == DirectWrite(r, e) \/ DirectWriteFails(r, e)

Next ==
  \E r \in Replicas :
    \/ \E e \in Events : RecordUsage(r, e) \/ Direct(r, e)
    \/ Get(r) \/ Wake(r) \/ Flush(r) \/ Outage(r)
    \/ StopQueue(r) \/ Stopped(r) \/ Crash(r)

Spec == Init /\ [][Next]_vars

(* The loop is a task of the event loop and sleeps are finite; a statement
   whose row is free returns, and Postgres breaks deadlocks. *)
FairSpec ==
  /\ Spec
  /\ \A r \in Replicas :
       /\ WF_vars(Get(r)) /\ WF_vars(Wake(r)) /\ WF_vars(Flush(r)) /\ WF_vars(Stopped(r))
       /\ \A e \in Events : WF_vars(Direct(r, e))

-----------------------------------------------------------------------------
Stored(t) == {e \in Events : place[e] = "stored" /\ Tenant[e] = t}

(* Exact counts: the committed counter of a tenant is the number of its deltas
   that were stored, each once, whichever of the queue, the fallback of a full
   queue, crashes and deadlocked transactions they went through. Where a flush
   read the row and wrote it back, increments of others can be overwritten: the
   counter is then never too high. *)
CountsExact ==
  \A t \in Tenants :
    LET stored == Cardinality(Stored(t))
    IN  usage[t] <= stored /\ (t \notin fellBack => usage[t] = stored)

(* What a replica has taken from its queue, and what it has still to take. *)
Memory(r) == batch[r] \o queue[r]

HeldOnce(r) == Range(Memory(r)) \ {Stop} = Of(r, {"queued"}) /\ IsInjective(Memory(r))

(* Nothing is mislaid: a delta that a request handed to the queue is in the
   queue or the batch of its replica, once, until its fate is known; after
   stop() both are empty. (And the state is well typed, within its bounds.) *)
NothingMislaid ==
  /\ TypeOK
  /\ \A r \in Replicas : HeldOnce(r) /\ (stopping[r] = "done" => Memory(r) = <<>>)

(* What makes the two inductive. Stop is the last thing a replica puts into its
   queue, so that the loop that has met it leaves nothing behind. *)
StopIsLast(r) ==
  /\ \A i \in 1..Len(queue[r]) : queue[r][i] = Stop => i = Len(queue[r]) /\ stopping[r] = "wait"
  /\ loop[r] \in {"get", "done"} => batch[r] = <<>>
  /\ (loop[r] = "done" \/ final[r]) => (queue[r] = <<>> /\ stopping[r] # "no")
  /\ stopping[r] = "done" => loop[r] = "done"

(* A count that a fallback has read, and will write back, is not too high. *)
ReadsAreOld ==
  \A t \in Tenants :
    /\ IsFiniteSet(Stored(t))
    /\ \A r \in Replicas :
         read[r][t] # None => t \in fellBack /\ read[r][t] <= Cardinality(Stored(t))

IInv ==
  /\ TypeOK /\ \A r \in Replicas : HeldOnce(r) /\ StopIsLast(r)
  /\ CountsExact /\ ReadsAreOld

(* Shutdown completes: a stop() that has queued its marker returns (or the
   process dies), also when it met a full queue or a flush waits for rows that
   another replica has locked. *)
StopReturns == \A r \in Replicas : stopping[r] = "wait" ~> stopping[r] # "wait"

(* Deltas do not stay in memory for ever. *)
DeltasSettle == \A e \in Events : place[e] \in Held ~> place[e] \in Fates

(* The queue comes to rest: what was put into it leaves it, and a stop() that waits
   for that returns. *)
QueueSettles == StopReturns /\ DeltasSettle

-----------------------------------------------------------------------------
(* ADR-010: "Queue-full/flush failures drop counters with a warning": no delta
   is lost in increment without record_usage or _flush logging it. *)
DropsAreWarned == \A e \in Events : place[e] # "silent"
=============================================================================
