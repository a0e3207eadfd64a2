------------------------------- MODULE Gateway -------------------------------
(***************************************************************************)
(* The proxy pipeline of gateway/router.py with the session registry of     *)
(* gateway/session.py: POST /mcp/{slug} (mcp_proxy) and GET /mcp/{slug}     *)
(* (mcp_sse_stream) handled concurrently by any number of workers. Each     *)
(* action ends at an await, where the handlers of other requests run.       *)
(*                                                                          *)
(* What the limiter, the registry and the permission rules decide is left   *)
(* open here: RateLimitPolicies, ServerHealth and Permissions model it.     *)
(***************************************************************************)
EXTENDS Integers, FiniteSets

CONSTANTS Workers,  \* handler slots: each handles one request after the other
          Owners,   \* (tenant, subject, server slug) triples a session is pinned to
          Ids,      \* session ids of a valid shape
          BadId,    \* a session id that is_valid_session_id rejects
          None,
          Shapes    \* the request shapes of the instance, see Shape

Methods == {"tools/call", "resources/subscribe", "tools/list", "initialize",
            "session/terminate", "GET"}

(* rpc_id: the request has an id (is no notification); sse: the client accepts
   text/event-stream. *)
Shape == [method : Methods, rpc_id : BOOLEAN, dry_run : BOOLEAN, sse : BOOLEAN]

(* GET takes the steps of POST that a request without body, RBAC'd method,
   dry run, cap and list filter takes, and its answer is always streamed. *)
StreamShape == [method |-> "GET", rpc_id |-> TRUE, dry_run |-> FALSE, sse |-> TRUE]

ASSUME GatewayAssumption ==
  /\ Shapes \subseteq Shape
  /\ \A sh \in Shapes : sh.method = "GET" => sh = StreamShape
  /\ None \notin Ids \cup {BadId} \cup Owners /\ BadId \notin Ids

VARIABLES
  sessions,  \* Redis: mcp-session:{id}
  stage,     \* where each worker's handler stands
  shape, who, inbound,  \* its request: shape, owner triple, Mcp-Session-Id
  upstream,  \* the Mcp-Session-Id of the upstream's answer
  status,    \* HTTP status of the reply
  handed,    \* the Mcp-Session-Id of the reply
  open,      \* its upstream response is a stream that nobody closes yet
  issued,    \* history: owners to whom an upstream issued or echoed an id
  charged,   \* history: admissions of the rate limiter the request used
  forwarded, \* history: it was sent upstream
  events,    \* history: outcomes of the audit events it recorded
  metered    \* history: requests it added to the usage counters

request == <<shape, who, inbound>>
history == <<charged, forwarded, events, metered>>
answer == <<upstream, handed, open>>
vars == <<sessions, stage, request, answer, status, issued, history>>

RbacRequired == {"tools/call", "resources/subscribe"}
Lists == {"tools/list"}
Audited == {"tools/call"}

Stages == {"idle", "pre_auth", "resolve", "validate", "authorize", "terminate",
           "limit", "delete", "usage", "forward", "answered", "persist",
           "rotate", "record", "deliver", "done"}

Statuses == {0, 200, 202, 400, 401, 402, 403, 404, 409, 413, 422, 429, 500, 502, 503}

(* A handler is at one of its stages, and was charged and metered at most once. *)
TypeOK ==
  /\ sessions \in [Ids -> Owners \cup {None}]
  /\ stage \in [Workers -> Stages]
  /\ shape \in [Workers -> Shapes]
  /\ who \in [Workers -> Owners]
  /\ inbound \in [Workers -> Ids \cup {BadId, None}]
  /\ upstream \in [Workers -> Ids \cup {BadId, None}]
  /\ status \in [Workers -> Statuses]
  /\ handed \in [Workers -> Ids \cup {BadId, None}]
  /\ open \in [Workers -> BOOLEAN]
  /\ issued \in [Ids -> SUBSET Owners]
  /\ charged \in [Workers -> 0..1]
  /\ forwarded \in [Workers -> BOOLEAN]
  /\ events \in [Workers -> SUBSET {"allowed", "denied"}]
  /\ metered \in [Workers -> 0..1]

Init ==
  /\ sessions = [s \in Ids |-> None]
  /\ stage = [w \in Workers |-> "idle"]
  /\ shape \in [Workers -> Shapes]
  /\ who \in [Workers -> Owners]
  /\ inbound = [w \in Workers |-> None]
  /\ upstream = [w \in Workers |-> None]
  /\ status = [w \in Workers |-> 0]
  /\ handed = [w \in Workers |-> None]
  /\ open = [w \in Workers |-> FALSE]
  /\ issued = [s \in Ids |-> {}]
  /\ charged = [w \in Workers |-> 0]
  /\ forwarded = [w \in Workers |-> FALSE]
  /\ events = [w \in Workers |-> {}]
  /\ metered = [w \in Workers |-> 0]

-----------------------------------------------------------------------------
At(w, st) == stage[w] = st

Goto(w, st) == stage' = [stage EXCEPT ![w] = st] /\ UNCHANGED status

Reply(w, code) ==
  /\ stage' = [stage EXCEPT ![w] = "done"]
  /\ status' = [status EXCEPT ![w] = code]

Audit(w, outcome) == events' = [events EXCEPT ![w] = @ \cup {outcome}]

(* SessionStore.lookup: what Redis holds, or None when it cannot be reached. *)
Lookup(id) == {sessions[id], None}

-----------------------------------------------------------------------------
(* A request arrives. A PRE_AUTH plugin may answer it; a body that is too
   large or is no JSON-RPC request is refused. GET has neither. *)
Receive(w) ==
  /\ stage[w] \in {"idle", "done"}
  /\ \E sh \in Shapes, o \in Owners, id \in Ids \cup {BadId, None} :
       /\ shape' = [shape EXCEPT ![w] = sh]
       /\ who' = [who EXCEPT ![w] = o]
       /\ inbound' = [inbound EXCEPT ![w] = id]
       /\ \/ stage' = [stage EXCEPT ![w] = "pre_auth"]
             /\ status' = [status EXCEPT ![w] = 0]
          \/ sh.method # "GET" /\ \E code \in {200, 400, 404, 413} : Reply(w, code)
  /\ upstream' = [upstream EXCEPT ![w] = None]
  /\ handed' = [handed EXCEPT ![w] = None]
  /\ open' = [open EXCEPT ![w] = FALSE]
  /\ charged' = [charged EXCEPT ![w] = 0]
  /\ forwarded' = [forwarded EXCEPT ![w] = FALSE]
  /\ events' = [events EXCEPT ![w] = {}]
  /\ metered' = [metered EXCEPT ![w] = 0]
  /\ UNCHANGED <<sessions, issued>>

(* run_pre_auth_checks: Redis down, limit of the client address, no credentials;
   then credentials that authenticate refuses, the only case with an event. *)
RunPreAuthChecks(w) ==
  /\ At(w, "pre_auth")
  /\ \/ \E code \in {503, 429, 401} : Reply(w, code) /\ UNCHANGED events
     \/ Reply(w, 401) /\ Audit(w, "denied")
     \/ Goto(w, "resolve") /\ UNCHANGED events
  /\ UNCHANGED <<sessions, request, answer, issued, charged, forwarded, metered>>

(* resolve_server: unknown slug, upstream no longer allowed, disabled or
   unhealthy server. *)
ResolveServer(w) ==
  /\ At(w, "resolve")
  /\ Goto(w, "validate") \/ \E code \in {404, 502, 503} : Reply(w, code)
  /\ UNCHANGED <<sessions, request, answer, issued, history>>

\* mutant: the session only has to exist
ValidateSessionExists(w) ==
  /\ At(w, "validate")
  /\ IF inbound[w] = None THEN Goto(w, "authorize")
     ELSE IF inbound[w] = BadId THEN Reply(w, 400)
     ELSE \E rec \in Lookup(inbound[w]) :
            IF rec = None THEN Reply(w, 404) ELSE Goto(w, "authorize")
  /\ UNCHANGED <<sessions, request, answer, issued, history>>

(* validate_session: a presented id must be known and belong to the caller. *)
ValidateSession(w) ==
  /\ At(w, "validate")
  /\ IF inbound[w] = None THEN Goto(w, "authorize")
     ELSE IF inbound[w] = BadId THEN Reply(w, 400)
     ELSE \E rec \in Lookup(inbound[w]) :
            CASE rec = None   -> Reply(w, 404)
              [] rec = who[w] -> Goto(w, "authorize")
              [] OTHER        -> Reply(w, 403)
  /\ UNCHANGED <<sessions, request, answer, issued, history>>

Authorized(w) == Goto(w, IF shape[w].method = "session/terminate" THEN "terminate" ELSE "limit")

\* mutant: the return after a denial is missing
AuthorizeLogOnly(w) ==
  /\ At(w, "authorize")
  /\ \/ shape[w].method \in RbacRequired /\ Reply(w, 422) /\ UNCHANGED events
     \/ shape[w].method \in RbacRequired /\ Authorized(w) /\ Audit(w, "denied")
     \/ Authorized(w) /\ UNCHANGED events
  /\ UNCHANGED <<sessions, request, answer, issued, charged, forwarded, metered>>

(* Steps 3 and 4: methods that need a permission need a resource name, and the
   rules of the subject must allow it; a denial is audited. *)
Authorize(w) ==
  /\ At(w, "authorize")
  /\ \/ shape[w].method \in RbacRequired /\ Reply(w, 422) /\ UNCHANGED events
     \/ shape[w].method \in RbacRequired /\ Reply(w, 403) /\ Audit(w, "denied")
     \/ Authorized(w) /\ UNCHANGED events
  /\ UNCHANGED <<sessions, request, answer, issued, charged, forwarded, metered>>

\* mutant: terminate bypasses the rate limit
TerminateUnlimited(w) ==
  /\ At(w, "terminate")
  /\ IF inbound[w] = None THEN Reply(w, 400)
     ELSE \E rec \in Lookup(inbound[w]) :
            CASE rec = None   -> Reply(w, 404)
              [] rec = who[w] -> Goto(w, "delete")
              [] OTHER        -> Reply(w, 403)
  /\ UNCHANGED <<sessions, request, answer, issued, history>>

(* Step 4b, before the rate limit: terminate needs a session of the caller. *)
Terminate(w) ==
  /\ At(w, "terminate")
  /\ IF inbound[w] = None THEN Reply(w, 400)
     ELSE \E rec \in Lookup(inbound[w]) :
            CASE rec = None   -> Reply(w, 404)
              [] rec = who[w] -> Goto(w, "limit")
              [] OTHER        -> Reply(w, 403)
  /\ UNCHANGED <<sessions, request, answer, issued, history>>

(* check_rate_limit: Redis down, over the limit, or one admission used. *)
CheckRateLimit(w) ==
  /\ At(w, "limit")
  /\ \/ \E code \in {503, 429} : Reply(w, code) /\ UNCHANGED charged
     \/ /\ Goto(w, IF shape[w].method = "session/terminate" THEN "delete" ELSE "usage")
        /\ charged' = [charged EXCEPT ![w] = @ + 1]
  /\ UNCHANGED <<sessions, request, answer, issued, forwarded, events, metered>>

(* Step 4b, after the rate limit: SessionStore.delete swallows Redis errors. *)
DeleteTerminated(w) ==
  /\ At(w, "delete")
  /\ sessions' \in {sessions, [sessions EXCEPT ![inbound[w]] = None]}
  /\ Goto(w, "forward")
  /\ UNCHANGED <<request, answer, issued, history>>

(* A dry run is answered and audited here. Any other request is metered, and
   then a tools/call over the monthly cap is refused. *)
DryRunOrMeter(w) ==
  /\ At(w, "usage")
  /\ IF shape[w].dry_run
     THEN Reply(w, 200) /\ Audit(w, "allowed") /\ UNCHANGED metered
     ELSE /\ metered' = [metered EXCEPT ![w] = @ + 1]
          /\ \/ Goto(w, "forward")
             \/ shape[w].method = "tools/call" /\ Reply(w, 402)
          /\ UNCHANGED events
  /\ UNCHANGED <<sessions, request, answer, issued, charged, forwarded>>

(* proxy.forward: the upstream answers with some Mcp-Session-Id or none, or the
   call fails, before or after the upstream has seen the request. *)
Answered(w, id) ==
  /\ upstream' = [upstream EXCEPT ![w] = id]
  /\ open' = [open EXCEPT ![w] = shape[w].sse]
  /\ issued' = [s \in Ids |-> IF s = id THEN issued[s] \cup {who[w]} ELSE issued[s]]

\* mutant: a failed call goes through the rate limit again
ForwardRetries(w) ==
  /\ At(w, "forward") /\ shape[w].method # "session/terminate"
  /\ forwarded' = [forwarded EXCEPT ![w] = TRUE]
  /\ \/ Goto(w, "limit") /\ UNCHANGED <<upstream, open, issued>>
     \/ Goto(w, "answered") /\ \E id \in Ids \cup {BadId, None} : Answered(w, id)
  /\ UNCHANGED <<sessions, request, handed, charged, events, metered>>

Forward(w) ==
  /\ At(w, "forward") /\ shape[w].method # "session/terminate"
  /\ forwarded' = [forwarded EXCEPT ![w] = TRUE]
  /\ \/ Reply(w, 502) /\ UNCHANGED <<upstream, open, issued>>
     \/ Goto(w, "answered") /\ \E id \in Ids \cup {BadId, None} : Answered(w, id)
  /\ UNCHANGED <<sessions, request, handed, charged, events, metered>>

(* terminate relays the upstream's answer as it is, with an audit event. *)
ForwardTerminate(w) ==
  /\ At(w, "forward") /\ shape[w].method = "session/terminate"
  /\ forwarded' = [forwarded EXCEPT ![w] = TRUE]
  /\ \/ Reply(w, 502) /\ UNCHANGED events
     \/ Reply(w, 200) /\ Audit(w, "allowed")
  /\ UNCHANGED <<sessions, request, answer, issued, charged, metered>>

(* A notification is answered 202 with the upstream's id; a buffered answer
   may be too large; an id of a valid shape is persisted. *)
HandleResponse(w) ==
  /\ At(w, "answered")
  /\ IF ~shape[w].rpc_id
     THEN /\ Reply(w, 202)
          /\ handed' = [handed EXCEPT ![w] = IF upstream[w] = inbound[w] THEN None ELSE upstream[w]]
     ELSE /\ \/ Goto(w, IF upstream[w] \in Ids THEN "persist" ELSE "deliver")
             \/ ~shape[w].sse /\ Reply(w, 502)
          /\ UNCHANGED handed
  /\ UNCHANGED <<sessions, request, upstream, open, issued, history>>

(* The id must not belong to another owner; GET closes the stream then. *)
PersistLookup(w) ==
  /\ At(w, "persist")
  /\ \E rec \in Lookup(upstream[w]) :
       IF rec \notin {None, who[w]}
       THEN Reply(w, 409) /\ open' = [open EXCEPT ![w] = @ /\ shape[w].method # "GET"]
       ELSE /\ Goto(w, IF inbound[w] \notin {None, upstream[w]} THEN "rotate" ELSE "record")
            /\ UNCHANGED open
  /\ UNCHANGED <<sessions, request, upstream, handed, issued, history>>

PersistDelete(w) ==
  /\ At(w, "rotate")
  /\ sessions' \in {sessions, [sessions EXCEPT ![inbound[w]] = None]}
  /\ Goto(w, "record")
  /\ UNCHANGED <<request, answer, issued, history>>

PersistRecord(w) ==
  /\ At(w, "record")
  /\ sessions' = [sessions EXCEPT ![upstream[w]] = who[w]]
  /\ handed' = [handed EXCEPT ![w] = upstream[w]]
  /\ Goto(w, "deliver")
  /\ UNCHANGED <<request, upstream, open, issued, history>>

(* The upstream's answer is relayed (200 stands for its status) and a stream
   closed at its end. Streamed answers, filtered lists and upstream errors
   leave no event. *)
Deliver(w) ==
  /\ At(w, "deliver")
  /\ Reply(w, 200)
  /\ \/ UNCHANGED events
     \/ shape[w].method \in Audited /\ ~shape[w].sse /\ Audit(w, "allowed")
  /\ open' = [open EXCEPT ![w] = FALSE]
  /\ UNCHANGED <<sessions, request, upstream, handed, issued, charged, forwarded, metered>>

(* Any other exception becomes a 500: a query that fails, a call that is not
   even sent, a SET that Redis refuses, the query of a list filter. *)
Unhandled(w) ==
  /\ \/ stage[w] \in {"pre_auth", "resolve", "authorize", "limit", "usage", "forward", "record"}
     \/ At(w, "deliver") /\ shape[w].method \in Lists /\ ~shape[w].sse
  /\ Reply(w, 500)
  /\ UNCHANGED <<sessions, request, answer, issued, history>>

(* The sliding TTL of a session ran out. *)
Expire(s) ==
  /\ sessions[s] # None
  /\ sessions' = [sessions EXCEPT ![s] = None]
  /\ UNCHANGED <<stage, request, answer, status, issued, history>>

Step(w) ==
  \/ RunPreAuthChecks(w) \/ ResolveServer(w) \/ ValidateSession(w) \/ Authorize(w)
  \/ Terminate(w) \/ CheckRateLimit(w) \/ DeleteTerminated(w) \/ DryRunOrMeter(w)
  \/ Forward(w) \/ ForwardTerminate(w) \/ HandleResponse(w) \/ PersistLookup(w)
  \/ PersistDelete(w) \/ PersistRecord(w) \/ Deliver(w) \/ Unhandled(w)

Next == (\E w \in Workers : Receive(w) \/ Step(w)) \/ \E s \in Ids : Expire(s)

Spec == Init /\ [][Next]_vars

-----------------------------------------------------------------------------
(* A refused request never reaches the upstream: the codes of the checks that
   come before the forward are never the answer to a forwarded request. *)
Refusals == {400, 401, 402, 403, 404, 413, 422, 429}
RefusedNeverForwarded == \A w \in Workers : status[w] \in Refusals => ~forwarded[w]

(* Every request that is forwarded, session/terminate and streams included,
   used exactly one admission of the rate limiter. *)
ForwardedIsCharged == \A w \in Workers : forwarded[w] => charged[w] = 1

(* Sessions do not spill across identities: a request is forwarded with a
   session id only if an upstream issued that id to this very tenant, subject
   and server, whatever other handlers do with the registry meanwhile. *)
SessionIsolation ==
  \A w \in Workers :
    forwarded[w] /\ inbound[w] # None => inbound[w] \in Ids /\ who[w] \in issued[inbound[w]]

(* The audit trail agrees with what happened: a request has at most one event,
   a denial is recorded only for a request that was refused and not forwarded,
   and "allowed" only for one that was not refused. *)
AuditAgrees ==
  \A w \in Workers :
    /\ "denied" \in events[w] => status[w] \in {401, 403} /\ ~forwarded[w]
    /\ "allowed" \in events[w] => status[w] = 200

-----------------------------------------------------------------------------
(* ADR-008: "Upstream-issued ids that collide with another owner's record
   return 409 instead of overwriting". *)
NoOverwrite ==
  [][\A s \in Ids : sessions[s] # None => sessions'[s] \in {None, sessions[s]}]_vars

(* README: a request denied by the rate limit "is still written to the audit
   log". *)
LimitDenialAudited ==
  [][\A w \in Workers : At(w, "limit") /\ status'[w] = 429 => events'[w] # {}]_vars

(* docs/operations/reliability.md: with Redis down the rate limiter "fails open
   (requests proceed". *)
LimiterFailsOpen == [][\A w \in Workers : At(w, "limit") => status'[w] # 503]_vars

(* session.py: an id "issued (or echoed) by an upstream MCP server is recorded
   in Redis" with its owner: here, every id handed to a client was recorded. *)
HandedIdRecorded ==
  [][\A w \in Workers : handed'[w] # handed[w] /\ handed'[w] \in Ids =>
       sessions'[handed'[w]] = who[w]]_vars

(* router.py: dry_run "returns the auth/RBAC/rate-limit decision WITHOUT
   forwarding upstream". *)
DryRunNeverForwarded == \A w \in Workers : shape[w].dry_run => ~forwarded[w]

(* proxy.py: a "live streaming response that the caller must consume (via
   aiter_bytes) and close (via aclose)". *)
StreamsClosed == \A w \in Workers : stage[w] = "done" => ~open[w]

(* usage.py: "Metering is always recorded on proxied requests". *)
ForwardedIsMetered == \A w \in Workers : forwarded[w] => metered[w] = 1

-----------------------------------------------------------------------------
(* The inductive invariant: what a handler has established by the time it
   reaches a stage, and that the registry only names owners an upstream issued
   the id to. *)
Early == {"pre_auth", "resolve", "validate", "authorize", "terminate", "limit"}
Late == {"answered", "persist", "rotate", "record", "deliver"}
Validated == {"authorize", "terminate", "limit", "delete", "usage", "forward"} \cup Late

Owned(o, id) == id \in Ids /\ o \in issued[id]

StageInv ==
  \A w \in Workers :
    /\ stage[w] \in Early => charged[w] = 0
    /\ stage[w] \in Early \cup {"delete", "usage"} => metered[w] = 0
    /\ stage[w] \in {"delete", "usage", "forward"} \cup Late => charged[w] = 1
    /\ stage[w] \notin Late \cup {"done"} => ~forwarded[w]
    /\ stage[w] # "done" => status[w] = 0 /\ events[w] = {}
    /\ stage[w] \in Validated /\ inbound[w] # None => Owned(who[w], inbound[w])
    /\ stage[w] \in Late /\ upstream[w] \in Ids => Owned(who[w], upstream[w])
    /\ stage[w] \in {"persist", "rotate", "record"} => upstream[w] \in Ids
    /\ \/ stage[w] \in {"delete", "rotate"}
       \/ stage[w] = "limit" /\ shape[w].method = "session/terminate"
       => inbound[w] # None

RegistryInv == \A s \in Ids : sessions[s] # None => sessions[s] \in issued[s]

IInv ==
  /\ TypeOK /\ StageInv /\ RegistryInv
  /\ RefusedNeverForwarded /\ ForwardedIsCharged /\ SessionIsolation /\ AuditAgrees
=============================================================================
