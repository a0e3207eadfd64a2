------------------------ MODULE ConsoleSessionProofs ------------------------
(***************************************************************************)
(* A sign-out holds, the gate opens only for an accepted session that can  *)
(* be used, and a tab with such a session is not turned away: for any      *)
(* shells, any number of requests in flight and any limit of attempts.     *)
(* Two invariants carry this. SessionInv is about who is signed in;        *)
(* StateInv about what the page shows and which requests are its own.      *)
(***************************************************************************)
EXTENDS ConsoleSession, TLAPS

CredType == [cookie: Validity, key: Validity, guard: BOOLEAN, csrf: {"none", "set", "lapsed"}]
TaskType == [kind: Kinds, cur: BOOLEAN, live: BOOLEAN, clerk: BOOLEAN, count: Nat]

\* No request in flight can sign the tab in.
Quiet(ts) == \A t \in ts : ~SignsIn(t)

Types ==
  /\ cred \in CredType
  /\ tasks \subseteq TaskType
  /\ attempts \in Nat
  /\ clerk \in BOOLEAN

\* The two properties, with what keeps a sign-out so: Clerk is signed out too, and nothing in
\* flight will set a key or a guard cookie.
SessionInv ==
  /\ Types
  /\ SignOutSticks
  /\ signedOut => ~clerk /\ Quiet(tasks)
  /\ ReadyOnlyIfAccepted

-----------------------------------------------------------------------------
(* Mounting and navigation *)

\* A cancelled request is still a request of its kind.
LEMMA CancelledFacts ==
  ASSUME NEW ts \in SUBSET TaskType
  PROVE  /\ Cancelled(ts) \subseteq TaskType
         /\ Quiet(ts) => Quiet(Cancelled(ts))
  <1>1. ASSUME NEW t \in ts
        PROVE  LET u == [t EXCEPT !.cur = FALSE]
               IN  u \in TaskType /\ u.kind = t.kind /\ u.clerk = t.clerk
    BY <1>1 DEF TaskType
  <1> QED BY <1>1 DEF Cancelled, Quiet, SignsIn

\* A request that a page sends when it is mounted signs nobody in, Clerk's gate excepted.
LEMMA TaskFacts ==
  ASSUME NEW k \in Kinds, NEW l \in BOOLEAN
  PROVE  /\ Task(k, l) \in TaskType
         /\ k \notin {"login", "register", "sync"} => ~SignsIn(Task(k, l))
  BY DEF Task, TaskType, SignsIn

\* The cookie check answers yes or no.
LEMMA VerifyBoolean == ASSUME NEW c \in CredType PROVE VerifySession(c) \in BOOLEAN
  BY DEF VerifySession

\* The middleware may take the guard cookie and gives none.
LEMMA MiddlewareFacts ==
  ASSUME NEW p, NEW c \in CredType, NEW up
  PROVE  LET m == Middleware(p, c, up)
         IN  m.cred \in CredType /\ m.cred.key = c.key /\ (~c.guard => ~m.cred.guard)
  BY DEF Middleware, CredType

\* Mounting sends nobody's credentials to sign in unless Clerk has a session, and sets
\* neither a key nor a guard cookie. No page is mounted with its gate open.
LEMMA MountFacts ==
  ASSUME NEW p, NEW c \in CredType, NEW ts \in SUBSET TaskType, clerk \in BOOLEAN
  PROVE  LET m == Mount(p, c, ts)
         IN  /\ m.cred \in CredType /\ m.cred.key = c.key /\ m.cred.guard = c.guard
             /\ m.tasks \subseteq TaskType
             /\ (Quiet(ts) /\ ~clerk) => Quiet(m.tasks)
             /\ m.view # "ready"
  <1> DEFINE v == VerifySession(c)
             gate == [Task("gate", v) EXCEPT !.clerk = clerk]
             out == ts \cup {gate, Task("api", v)}
             m == Mount(p, c, ts)
  <1>1. v \in BOOLEAN
    BY VerifyBoolean
  <1>2. gate \in TaskType /\ (~clerk => ~SignsIn(gate))
    BY <1>1 DEF Task, TaskType, SignsIn, Kinds
  <1>3. /\ Task("api", v) \in TaskType /\ ~SignsIn(Task("api", v))
        /\ Task("expiry", v) \in TaskType /\ ~SignsIn(Task("expiry", v))
        /\ Task("adminMe", v) \in TaskType /\ ~SignsIn(Task("adminMe", v))
    BY <1>1, TaskFacts DEF Kinds
  <1>4. Task("ssoMe", c.cookie = "live") \in TaskType /\ ~SignsIn(Task("ssoMe", c.cookie = "live"))
    BY TaskFacts DEF Kinds
  <1>5. CASE p \in Shells
    <2>1. m = MountShell(p, c, ts)
      BY <1>5, SessionAssumption DEF Mount
    <2>2. out \in SUBSET TaskType /\ ((Quiet(ts) /\ ~clerk) => Quiet(out))
      BY <1>2, <1>3 DEF Quiet
    <2>3. Cancelled(out) \subseteq TaskType /\ (Quiet(out) => Quiet(Cancelled(out)))
      BY <2>2, CancelledFacts
    <2>4. m = IF IsAuthenticated(c)
                THEN [page |-> p, view |-> "working", tasks |-> out, cred |-> c]
                ELSE [page |-> "login", view |-> "form", tasks |-> Cancelled(out), cred |-> c]
      BY <2>1 DEF MountShell
    <2> HIDE DEF out, gate, v, m
    <2> QED BY <2>2, <2>3, <2>4 DEF m
  <1>6. CASE p \notin Shells /\ p = "admin"
    <2>1. m = MountAdmin(c, ts)
      BY <1>6 DEF Mount
    <2>2. m.cred = c /\ m.view # "ready"
          /\ m.tasks \in {ts, ts \cup {Task("expiry", v), Task("adminMe", v)}}
      BY <2>1 DEF MountAdmin
    <2> QED BY <2>2, <1>3 DEF Quiet
  <1>7. CASE p \notin Shells /\ p = "sso"
    <2>1. m = MountSso(c, ts)
      BY <1>7 DEF Mount
    <2>2. /\ m.cred = [c EXCEPT !.csrf = "set"] /\ m.view # "ready"
          /\ m.tasks = ts \cup {Task("ssoMe", c.cookie = "live")}
      BY <2>1 DEF MountSso
    <2>3. m.cred \in CredType /\ m.cred.key = c.key /\ m.cred.guard = c.guard
      BY <2>2 DEF CredType
    <2> QED BY <2>2, <2>3, <1>4 DEF Quiet
  <1>8. CASE p \notin Shells \cup {"admin", "sso"}
    <2>1. m = [page |-> p, view |-> "form", cred |-> c, tasks |-> ts]
      BY <1>8 DEF Mount
    <2> QED BY <2>1
  <1> QED BY <1>5, <1>6, <1>7, <1>8

\* What a navigation does to the session.
LEMMA GoToFacts ==
  ASSUME NEW p, NEW c \in CredType, NEW ts \in SUBSET TaskType, clerk \in BOOLEAN,
         GoTo(p, c, ts)
  PROVE  /\ cred' \in CredType /\ cred'.key = c.key /\ (~c.guard => ~cred'.guard)
         /\ tasks' \subseteq TaskType /\ attempts' \in Nat
         /\ (Quiet(ts) /\ ~clerk) => Quiet(tasks')
         /\ view' # "ready"
  <1>1. PICK up \in BOOLEAN :
          LET to == Middleware(p, c, up)
              m  == Mount(to.page, to.cred, Cancelled(ts))
          IN  cred' = m.cred /\ view' = m.view /\ tasks' = m.tasks /\ attempts' = 0
    BY DEF GoTo
  <1> DEFINE to == Middleware(p, c, up)
  <1>2. to.cred \in CredType /\ to.cred.key = c.key /\ (~c.guard => ~to.cred.guard)
    BY MiddlewareFacts
  <1>3. Cancelled(ts) \in SUBSET TaskType /\ (Quiet(ts) => Quiet(Cancelled(ts)))
    BY CancelledFacts
  <1> DEFINE m == Mount(to.page, to.cred, Cancelled(ts))
  <1>4. /\ m.cred \in CredType /\ m.cred.key = to.cred.key /\ m.cred.guard = to.cred.guard
        /\ m.tasks \subseteq TaskType
        /\ (Quiet(Cancelled(ts)) /\ ~clerk) => Quiet(m.tasks)
        /\ m.view # "ready"
    <2> HIDE DEF to
    <2> QED BY <1>2, <1>3, MountFacts
  <1>5. cred' = m.cred /\ view' = m.view /\ tasks' = m.tasks /\ attempts' = 0
    BY <1>1
  <1> HIDE DEF to, m
  <1> QED BY <1>2, <1>3, <1>4, <1>5

\* Fewer requests, or some more that sign nobody in.
LEMMA QuietFacts ==
  ASSUME NEW ts, NEW us, Quiet(ts), \A u \in us : u \in ts \/ ~SignsIn(u)
  PROVE  Quiet(us)
  BY DEF Quiet

\* A navigation with the credentials as they are, or without key and guard, keeps the
\* invariant, also when Clerk's session ends with it.
LEMMA GoToKeeps ==
  ASSUME SessionInv, NEW p, NEW c \in CredType, NEW ts \in SUBSET tasks, GoTo(p, c, ts),
         c = cred \/ (c.key = "none" /\ ~c.guard),
         clerk' = clerk, signedOut' = signedOut
  PROVE  SessionInv'
  <1>1. ts \in SUBSET TaskType /\ clerk \in BOOLEAN
    BY DEF SessionInv, Types
  <1>2. /\ cred' \in CredType /\ cred'.key = c.key /\ (~c.guard => ~cred'.guard)
        /\ tasks' \subseteq TaskType /\ attempts' \in Nat
        /\ (Quiet(ts) /\ ~clerk) => Quiet(tasks')
        /\ view' # "ready"
    BY <1>1, GoToFacts
  <1>3. Types'
    BY <1>1, <1>2 DEF Types
  <1>4. signedOut => Quiet(ts)
    BY QuietFacts DEF SessionInv
  <1>5. SignOutSticks' /\ (signedOut => ~clerk /\ Quiet(tasks))'
    BY <1>2, <1>4 DEF SessionInv, SignOutSticks, Quiet, SignsIn
  <1>6. ReadyOnlyIfAccepted'
    BY <1>2 DEF ReadyOnlyIfAccepted
  <1> QED BY <1>3, <1>5, <1>6 DEF SessionInv

\* So does a 401 that the interceptor sees.
LEMMA On401Keeps ==
  ASSUME SessionInv, NEW ts \in SUBSET tasks, On401(ts), clerk' = clerk, signedOut' = signedOut
  PROVE  SessionInv'
  <1> DEFINE c == [cred EXCEPT !.key = "none", !.guard = FALSE]
  <1>1. c \in CredType /\ c.key = "none" /\ ~c.guard
    BY DEF SessionInv, Types, CredType, Validity
  <1>2. CASE page = "login"
    <2>1. cred' = c /\ tasks' = ts /\ view' = view /\ attempts' = attempts /\ accepted' = accepted
      BY <1>2 DEF On401
    <2>2. Types'
      BY <1>1, <2>1 DEF SessionInv, Types
    <2>3. signedOut => Quiet(ts)
      BY QuietFacts DEF SessionInv
    <2>4. (signedOut => ~clerk /\ Quiet(tasks))'
      BY <2>1, <2>3 DEF SessionInv, Quiet, SignsIn
    <2> QED BY <1>1, <2>1, <2>2, <2>4 DEF SessionInv, SignOutSticks, ReadyOnlyIfAccepted
  <1>3. CASE page # "login"
    <2>1. GoTo("login", c, {})
      BY <1>3 DEF On401
    <2>2. {} \in SUBSET tasks
      OBVIOUS
    <2> HIDE DEF c
    <2> QED BY <1>1, <2>1, <2>2, GoToKeeps
  <1> QED BY <1>2, <1>3

\* So does an answer after which nothing but the list of requests and the view has changed.
LEMMA AnswerKeeps ==
  ASSUME SessionInv, tasks' \subseteq TaskType, \A u \in tasks' : u \in tasks \/ ~SignsIn(u),
         cred' \in CredType, cred'.key \in {cred.key, "none"}, cred'.guard => cred.guard,
         attempts' \in Nat, clerk' = clerk, signedOut' = signedOut,
         view' = "ready" => (view = "ready" /\ accepted' = accepted) \/ accepted'
  PROVE  SessionInv'
  <1>1. Types'
    BY DEF SessionInv, Types
  <1>2. signedOut => Quiet(tasks')
    BY QuietFacts DEF SessionInv
  <1>3. (signedOut => ~clerk /\ Quiet(tasks))'
    BY <1>2 DEF SessionInv, Quiet, SignsIn
  <1>4. SignOutSticks'
    BY DEF SessionInv, SignOutSticks
  <1>5. ReadyOnlyIfAccepted'
    BY DEF SessionInv, ReadyOnlyIfAccepted
  <1> QED BY <1>1, <1>3, <1>4, <1>5 DEF SessionInv

\* A navigation when nobody counts as signed out.
LEMMA GoToAnyway ==
  ASSUME Types, NEW p, NEW c \in CredType, NEW ts \in SUBSET TaskType, GoTo(p, c, ts),
         clerk' \in BOOLEAN, ~signedOut'
  PROVE  SessionInv'
  <1>1. clerk \in BOOLEAN
    BY DEF Types
  <1>2. cred' \in CredType /\ tasks' \subseteq TaskType /\ attempts' \in Nat /\ view' # "ready"
    BY <1>1, GoToFacts
  <1> QED BY <1>2 DEF SessionInv, Types, SignOutSticks, ReadyOnlyIfAccepted

\* The tab at /login after a navigation: the requests are those that there were.
LEMMA GoToLogin ==
  ASSUME NEW c \in CredType, NEW ts \in SUBSET TaskType, GoTo("login", c, ts)
  PROVE  cred' = c /\ tasks' = Cancelled(ts) /\ view' = "form" /\ attempts' = 0
  <1>1. PICK up \in BOOLEAN :
          LET to == Middleware("login", c, up)
              m  == Mount(to.page, to.cred, Cancelled(ts))
          IN  cred' = m.cred /\ view' = m.view /\ tasks' = m.tasks /\ attempts' = 0
    BY DEF GoTo
  <1>2. "login" \notin Protected /\ "login" \notin Shells
    BY SessionAssumption DEF Protected
  <1>3. Middleware("login", c, up) = [page |-> "login", cred |-> c]
    BY <1>2 DEF Middleware
  <1>4. Mount("login", c, Cancelled(ts)) =
          [page |-> "login", view |-> "form", cred |-> c, tasks |-> Cancelled(ts)]
    BY <1>2 DEF Mount
  <1> QED BY <1>1, <1>3, <1>4

-----------------------------------------------------------------------------
(* The steps *)

\* Answers of the gate's requests.
LEMMA GateStep ==
  ASSUME SessionInv, NEW t \in tasks,
         GateVerified(t) \/ GateRefused(t) \/ SyncAccepted(t) \/ SyncFailed(t)
  PROVE  SessionInv'
  <1>1. t \in TaskType /\ cred \in CredType /\ attempts \in Nat /\ tasks \subseteq TaskType
    BY DEF SessionInv, Types
  <1>2. tasks \ {t} \in SUBSET tasks
    OBVIOUS
  <1>3. CASE GateVerified(t)
    <2>1. view' = "ready" => (view = "ready" /\ accepted' = accepted) \/ accepted'
      BY <1>1, <1>3 DEF GateVerified, SessionInv, ReadyOnlyIfAccepted, TaskType
    <2> QED BY <1>1, <1>3, <2>1, AnswerKeeps DEF GateVerified
  <1>4. CASE GateRefused(t) /\ t.clerk
    <2> DEFINE u == [t EXCEPT !.kind = "sync"]
    <2>1. u \in TaskType
      BY <1>1 DEF TaskType, Kinds
    <2>2. /\ tasks' \subseteq (tasks \ {t}) \cup {u}
          /\ cred' = cred /\ attempts' = attempts /\ accepted' = accepted
          /\ clerk' = clerk /\ signedOut' = signedOut
          /\ view' \in {"failed", view}
      BY <1>4 DEF GateRefused
    <2>3. SignsIn(t)
      BY <1>4 DEF GateRefused, SignsIn
    <2>4. ~signedOut
      BY <2>3 DEF SessionInv, Quiet
    <2> HIDE DEF u
    <2> QED BY <1>1, <2>1, <2>2, <2>4 DEF SessionInv, Types, SignOutSticks, ReadyOnlyIfAccepted
  <1>5. CASE GateRefused(t) /\ ~t.clerk
    <2>1. Replace("login", cred, tasks \ {t}) /\ clerk' = clerk /\ signedOut' = signedOut
      BY <1>5 DEF GateRefused
    <2>2. CASE page = "login"
      <3>1. cred' = cred /\ tasks' = tasks \ {t} /\ view' = view /\ attempts' = attempts
            /\ accepted' = accepted
        BY <2>1, <2>2 DEF Replace
      <3> QED BY <1>1, <2>1, <3>1, AnswerKeeps
    <2>3. CASE page # "login"
      <3>1. GoTo("login", cred, tasks \ {t})
        BY <2>1, <2>3 DEF Replace
      <3> QED BY <1>1, <1>2, <2>1, <3>1, GoToKeeps
    <2> QED BY <2>2, <2>3
  <1>6. CASE SyncAccepted(t)
    <2> DEFINE u == [t EXCEPT !.kind = "recheck", !.live = TRUE]
               c == MarkCookieSession([cred EXCEPT !.cookie = "live"])
    <2>1. u \in TaskType /\ c \in CredType
      BY <1>1 DEF TaskType, Kinds, CredType, MarkCookieSession, Validity
    <2>2. /\ tasks' = (tasks \ {t}) \cup {u} /\ cred' = c
          /\ UNCHANGED <<clerk, view, attempts, accepted, signedOut>>
      BY <1>6 DEF SyncAccepted
    <2>3. ~signedOut
      BY <1>6 DEF SyncAccepted, SignsIn, SessionInv, Quiet
    <2> HIDE DEF u, c
    <2> QED BY <1>1, <2>1, <2>2, <2>3 DEF SessionInv, Types, SignOutSticks, ReadyOnlyIfAccepted
  <1>7. CASE SyncFailed(t)
    <2>1. view' = "ready" => view = "ready" /\ accepted' = accepted
      BY <1>7 DEF SyncFailed
    <2> QED BY <1>1, <1>7, <2>1, AnswerKeeps DEF SyncFailed
  <1> QED BY <1>3, <1>4, <1>5, <1>6, <1>7

\* Answers of the forms' requests: while one of them is in flight, nobody is signed out.
LEMMA FormStep ==
  ASSUME SessionInv, NEW t \in tasks,
         \/ LoginAccepted(t) \/ LoginFailed(t) \/ RegisterFailed(t)
         \/ \E approved \in BOOLEAN : RegisterAccepted(t, approved)
  PROVE  SessionInv'
  <1>1. t \in TaskType /\ cred \in CredType /\ attempts \in Nat /\ tasks \subseteq TaskType
        /\ clerk \in BOOLEAN
    BY DEF SessionInv, Types
  <1>2. tasks \ {t} \in SUBSET tasks /\ tasks \ {t} \in SUBSET TaskType
    BY <1>1
  <1>3. t.kind \in {"login", "register"} => ~signedOut
    BY DEF SessionInv, Quiet, SignsIn
  <1>4. CASE LoginAccepted(t)
    <2> DEFINE c == MarkCookieSession([cred EXCEPT !.cookie = "live"])
    <2>1. c \in CredType
      BY <1>1 DEF CredType, MarkCookieSession, Validity
    <2>2. GoTo("dashboard", c, tasks \ {t}) /\ clerk' = clerk /\ ~signedOut'
      BY <1>3, <1>4 DEF LoginAccepted
    <2> HIDE DEF c
    <2> QED BY <1>1, <1>2, <2>1, <2>2, GoToAnyway DEF SessionInv
  <1>5. CASE LoginFailed(t)
    <2>1. clerk' = clerk /\ signedOut' = signedOut
      BY <1>5 DEF LoginFailed
    <2>2. CASE On401(tasks \ {t})
      BY <1>2, <2>1, <2>2, On401Keeps
    <2>3. CASE ~On401(tasks \ {t})
      <3>1. /\ cred' \in {cred, [cred EXCEPT !.key = "none", !.guard = FALSE]}
            /\ tasks' = tasks \ {t} /\ view' \in {"form", view}
            /\ attempts' \in {attempts, t.count + 1} /\ accepted' = accepted
        BY <1>5, <2>3 DEF LoginFailed
      <3>2. cred' \in CredType /\ cred'.key \in {cred.key, "none"} /\ (cred'.guard => cred.guard)
        BY <1>1, <3>1 DEF CredType, Validity
      <3>3. attempts' \in Nat
        BY <1>1, <3>1 DEF TaskType
      <3> QED BY <1>1, <2>1, <3>1, <3>2, <3>3, AnswerKeeps
    <2> QED BY <2>2, <2>3
  <1>6. CASE RegisterFailed(t)
    <2>1. clerk' = clerk /\ signedOut' = signedOut
      BY <1>6 DEF RegisterFailed
    <2>2. CASE On401(tasks \ {t})
      BY <1>2, <2>1, <2>2, On401Keeps
    <2>3. CASE ~On401(tasks \ {t})
      BY <1>1, <1>6, <2>3, AnswerKeeps DEF RegisterFailed
    <2> QED BY <2>2, <2>3
  <1>7. ASSUME NEW approved \in BOOLEAN, RegisterAccepted(t, approved)
        PROVE  SessionInv'
    <2>1. cred' \in CredType
      BY <1>1, <1>7 DEF RegisterAccepted, SetToken, CredType, Validity
    <2>2. view' \in {"approved", "pending", view}
      BY <1>1, <1>7 DEF RegisterAccepted, TaskType
    <2>3. /\ ~signedOut' /\ tasks' = tasks \ {t}
          /\ clerk' = clerk /\ attempts' = attempts /\ accepted' = accepted
      BY <1>3, <1>7 DEF RegisterAccepted
    <2> QED BY <1>1, <2>1, <2>2, <2>3 DEF SessionInv, Types, SignOutSticks, ReadyOnlyIfAccepted
  <1> QED BY <1>4, <1>5, <1>6, <1>7

\* Answers of the other requests.
LEMMA PageStep ==
  ASSUME SessionInv, NEW t \in tasks,
         ApiAnswer(t) \/ LogoutAnswer(t) \/ SsoAnswer(t) \/ AdminMeAnswer(t) \/ ExpiryAnswer(t)
  PROVE  SessionInv'
  <1>1. t \in TaskType /\ cred \in CredType /\ attempts \in Nat /\ tasks \subseteq TaskType
        /\ clerk \in BOOLEAN
    BY DEF SessionInv, Types
  <1>2. tasks \ {t} \in SUBSET tasks /\ tasks \ {t} \in SUBSET TaskType
    BY <1>1
  <1>3. CASE LogoutAnswer(t)
    <2>1. cred' \in CredType /\ cred'.key = cred.key /\ cred'.guard = cred.guard
      BY <1>1, <1>3 DEF LogoutAnswer, CredType, Validity
    <2> QED BY <1>1, <1>3, <2>1, AnswerKeeps DEF LogoutAnswer
  <1> DEFINE Other == ApiAnswer(t) \/ SsoAnswer(t) \/ AdminMeAnswer(t) \/ ExpiryAnswer(t)
             Shell == MountShell("admin", cred, tasks \ {t})
  <1>4. CASE Other
    <2>1. clerk' = clerk /\ signedOut' = signedOut
      BY <1>4 DEF ApiAnswer, SsoAnswer, AdminMeAnswer, ExpiryAnswer
    <2>2. CASE On401(tasks \ {t})
      BY <1>2, <2>1, <2>2, On401Keeps
    <2>3. ASSUME NEW p, GoTo(p, cred, tasks \ {t})
          PROVE  SessionInv'
      BY <1>1, <1>2, <2>1, <2>3, GoToKeeps
    <2>4. CASE /\ tasks' = tasks \ {t} /\ view' \in {"redirecting", view}
               /\ UNCHANGED <<cred, attempts, accepted>>
      BY <1>1, <2>1, <2>4, AnswerKeeps
    <2>5. CASE /\ view' = Shell.view /\ tasks' = Shell.tasks
               /\ UNCHANGED <<cred, attempts, accepted>>
      <3> DEFINE v == VerifySession(cred)
                 gate == [Task("gate", v) EXCEPT !.clerk = clerk]
                 out == (tasks \ {t}) \cup {gate, Task("api", v)}
      <3>1. v \in BOOLEAN
        BY <1>1, VerifyBoolean
      <3>2. gate \in TaskType /\ (~clerk => ~SignsIn(gate))
        BY <1>1, <3>1 DEF Task, TaskType, SignsIn, Kinds
      <3>3. Task("api", v) \in TaskType /\ ~SignsIn(Task("api", v))
        BY <3>1, TaskFacts DEF Kinds
      <3>4. out \in SUBSET TaskType /\ ((Quiet(tasks) /\ ~clerk) => Quiet(out))
        BY <1>2, <3>2, <3>3 DEF Quiet
      <3>5. Cancelled(out) \subseteq TaskType /\ (Quiet(out) => Quiet(Cancelled(out)))
        BY <3>4, CancelledFacts
      <3>6. view' # "ready" /\ tasks' \in {out, Cancelled(out)}
        BY <2>5 DEF MountShell
      <3> HIDE DEF out, gate, v
      <3>7. tasks' \subseteq TaskType /\ ((Quiet(tasks) /\ ~clerk) => Quiet(tasks'))
        BY <3>4, <3>5, <3>6
      <3>8. (signedOut => ~clerk /\ Quiet(tasks))'
        BY <2>1, <3>7 DEF SessionInv, Quiet, SignsIn
      <3> QED BY <1>1, <2>1, <2>5, <3>6, <3>7, <3>8
              DEF SessionInv, Types, SignOutSticks, ReadyOnlyIfAccepted
    <2>6. \/ On401(tasks \ {t})
          \/ \E p \in {"dashboard", "login"} : GoTo(p, cred, tasks \ {t})
          \/ /\ tasks' = tasks \ {t} /\ view' \in {"redirecting", view}
             /\ UNCHANGED <<cred, attempts, accepted>>
          \/ view' = Shell.view /\ tasks' = Shell.tasks /\ UNCHANGED <<cred, attempts, accepted>>
      BY <1>4 DEF ApiAnswer, SsoAnswer, AdminMeAnswer, ExpiryAnswer
    <2> HIDE DEF Shell
    <2> QED BY <2>2, <2>3, <2>4, <2>5, <2>6
  <1> QED BY <1>3, <1>4

\* What happens to the session without the user.
LEMMA WorldStep ==
  ASSUME SessionInv, World
  PROVE  SessionInv'
  <1>1. cred \in CredType /\ attempts \in Nat /\ tasks \subseteq TaskType /\ clerk \in BOOLEAN
    BY DEF SessionInv, Types
  <1>2. CASE Expire \/ GuardLapses \/ CsrfLapses
    <2>1. cred' \in CredType /\ (cred.key = "none" => cred'.key = "none")
          /\ (cred'.guard => cred.guard)
      BY <1>1, <1>2 DEF Expire, GuardLapses, CsrfLapses, CredType, Validity
    <2>2. UNCHANGED <<clerk, view, tasks, attempts, accepted, signedOut>>
      BY <1>2 DEF Expire, GuardLapses, CsrfLapses
    <2> QED BY <1>1, <2>1, <2>2
            DEF SessionInv, Types, SignOutSticks, Quiet, SignsIn, ReadyOnlyIfAccepted
  <1>3. CASE ClerkSessionEnds
    <2>1. clerk /\ ~clerk' /\ UNCHANGED <<cred, view, attempts, accepted, signedOut>>
      BY <1>3 DEF ClerkSessionEnds
    <2>2. ~signedOut
      BY <2>1 DEF SessionInv
    <2>3. Task("gate", VerifySession(cred)) \in TaskType
      BY <1>1, VerifyBoolean, TaskFacts DEF Kinds
    <2>4. tasks' \subseteq TaskType
      BY <1>1, <1>3, <2>3, CancelledFacts DEF ClerkSessionEnds
    <2>5. clerk' \in BOOLEAN
      BY <1>3 DEF ClerkSessionEnds
    <2> QED BY <1>1, <2>1, <2>2, <2>4, <2>5
            DEF SessionInv, Types, SignOutSticks, ReadyOnlyIfAccepted
  <1> QED BY <1>2, <1>3 DEF World

\* What the user does, and Clerk's redirect.
LEMMA UserStep ==
  ASSUME SessionInv, User \/ ClerkRedirect
  PROVE  SessionInv'
  <1>1. cred \in CredType /\ attempts \in Nat /\ tasks \subseteq TaskType /\ clerk \in BOOLEAN
    BY DEF SessionInv, Types
  <1>2. {} \in SUBSET tasks /\ tasks \in SUBSET tasks /\ tasks \in SUBSET TaskType
        /\ {} \in SUBSET TaskType
    BY <1>1
  <1>3. ASSUME NEW p, NEW ts \in SUBSET tasks, GoTo(p, cred, ts), clerk' = clerk,
               signedOut' = signedOut
        PROVE  SessionInv'
    BY <1>1, <1>3, GoToKeeps
  <1>4. ASSUME NEW p \in Pages, NEW hard \in BOOLEAN, Navigate(p, hard)
        PROVE  SessionInv'
    <2>1. GoTo(p, cred, IF hard THEN {} ELSE tasks) /\ clerk' = clerk /\ signedOut' = signedOut
      BY <1>4 DEF Navigate
    <2>2. (IF hard THEN {} ELSE tasks) \in SUBSET tasks
      OBVIOUS
    <2> QED BY <1>3, <2>1, <2>2
  <1>5. ASSUME NEW p \in Protected, SwitchContext(p)
        PROVE  SessionInv'
    BY <1>2, <1>3, <1>5 DEF SwitchContext
  <1>6. CASE GateRetry
    BY <1>2, <1>3, <1>6 DEF GateRetry
  <1>7. CASE LeaveRegistered \/ SsoErrorBack \/ ClerkRedirect
    BY <1>2, <1>3, <1>7 DEF LeaveRegistered, SsoErrorBack, ClerkRedirect
  <1>8. CASE GateSignOut
    <2>1. clerk' = FALSE /\ signedOut' = signedOut
          /\ cred' = cred /\ tasks' = Cancelled(tasks) /\ view' = "form" /\ attempts' = 0
      BY <1>1, <1>2, <1>8, GoToLogin DEF GateSignOut
    <2>2. tasks' \subseteq TaskType /\ (Quiet(tasks) => Quiet(tasks'))
      BY <1>2, <2>1, CancelledFacts
    <2>3. (signedOut => ~clerk /\ Quiet(tasks))'
      BY <2>1, <2>2 DEF SessionInv, Quiet, SignsIn
    <2> QED BY <1>1, <2>1, <2>2, <2>3 DEF SessionInv, Types, SignOutSticks, ReadyOnlyIfAccepted
  <1>9. CASE SignOut
    <2> DEFINE c == ClearToken(cred)
               ts == tasks \cup {Task("logout", FALSE)}
    <2>1. c \in CredType /\ c.key = "none" /\ ~c.guard
      BY <1>1 DEF ClearToken, CredType, Validity
    <2>2. Task("logout", FALSE) \in TaskType /\ ~SignsIn(Task("logout", FALSE))
      BY TaskFacts DEF Kinds
    <2>3. ts \in SUBSET TaskType /\ (Quiet(tasks) => Quiet(ts))
      BY <1>1, <2>2 DEF Quiet
    <2>4. GoTo("login", c, ts) /\ clerk' \in BOOLEAN /\ (signedOut' => ~clerk' /\ Quiet(tasks))
      BY <1>1, <1>9 DEF SignOut, Quiet
    <2> HIDE DEF c, ts
    <2>5. cred' = c /\ tasks' = Cancelled(ts) /\ view' = "form" /\ attempts' = 0
      BY <2>1, <2>3, <2>4, GoToLogin
    <2>6. tasks' \subseteq TaskType /\ (Quiet(ts) => Quiet(tasks'))
      BY <2>3, <2>5, CancelledFacts
    <2>7. (signedOut => ~clerk /\ Quiet(tasks))'
      BY <2>3, <2>4, <2>6 DEF Quiet, SignsIn
    <2> QED BY <2>1, <2>4, <2>5, <2>6, <2>7
            DEF SessionInv, Types, SignOutSticks, ReadyOnlyIfAccepted
  <1>10. CASE ClerkSignIn
    BY <1>1, <1>10 DEF ClerkSignIn, SessionInv, Types, SignOutSticks, ReadyOnlyIfAccepted
  <1>11. CASE SubmitLogin \/ SubmitRegister
    <2>1. [Task("login", FALSE) EXCEPT !.count = attempts] \in TaskType
      BY <1>1 DEF Task, TaskType, Kinds
    <2>2. Task("register", FALSE) \in TaskType
      BY TaskFacts DEF Kinds
    <2>3. tasks' \subseteq TaskType /\ view' = "busy" /\ ~signedOut'
          /\ cred' = cred /\ attempts' = attempts /\ clerk' = clerk
      BY <1>1, <1>11, <2>1, <2>2 DEF SubmitLogin, SubmitRegister
    <2> QED BY <1>1, <2>3 DEF SessionInv, Types, SignOutSticks, ReadyOnlyIfAccepted
  <1>12. ASSUME NEW outcome \in {"cookie", "token", "error"}, SsoReturns(outcome)
         PROVE  SessionInv'
    <2> DEFINE c == [cred EXCEPT !.cookie = "live"]
    <2>1. c \in CredType /\ SetToken(c) \in CredType
      BY <1>1 DEF SetToken, CredType, Validity
    <2>2. ~signedOut' /\ clerk' = clerk
      BY <1>12 DEF SsoReturns
    <2>3. CASE outcome = "cookie"
      <3>1. GoTo("sso", c, {})
        BY <1>12, <2>3 DEF SsoReturns
      <3> HIDE DEF c
      <3> QED BY <1>1, <1>2, <2>1, <2>2, <3>1, GoToAnyway DEF SessionInv
    <2>4. CASE outcome = "token"
      <3>1. GoTo("dashboard", SetToken(c), {})
        BY <1>12, <2>4 DEF SsoReturns
      <3> HIDE DEF c
      <3> QED BY <1>1, <1>2, <2>1, <2>2, <3>1, GoToAnyway DEF SessionInv
    <2>5. CASE outcome = "error"
      <3>1. view' = "error" /\ tasks' = {} /\ attempts' = 0 /\ cred' = cred
        BY <1>12, <2>5 DEF SsoReturns
      <3> QED BY <1>1, <2>2, <3>1 DEF SessionInv, Types, SignOutSticks, ReadyOnlyIfAccepted
    <2> QED BY <2>3, <2>4, <2>5
  <1>13. CASE ApiRequest
    <2>1. Task("api", VerifySession(cred)) \in TaskType
          /\ ~SignsIn(Task("api", VerifySession(cred)))
      BY <1>1, VerifyBoolean, TaskFacts DEF Kinds
    <2> QED BY <1>1, <1>13, <2>1, AnswerKeeps DEF ApiRequest
  <1>14. CASE AdminRefocus
    <2> DEFINE kept == {t \in tasks : t.kind = "expiry"}
               asked == Task("adminMe", VerifySession(cred))
    <2>1. asked \in TaskType /\ ~SignsIn(asked)
      BY <1>1, VerifyBoolean, TaskFacts DEF Kinds
    <2>2. tasks \ kept \in SUBSET TaskType
      BY <1>1
    <2>3. Cancelled(tasks \ kept) \subseteq TaskType
          /\ (Quiet(tasks \ kept) => Quiet(Cancelled(tasks \ kept)))
      BY <2>2, CancelledFacts
    <2>4. /\ tasks' = Cancelled(tasks \ kept) \cup kept \cup {asked}
          /\ view' = "checking" /\ UNCHANGED <<clerk, cred, attempts, signedOut>>
      BY <1>14 DEF AdminRefocus
    <2>5. kept \subseteq tasks
      OBVIOUS
    <2> HIDE DEF kept, asked
    <2>6. tasks' \subseteq TaskType /\ (Quiet(tasks) => Quiet(tasks'))
      BY <1>1, <2>1, <2>3, <2>4, <2>5 DEF Quiet
    <2>7. (signedOut => ~clerk /\ Quiet(tasks))'
      BY <2>4, <2>6 DEF SessionInv, Quiet, SignsIn
    <2> QED BY <1>1, <2>4, <2>6, <2>7 DEF SessionInv, Types, SignOutSticks, ReadyOnlyIfAccepted
  <1> QED BY <1>4, <1>5, <1>6, <1>7, <1>8, <1>9, <1>10, <1>11, <1>12, <1>13, <1>14 DEF User

-----------------------------------------------------------------------------

\* It holds when the tab opens.
LEMMA SessionInvInit == Init => SessionInv
  <1> SUFFICES ASSUME Init PROVE SessionInv
    OBVIOUS
  <1>1. cred \in CredType
    BY DEF Init, CredType, Validity
  <1>2. Types
    BY <1>1 DEF Init, Types
  <1> QED BY <1>2 DEF Init, SessionInv, SignOutSticks, ReadyOnlyIfAccepted

\* Every step preserves it.
LEMMA SessionInvStep == SessionInv /\ [Next]_vars => SessionInv'
  <1>1. ASSUME SessionInv, Next
        PROVE  SessionInv'
    <2>1. ASSUME NEW t \in tasks, Answer(t)
          PROVE  SessionInv'
      BY <1>1, <2>1, GateStep, FormStep, PageStep DEF Answer
    <2> QED BY <1>1, <2>1, UserStep, WorldStep DEF Next
  <1>2. ASSUME SessionInv, UNCHANGED vars
        PROVE  SessionInv'
    BY <1>2 DEF vars, SessionInv, Types, SignOutSticks, Quiet, SignsIn, ReadyOnlyIfAccepted
  <1> QED BY <1>1, <1>2

\* After a sign-out the tab has neither a key nor the guard cookie until somebody starts to
\* sign in, however many requests of the old session are answered late (clearToken in
\* lib/auth.ts, the gate's `cancelled`, the interceptor of lib/axios-instance.ts).
THEOREM SignOutHolds == Spec => []SignOutSticks
  <1>1. SessionInv => SignOutSticks
    BY DEF SessionInv
  <1> QED BY SessionInvInit, SessionInvStep, <1>1, PTL DEF Spec

-----------------------------------------------------------------------------
(* What the tab shows, which requests belong to it and what it can do with *)
(* its session.                                                            *)

\* Whoever has a key or the guard cookie has had the CSRF cookie.
Equipped(c) == c.csrf = "none" => c.key = "none" /\ ~c.guard

\* A request of the component that is mounted was sent by the route p.
AtHome(t, p) ==
  /\ t.kind \in {"gate", "sync", "recheck"} => p \in Protected
  /\ t.kind \in {"adminMe", "expiry"} => p = "admin"
  /\ t.kind \in {"login", "register"} => p = t.kind
  /\ t.kind = "ssoMe" => p = "sso"

\* The forms send no credential, and no sign-in once the attempts are used up.
Sound(t) ==
  /\ t.kind \in {"login", "register"} => ~t.live
  /\ t.kind = "login" => t.count < AttemptLimit

Fits(t, p) == Sound(t) /\ (t.cur => AtHome(t, p))

\* The route p shows v, with the requests ts in flight and the credentials c.
Screen(p, v, ts, c) ==
  /\ p \in Pages /\ v \in Views(p)
  /\ ts \subseteq Tasks /\ \A t \in ts : Fits(t, p)
  /\ c \in CredType /\ Equipped(c)
  /\ p \in Protected => c.csrf # "none"

Rest ==
  /\ clerkKey \in ClerkKeys /\ clerk \in BOOLEAN
  /\ attempts \in 0 .. AttemptLimit /\ stored \in 0 .. AttemptLimit
  /\ accepted \in BOOLEAN /\ signedOut \in BOOLEAN

StateInv == Screen(page, view, tasks, cred) /\ Rest

\* What each route can show.
LEMMA ViewsOf ==
  /\ Views("login") = {"form", "busy"}
  /\ Views("register") = {"form", "busy", "pending", "approved"}
  /\ Views("sso") = {"processing", "error"}
  /\ Views("admin") = {"checking", "redirecting", "working", "ready", "failed"}
  /\ \A p \in Shells : Views(p) = {"working", "ready", "failed"}
  BY SessionAssumption DEF Views

\* The areas with a gate are the only ones with the views of one.
LEMMA ShellViews ==
  ASSUME NEW p \in Pages, NEW v \in Views(p), v \in {"working", "ready", "failed"}
  PROVE  p \in Protected
  BY ViewsOf DEF Pages, Protected

\* The views of a page behind the gate.
LEMMA GateViews ==
  ASSUME NEW p \in Protected
  PROVE  p \in Pages /\ {"working", "ready", "failed"} \subseteq Views(p)
  BY ViewsOf DEF Pages, Protected

\* A cancelled request fits every route.
LEMMA CancelledFits ==
  ASSUME NEW ts \in SUBSET Tasks, \A t \in ts : Sound(t)
  PROVE  Cancelled(ts) \subseteq Tasks /\ \A t \in Cancelled(ts) : ~t.cur /\ Sound(t)
  <1>1. ASSUME NEW t \in ts
        PROVE  LET u == [t EXCEPT !.cur = FALSE] IN u \in Tasks /\ ~u.cur /\ Sound(u)
    BY <1>1 DEF Tasks, Sound
  <1> QED BY <1>1 DEF Cancelled

\* A request that a mounted page sends.
LEMMA TaskFits ==
  ASSUME NEW k \in Kinds \ {"login", "register"}, NEW l \in BOOLEAN, NEW p, AtHome(Task(k, l), p)
  PROVE  Task(k, l) \in Tasks /\ Fits(Task(k, l), p)
  BY SessionAssumption DEF Task, Tasks, Fits, Sound, SessionAssumption

\* The gate's first request.
LEMMA GateFits ==
  ASSUME NEW l \in BOOLEAN, NEW k \in BOOLEAN, NEW p \in Protected
  PROVE  LET t == [Task("gate", l) EXCEPT !.clerk = k] IN t \in Tasks /\ Fits(t, p)
  <1> DEFINE t == [Task("gate", l) EXCEPT !.clerk = k]
  <1>1. AtHome(Task("gate", l), p)
    BY DEF AtHome, Task
  <1>2. Task("gate", l) \in Tasks
    BY <1>1, TaskFits DEF Kinds
  <1>3. t \in Tasks /\ t.kind = "gate"
    BY <1>2 DEF Tasks, Task
  <1> HIDE DEF t
  <1>4. Fits(t, p)
    BY <1>3 DEF Fits, Sound, AtHome
  <1> QED BY <1>3, <1>4 DEF t

\* The shell of an area with a gate, or /login if nothing hints at a session.
LEMMA MountShellScreen ==
  ASSUME NEW p \in Protected, NEW c \in CredType, Equipped(c),
         NEW ts \in SUBSET Tasks, \A t \in ts : Fits(t, p), clerk \in BOOLEAN
  PROVE  LET m == MountShell(p, c, ts)
         IN  Screen(m.page, m.view, m.tasks, m.cred) /\ m.cred = c
  <1> DEFINE v == VerifySession(c)
             gate == [Task("gate", v) EXCEPT !.clerk = clerk]
             api == Task("api", v)
             out == ts \cup {gate, api}
             m == MountShell(p, c, ts)
  <1>1. v \in BOOLEAN
    BY VerifyBoolean
  <1>2. gate \in Tasks /\ Fits(gate, p)
    BY <1>1, GateFits
  <1>3. api \in Tasks /\ Fits(api, p)
    BY <1>1, SessionAssumption
       DEF Task, Tasks, Fits, Sound, AtHome, Kinds, SessionAssumption
  <1>4. m = IF IsAuthenticated(c)
              THEN [page |-> p, view |-> "working", tasks |-> out, cred |-> c]
              ELSE [page |-> "login", view |-> "form", tasks |-> Cancelled(out), cred |-> c]
    BY DEF MountShell
  <1> HIDE DEF v, gate, api, m
  <1>5. out \in SUBSET Tasks /\ \A t \in out : Fits(t, p) /\ Sound(t)
    BY <1>2, <1>3 DEF Fits
  <1>6. Cancelled(out) \subseteq Tasks /\ \A t \in Cancelled(out) : ~t.cur /\ Sound(t)
    BY <1>5, CancelledFits
  <1> HIDE DEF out
  <1>7. CASE IsAuthenticated(c)
    <2>1. c.csrf # "none"
      BY <1>7 DEF IsAuthenticated, Equipped
    <2>2. Screen(p, "working", out, c)
      BY <1>5, <2>1, GateViews DEF Screen
    <2> QED BY <1>4, <1>7, <2>2 DEF m
  <1>8. CASE ~IsAuthenticated(c)
    <2>1. Screen("login", "form", Cancelled(out), c)
      BY <1>6, ViewsOf, SessionAssumption DEF Screen, Fits, Pages, Protected, SessionAssumption
    <2> QED BY <1>4, <1>8, <2>1 DEF m
  <1> QED BY <1>7, <1>8

\* Every route, mounted when the requests of the one before are cancelled.
LEMMA MountScreen ==
  ASSUME NEW p \in Pages, NEW c \in CredType, Equipped(c),
         NEW ts \in SUBSET Tasks, \A t \in ts : ~t.cur /\ Sound(t), clerk \in BOOLEAN
  PROVE  LET m == Mount(p, c, ts) IN Screen(m.page, m.view, m.tasks, m.cred)
  <1> DEFINE v == VerifySession(c)
             m == Mount(p, c, ts)
  <1>0. \A t \in ts : \A q \in Pages : Fits(t, q)
    BY DEF Fits
  <1>1. v \in BOOLEAN
    BY VerifyBoolean
  <1>2. "login" \notin Protected /\ "register" \notin Protected /\ "sso" \notin Protected
    BY SessionAssumption DEF Protected, SessionAssumption
  <1>3. CASE p \in Shells
    <2>1. m = MountShell(p, c, ts)
      BY <1>3, SessionAssumption DEF Mount
    <2>2. p \in Protected
      BY <1>3 DEF Protected
    <2> QED BY <1>0, <2>1, <2>2, MountShellScreen
  <1>4. CASE p \notin Shells /\ p = "admin"
    <2> DEFINE expiry == Task("expiry", v)
               me == Task("adminMe", v)
    <2>1. m = IF IsAuthenticated(c)
                THEN [page |-> "admin", view |-> "checking", cred |-> c,
                      tasks |-> ts \cup {expiry, me}]
                ELSE [page |-> "login", view |-> "form", cred |-> c, tasks |-> ts]
      BY <1>4 DEF Mount, MountAdmin
    <2>2. expiry \in Tasks /\ Fits(expiry, "admin") /\ me \in Tasks /\ Fits(me, "admin")
      BY <1>1, SessionAssumption
         DEF Task, Tasks, Fits, Sound, AtHome, Kinds, SessionAssumption
    <2> HIDE DEF v, m, expiry, me
    <2>3. CASE IsAuthenticated(c)
      <3>1. c.csrf # "none"
        BY <2>3 DEF IsAuthenticated, Equipped
      <3>2. Screen("admin", "checking", ts \cup {expiry, me}, c)
        BY <1>0, <2>2, <3>1, ViewsOf DEF Screen, Pages, Protected
      <3> QED BY <2>1, <2>3, <3>2 DEF m
    <2>4. CASE ~IsAuthenticated(c)
      <3>1. Screen("login", "form", ts, c)
        BY <1>0, <1>2, ViewsOf DEF Screen, Pages
      <3> QED BY <2>1, <2>4, <3>1 DEF m
    <2> QED BY <2>3, <2>4
  <1>5. CASE p \notin Shells /\ p = "sso"
    <2> DEFINE me == Task("ssoMe", c.cookie = "live")
               d == [c EXCEPT !.csrf = "set"]
    <2>1. m = [page |-> "sso", view |-> "processing", cred |-> d, tasks |-> ts \cup {me}]
      BY <1>5 DEF Mount, MountSso
    <2>2. me \in Tasks /\ Fits(me, "sso")
      BY SessionAssumption DEF Task, Tasks, Fits, Sound, AtHome, Kinds, SessionAssumption
    <2>3. d \in CredType /\ d.csrf = "set"
      BY DEF CredType
    <2> HIDE DEF m, me, d
    <2>4. Screen("sso", "processing", ts \cup {me}, d)
      BY <1>0, <1>2, <2>2, <2>3, ViewsOf DEF Screen, Pages, Equipped
    <2> QED BY <2>1, <2>4 DEF m
  <1>6. CASE p \in {"login", "register"}
    <2>1. m = [page |-> p, view |-> "form", cred |-> c, tasks |-> ts]
      BY <1>6, SessionAssumption DEF Mount, SessionAssumption
    <2> HIDE DEF m
    <2>2. Screen(p, "form", ts, c)
      BY <1>0, <1>2, <1>6, ViewsOf DEF Screen
    <2> QED BY <2>1, <2>2 DEF m
  <1> QED BY <1>3, <1>4, <1>5, <1>6 DEF Pages, Protected

\* A navigation ends on a screen that is in order, whatever was shown before.
LEMMA GoToScreen ==
  ASSUME NEW p \in Pages, NEW c \in CredType, Equipped(c),
         NEW ts \in SUBSET Tasks, \A t \in ts : Sound(t), clerk \in BOOLEAN, GoTo(p, c, ts)
  PROVE  /\ Screen(page', view', tasks', cred')
         /\ attempts' \in 0 .. AttemptLimit /\ accepted' \in BOOLEAN
  <1>1. PICK up \in BOOLEAN :
          LET to == Middleware(p, c, up)
              m  == Mount(to.page, to.cred, Cancelled(ts))
          IN  /\ cred' = m.cred /\ page' = m.page /\ view' = m.view /\ tasks' = m.tasks
              /\ attempts' = 0 /\ accepted' = FALSE
    BY DEF GoTo
  <1> DEFINE to == Middleware(p, c, up)
             m  == Mount(to.page, to.cred, Cancelled(ts))
  <1>2. to.page \in Pages /\ to.cred \in CredType /\ Equipped(to.cred)
    <2>1. to.page \in {p, "login"} /\ to.cred \in {c, [c EXCEPT !.guard = FALSE]}
      BY DEF Middleware
    <2> HIDE DEF to
    <2>2. to.page \in Pages
      BY <2>1 DEF Pages
    <2> QED BY <2>1, <2>2 DEF CredType, Equipped
  <1>3. Cancelled(ts) \subseteq Tasks /\ \A t \in Cancelled(ts) : ~t.cur /\ Sound(t)
    BY CancelledFits
  <1>4. /\ cred' = m.cred /\ page' = m.page /\ view' = m.view /\ tasks' = m.tasks
        /\ attempts' = 0 /\ accepted' = FALSE
    BY <1>1
  <1>5. Screen(m.page, m.view, m.tasks, m.cred)
    <2> HIDE DEF to
    <2> QED BY <1>2, <1>3, MountScreen
  <1> HIDE DEF m
  <1>6. attempts' \in 0 .. AttemptLimit
    <2>1. attempts' = 0
      BY <1>4
    <2> QED BY <2>1, SessionAssumption DEF SessionAssumption
  <1>7. Screen(page', view', tasks', cred')
    BY <1>4, <1>5
  <1>8. accepted' \in BOOLEAN
    BY <1>4
  <1> QED BY <1>6, <1>7, <1>8

-----------------------------------------------------------------------------
(* The steps, for the screen                                               *)

\* What StateInv says of the requests and the credentials.
LEMMA StateFacts ==
  ASSUME StateInv
  PROVE  /\ page \in Pages /\ view \in Views(page)
         /\ tasks \subseteq Tasks /\ (\A t \in tasks : Fits(t, page) /\ Sound(t))
         /\ cred \in CredType /\ Equipped(cred) /\ clerk \in BOOLEAN
         /\ page \in Protected => cred.csrf # "none"
  BY DEF StateInv, Screen, Rest, Fits

\* A step that stays on the page.
LEMMA StayState ==
  ASSUME StateInv, page' = page, view' \in Views(page),
         tasks' \subseteq Tasks, \A t \in tasks' : t \in tasks \/ Fits(t, page),
         cred' \in CredType, Equipped(cred'), cred'.csrf = "none" => cred.csrf = "none", Rest'
  PROVE  StateInv'
  <1>1. Screen(page', view', tasks', cred')
    BY StateFacts DEF Screen
  <1> QED BY <1>1 DEF StateInv

\* A navigation.
LEMMA GoToState ==
  ASSUME StateInv, NEW p \in Pages, NEW c \in CredType, Equipped(c),
         NEW ts \in SUBSET Tasks, \A t \in ts : Sound(t), GoTo(p, c, ts),
         clerkKey' = clerkKey, clerk' \in BOOLEAN, stored' \in 0 .. AttemptLimit,
         signedOut' \in BOOLEAN
  PROVE  StateInv'
  <1>1. clerk \in BOOLEAN
    BY StateFacts
  <1>2. /\ Screen(page', view', tasks', cred')
        /\ attempts' \in 0 .. AttemptLimit /\ accepted' \in BOOLEAN
    BY <1>1, GoToScreen
  <1>3. clerkKey \in ClerkKeys
    BY DEF StateInv, Rest
  <1>4. Rest'
    BY <1>2, <1>3 DEF Rest
  <1>5. Screen(page, view, tasks, cred)'
    BY <1>2
  <1> QED BY <1>4, <1>5 DEF StateInv

\* A navigation with the credentials of the tab, by a step that leaves the rest alone.
LEMMA PlainGoTo ==
  ASSUME StateInv, NEW p \in Pages, NEW ts \in SUBSET tasks, GoTo(p, cred, ts),
         UNCHANGED <<clerkKey, clerk, stored, signedOut>>
  PROVE  StateInv'
  <1>1. ts \in SUBSET Tasks /\ (\A t \in ts : Sound(t)) /\ cred \in CredType /\ Equipped(cred)
    BY StateFacts
  <1>2. /\ clerkKey' = clerkKey /\ clerk' \in BOOLEAN /\ stored' \in 0 .. AttemptLimit
        /\ signedOut' \in BOOLEAN
    BY DEF StateInv, Rest
  <1> QED BY <1>1, <1>2, GoToState

\* A 401 that the interceptor sees.
LEMMA On401State ==
  ASSUME StateInv, NEW ts \in SUBSET tasks, On401(ts),
         clerkKey' = clerkKey, clerk' = clerk, stored' \in 0 .. AttemptLimit,
         signedOut' = signedOut
  PROVE  StateInv'
  <1> DEFINE c == [cred EXCEPT !.key = "none", !.guard = FALSE]
  <1>1. c \in CredType /\ Equipped(c) /\ c.csrf = cred.csrf
    BY StateFacts DEF CredType, Validity, Equipped
  <1>2. clerk' \in BOOLEAN /\ signedOut' \in BOOLEAN
    BY DEF StateInv, Rest
  <1>3. CASE page = "login"
    <2>1. cred' = c /\ tasks' = ts /\ UNCHANGED <<page, view, attempts, accepted>>
      BY <1>3 DEF On401
    <2>2. Rest'
      BY <1>2, <2>1 DEF StateInv, Rest
    <2> HIDE DEF c
    <2> QED BY <1>1, <2>1, <2>2, StateFacts, StayState
  <1>4. CASE page # "login"
    <2>1. GoTo("login", c, {})
      BY <1>4 DEF On401
    <2>2. "login" \in Pages
      BY DEF Pages
    <2> HIDE DEF c
    <2> QED BY <1>1, <1>2, <2>1, <2>2, GoToState
  <1> QED BY <1>3, <1>4

\* Answers of the gate's requests.
LEMMA GateStepState ==
  ASSUME StateInv, NEW t \in tasks,
         GateVerified(t) \/ GateRefused(t) \/ SyncAccepted(t) \/ SyncFailed(t)
  PROVE  StateInv'
  <1>1. /\ t \in Tasks /\ Fits(t, page) /\ cred \in CredType /\ Equipped(cred)
        /\ view \in Views(page) /\ tasks \subseteq Tasks /\ Rest
    BY StateFacts DEF StateInv
  <1>2. t.kind \in {"gate", "sync", "recheck"}
    BY DEF GateVerified, GateRefused, SyncAccepted, SyncFailed
  <1>3. t.cur => {"ready", "failed"} \subseteq Views(page)
    BY <1>1, <1>2, GateViews DEF Fits, AtHome
  <1>4. CASE GateVerified(t)
    <2>1. view' \in Views(page) /\ tasks' = tasks \ {t} /\ page' = page /\ cred' = cred
      BY <1>1, <1>3, <1>4 DEF GateVerified
    <2>2. Rest'
      BY <1>1, <1>4 DEF GateVerified, Rest, Tasks
    <2> QED BY <1>1, <2>1, <2>2, StayState
  <1>5. CASE GateRefused(t) /\ t.clerk
    <2> DEFINE u == [t EXCEPT !.kind = "sync"]
    <2>1. u \in Tasks /\ u.kind = "sync" /\ u.cur = t.cur
      BY <1>1 DEF Tasks, Kinds
    <2>2. /\ tasks' \subseteq (tasks \ {t}) \cup {u}
          /\ cred' = cred /\ page' = page /\ view' \in {view} \cup IF t.cur THEN {"failed"} ELSE {}
          /\ UNCHANGED <<clerkKey, clerk, attempts, stored, accepted, signedOut>>
      BY <1>5 DEF GateRefused
    <2> HIDE DEF u
    <2>3. Fits(u, page)
      BY <1>1, <1>2, <2>1 DEF Fits, Sound, AtHome
    <2>4. Rest'
      BY <1>1, <2>2 DEF Rest
    <2>5. view' \in Views(page)
      BY <1>1, <1>3, <2>2
    <2> QED BY <1>1, <2>1, <2>2, <2>3, <2>4, <2>5, StayState
  <1>6. CASE GateRefused(t) /\ ~t.clerk
    <2>1. Replace("login", cred, tasks \ {t}) /\ UNCHANGED <<clerkKey, clerk, stored, signedOut>>
      BY <1>6 DEF GateRefused
    <2>2. CASE page = "login"
      <3>1. cred' = cred /\ tasks' = tasks \ {t} /\ UNCHANGED <<page, view, attempts, accepted>>
        BY <2>1, <2>2 DEF Replace
      <3>2. Rest'
        BY <1>1, <2>1, <3>1 DEF Rest
      <3> QED BY <1>1, <3>1, <3>2, StayState
    <2>3. CASE page # "login"
      <3>1. GoTo("login", cred, tasks \ {t})
        BY <2>1, <2>3 DEF Replace
      <3>2. "login" \in Pages /\ tasks \ {t} \in SUBSET tasks
        BY DEF Pages
      <3> QED BY <2>1, <3>1, <3>2, PlainGoTo
    <2> QED BY <2>2, <2>3
  <1>7. CASE SyncAccepted(t)
    <2> DEFINE u == [t EXCEPT !.kind = "recheck", !.live = TRUE]
               c == MarkCookieSession([cred EXCEPT !.cookie = "live"])
    <2>1. u \in Tasks /\ u.kind = "recheck" /\ u.cur = t.cur
      BY <1>1 DEF Tasks, Kinds
    <2>2. c \in CredType /\ c.csrf = "set"
      BY <1>1 DEF CredType, MarkCookieSession, Validity
    <2>3. /\ tasks' = (tasks \ {t}) \cup {u} /\ cred' = c
          /\ UNCHANGED <<clerkKey, clerk, page, view, attempts, stored, accepted, signedOut>>
      BY <1>7 DEF SyncAccepted
    <2> HIDE DEF u, c
    <2>4. Fits(u, page)
      BY <1>1, <1>2, <2>1 DEF Fits, Sound, AtHome
    <2>5. Rest'
      BY <1>1, <2>3 DEF Rest
    <2> QED BY <1>1, <2>1, <2>2, <2>3, <2>4, <2>5, StayState DEF Equipped
  <1>8. CASE SyncFailed(t)
    <2>1. view' \in Views(page) /\ tasks' = tasks \ {t} /\ page' = page /\ cred' = cred
      BY <1>1, <1>3, <1>8 DEF SyncFailed
    <2>2. Rest'
      BY <1>1, <1>8 DEF SyncFailed, Rest
    <2> QED BY <1>1, <2>1, <2>2, StayState
  <1> QED BY <1>4, <1>5, <1>6, <1>7, <1>8

\* Answers of the forms' requests.
LEMMA FormStepState ==
  ASSUME StateInv, NEW t \in tasks,
         \/ LoginAccepted(t) \/ LoginFailed(t) \/ RegisterFailed(t)
         \/ \E approved \in BOOLEAN : RegisterAccepted(t, approved)
  PROVE  StateInv'
  <1>1. /\ t \in Tasks /\ Fits(t, page) /\ cred \in CredType /\ Equipped(cred)
        /\ view \in Views(page) /\ tasks \subseteq Tasks /\ Rest
    BY StateFacts DEF StateInv
  <1>2. tasks \ {t} \in SUBSET tasks
    OBVIOUS
  <1>3. CASE LoginAccepted(t)
    <2> DEFINE c == MarkCookieSession([cred EXCEPT !.cookie = "live"])
    <2>1. c \in CredType /\ Equipped(c)
      BY <1>1 DEF CredType, MarkCookieSession, Validity, Equipped
    <2>2. GoTo("dashboard", c, tasks \ {t}) /\ UNCHANGED <<clerkKey, clerk, stored, signedOut>>
      BY <1>3 DEF LoginAccepted
    <2>3. "dashboard" \in Pages
      BY SessionAssumption DEF Pages, Protected, SessionAssumption
    <2>4. tasks \ {t} \in SUBSET Tasks /\ \A u \in tasks \ {t} : Sound(u)
      BY StateFacts
    <2>5. /\ clerkKey' = clerkKey /\ clerk' \in BOOLEAN /\ stored' \in 0 .. AttemptLimit
          /\ signedOut' \in BOOLEAN
      BY <1>1, <2>2 DEF Rest
    <2> HIDE DEF c
    <2> QED BY <2>1, <2>2, <2>3, <2>4, <2>5, GoToState
  <1>4. CASE LoginFailed(t)
    <2>1. t.count \in 0 .. AttemptLimit /\ t.count < AttemptLimit /\ (t.cur => page = "login")
      BY <1>1, <1>4 DEF LoginFailed, Fits, Sound, AtHome, Tasks
    <2>2. t.count + 1 \in 0 .. AttemptLimit
      BY <2>1, SessionAssumption DEF SessionAssumption
    <2>3. stored' = t.count + 1 /\ UNCHANGED <<clerkKey, clerk, signedOut>>
      BY <1>4 DEF LoginFailed
    <2>4. CASE On401(tasks \ {t})
      BY <1>2, <2>2, <2>3, <2>4, On401State
    <2>5. CASE ~On401(tasks \ {t})
      <3>1. /\ cred' \in {cred, [cred EXCEPT !.key = "none", !.guard = FALSE]}
            /\ tasks' = tasks \ {t} /\ page' = page /\ accepted' = accepted
            /\ view' = IF t.cur THEN "form" ELSE view
            /\ attempts' \in {attempts, t.count + 1}
        BY <1>4, <2>5 DEF LoginFailed
      <3>2. view' \in Views(page)
        BY <1>1, <2>1, <3>1, ViewsOf
      <3>3. cred' \in CredType /\ Equipped(cred') /\ cred'.csrf = cred.csrf
        BY <1>1, <3>1 DEF CredType, Validity, Equipped
      <3>4. Rest'
        BY <1>1, <2>2, <2>3, <3>1 DEF Rest
      <3> QED BY <1>1, <3>1, <3>2, <3>3, <3>4, StayState
    <2> QED BY <2>4, <2>5
  <1>5. CASE RegisterFailed(t)
    <2>1. UNCHANGED <<clerkKey, clerk, stored, signedOut>> /\ (t.cur => page = "register")
      BY <1>1, <1>5 DEF RegisterFailed, Fits, AtHome
    <2>2. CASE On401(tasks \ {t})
      <3>1. stored' \in 0 .. AttemptLimit
        BY <1>1, <2>1 DEF Rest
      <3> QED BY <1>2, <2>1, <2>2, <3>1, On401State
    <2>3. CASE ~On401(tasks \ {t})
      <3>1. /\ tasks' = tasks \ {t} /\ UNCHANGED <<cred, page, attempts, accepted>>
            /\ view' = IF t.cur THEN "form" ELSE view
        BY <1>5, <2>3 DEF RegisterFailed
      <3>2. view' \in Views(page)
        BY <1>1, <2>1, <3>1, ViewsOf
      <3>3. Rest'
        BY <1>1, <2>1, <3>1 DEF Rest
      <3> QED BY <1>1, <3>1, <3>2, <3>3, StayState
    <2> QED BY <2>2, <2>3
  <1>6. ASSUME NEW approved \in BOOLEAN, RegisterAccepted(t, approved)
        PROVE  StateInv'
    <2>1. t.cur => page = "register"
      BY <1>1, <1>6 DEF RegisterAccepted, Fits, AtHome
    <2>2. cred' \in {cred, SetToken([cred EXCEPT !.cookie = "live"])}
      BY <1>6 DEF RegisterAccepted
    <2>3. cred' \in CredType /\ Equipped(cred') /\ (cred'.csrf = "none" => cred.csrf = "none")
      BY <1>1, <2>2 DEF SetToken, CredType, Validity, Equipped
    <2>4. view' = view \/ (t.cur /\ view' \in {"approved", "pending"})
      BY <1>1, <1>6 DEF RegisterAccepted, Tasks
    <2>5. view' \in Views(page)
      BY <1>1, <2>1, <2>4, ViewsOf
    <2>6. /\ tasks' = tasks \ {t}
          /\ UNCHANGED <<clerkKey, clerk, page, attempts, stored, accepted, signedOut>>
      BY <1>6 DEF RegisterAccepted
    <2>7. Rest'
      BY <1>1, <2>6 DEF Rest
    <2> QED BY <1>1, <2>3, <2>5, <2>6, <2>7, StayState
  <1> QED BY <1>3, <1>4, <1>5, <1>6

\* Answers of the other requests.
LEMMA PageStepState ==
  ASSUME StateInv, NEW t \in tasks,
         ApiAnswer(t) \/ LogoutAnswer(t) \/ SsoAnswer(t) \/ AdminMeAnswer(t) \/ ExpiryAnswer(t)
  PROVE  StateInv'
  <1>1. /\ t \in Tasks /\ Fits(t, page) /\ cred \in CredType /\ Equipped(cred)
        /\ view \in Views(page) /\ tasks \subseteq Tasks /\ Rest
    BY StateFacts DEF StateInv
  <1>2. tasks \ {t} \in SUBSET tasks
    OBVIOUS
  <1>3. UNCHANGED <<clerkKey, clerk, stored, signedOut>>
    BY DEF ApiAnswer, LogoutAnswer, SsoAnswer, AdminMeAnswer, ExpiryAnswer
  <1>4. CASE LogoutAnswer(t)
    <2>1. cred' \in {cred, [cred EXCEPT !.cookie = "none"]}
      BY <1>4 DEF LogoutAnswer
    <2>2. cred' \in CredType /\ Equipped(cred') /\ cred'.csrf = cred.csrf
      BY <1>1, <2>1 DEF CredType, Validity, Equipped
    <2>3. tasks' = tasks \ {t} /\ UNCHANGED <<page, view, attempts, accepted>>
      BY <1>4 DEF LogoutAnswer
    <2>4. Rest'
      BY <1>1, <1>3, <2>3 DEF Rest
    <2> QED BY <1>1, <2>2, <2>3, <2>4, StayState
  <1>5. CASE On401(tasks \ {t})
    <2>1. stored' \in 0 .. AttemptLimit
      BY <1>1, <1>3 DEF Rest
    <2> QED BY <1>2, <1>3, <1>5, <2>1, On401State
  <1>6. ASSUME NEW p \in {"dashboard", "login"}, GoTo(p, cred, tasks \ {t})
        PROVE  StateInv'
    <2>1. p \in Pages
      BY SessionAssumption DEF Pages, Protected, SessionAssumption
    <2> QED BY <1>2, <1>3, <1>6, <2>1, PlainGoTo
  <1>7. CASE tasks' = tasks \ {t} /\ UNCHANGED <<cred, page, view, attempts, accepted>>
    <2>1. Rest'
      BY <1>1, <1>3, <1>7 DEF Rest
    <2> QED BY <1>1, <1>7, <2>1, StayState
  <1> DEFINE m == MountShell("admin", cred, tasks \ {t})
  <1>8. CASE AdminMeAnswer(t) /\ ~On401(tasks \ {t})
    <2>1. t.cur => page = "admin"
      BY <1>1, <1>8 DEF AdminMeAnswer, Fits, AtHome
    <2>2. CASE /\ t.cur /\ page' = m.page /\ view' = m.view /\ tasks' = m.tasks
               /\ UNCHANGED <<cred, attempts, accepted>>
      <3>1. "admin" \in Protected /\ tasks \ {t} \in SUBSET Tasks
            /\ (\A u \in tasks \ {t} : Fits(u, "admin")) /\ clerk \in BOOLEAN
        BY <2>1, <2>2, StateFacts DEF Protected
      <3>2. Screen(m.page, m.view, m.tasks, m.cred) /\ m.cred = cred
        BY <1>1, <3>1, MountShellScreen
      <3> HIDE DEF m
      <3>3. Screen(page, view, tasks, cred)'
        BY <2>2, <3>2
      <3>4. Rest'
        BY <1>1, <1>3, <2>2 DEF Rest
      <3> QED BY <3>3, <3>4 DEF StateInv
    <2>3. CASE /\ view' = IF t.cur THEN "redirecting" ELSE view
               /\ tasks' = tasks \ {t} /\ UNCHANGED <<cred, page, attempts, accepted>>
      <3>1. view' \in Views(page)
        BY <1>1, <2>1, <2>3, ViewsOf
      <3>2. Rest'
        BY <1>1, <1>3, <2>3 DEF Rest
      <3> QED BY <1>1, <2>3, <3>1, <3>2, StayState
    <2> QED BY <1>8, <2>2, <2>3 DEF AdminMeAnswer
  <1>9. CASE ApiAnswer(t) \/ SsoAnswer(t) \/ ExpiryAnswer(t)
    <2>1. \/ On401(tasks \ {t})
          \/ \E p \in {"dashboard", "login"} : GoTo(p, cred, tasks \ {t})
          \/ tasks' = tasks \ {t} /\ UNCHANGED <<cred, page, view, attempts, accepted>>
      BY <1>9 DEF ApiAnswer, SsoAnswer, ExpiryAnswer
    <2> QED BY <1>5, <1>6, <1>7, <2>1
  <1> QED BY <1>4, <1>5, <1>8, <1>9

\* What happens to the session without the user.
LEMMA WorldStepState ==
  ASSUME StateInv, World
  PROVE  StateInv'
  <1>1. /\ cred \in CredType /\ Equipped(cred) /\ view \in Views(page) /\ page \in Pages
        /\ tasks \subseteq Tasks /\ Rest
    BY StateFacts DEF StateInv
  <1>2. CASE Expire \/ GuardLapses \/ CsrfLapses
    <2>1. cred' \in CredType /\ Equipped(cred') /\ (cred'.csrf = "none" => cred.csrf = "none")
      BY <1>1, <1>2 DEF Expire, GuardLapses, CsrfLapses, CredType, Validity, Equipped
    <2>2. UNCHANGED <<clerkKey, clerk, page, view, tasks, attempts, stored, accepted, signedOut>>
      BY <1>2 DEF Expire, GuardLapses, CsrfLapses
    <2>3. Rest'
      BY <1>1, <2>2 DEF Rest
    <2> QED BY <1>1, <2>1, <2>2, <2>3, StayState
  <1>3. CASE ClerkSessionEnds
    <2> DEFINE gate == Task("gate", VerifySession(cred))
    <2>1. clerk' = FALSE
          /\ UNCHANGED <<clerkKey, cred, page, view, attempts, stored, accepted, signedOut>>
      BY <1>3 DEF ClerkSessionEnds
    <2>2. Rest'
      BY <1>1, <2>1 DEF Rest
    <2>3. CASE ShellShown
      <3>1. page \in Protected
        BY <1>1, <2>3, ShellViews DEF ShellShown
      <3>2. VerifySession(cred) \in BOOLEAN
        BY <1>1, VerifyBoolean
      <3>3. AtHome(gate, page)
        BY <3>1 DEF AtHome, Task
      <3>4. gate \in Tasks /\ Fits(gate, page)
        BY <3>2, <3>3, TaskFits DEF Kinds
      <3>5. Cancelled(tasks) \subseteq Tasks /\ \A u \in Cancelled(tasks) : ~u.cur /\ Sound(u)
        BY StateFacts, CancelledFits
      <3>6. tasks' = Cancelled(tasks) \cup {gate}
        BY <1>3, <2>3 DEF ClerkSessionEnds
      <3> HIDE DEF gate
      <3>7. tasks' \subseteq Tasks /\ \A u \in tasks' : Fits(u, page)
        BY <3>4, <3>5, <3>6 DEF Fits
      <3> QED BY <1>1, <2>1, <2>2, <3>7, StayState
    <2>4. CASE ~ShellShown
      BY <1>1, <1>3, <2>1, <2>2, <2>4, StayState DEF ClerkSessionEnds
    <2> QED BY <2>3, <2>4
  <1> QED BY <1>2, <1>3 DEF World

\* What the user does, and Clerk's redirect.
LEMMA UserStepState ==
  ASSUME StateInv, User \/ ClerkRedirect
  PROVE  StateInv'
  <1>1. /\ cred \in CredType /\ Equipped(cred) /\ view \in Views(page) /\ page \in Pages
        /\ tasks \subseteq Tasks /\ (\A t \in tasks : Fits(t, page) /\ Sound(t)) /\ Rest
    BY StateFacts DEF StateInv
  <1>2. {} \in SUBSET tasks /\ tasks \in SUBSET tasks
    OBVIOUS
  <1>3. /\ "dashboard" \in Pages /\ "login" \in Pages /\ "sso" \in Pages
        /\ Protected \subseteq Pages /\ "sso" \notin Protected
    BY SessionAssumption DEF Pages, Protected, SessionAssumption
  <1>4. ASSUME NEW p \in Pages, NEW hard \in BOOLEAN, Navigate(p, hard)
        PROVE  StateInv'
    <2>1. /\ GoTo(p, cred, IF hard THEN {} ELSE tasks)
          /\ UNCHANGED <<clerkKey, clerk, stored, signedOut>>
      BY <1>4 DEF Navigate
    <2>2. (IF hard THEN {} ELSE tasks) \in SUBSET tasks
      OBVIOUS
    <2> QED BY <2>1, <2>2, PlainGoTo
  <1>5. ASSUME NEW p \in Protected, SwitchContext(p)
        PROVE  StateInv'
    BY <1>2, <1>3, <1>5, PlainGoTo DEF SwitchContext
  <1>6. CASE GateRetry
    BY <1>1, <1>2, <1>6, PlainGoTo DEF GateRetry
  <1>7. CASE LeaveRegistered \/ SsoErrorBack \/ ClerkRedirect
    BY <1>2, <1>3, <1>7, PlainGoTo DEF LeaveRegistered, SsoErrorBack, ClerkRedirect
  <1>8. CASE GateSignOut
    <2>1. GoTo("login", cred, tasks) /\ clerk' = FALSE /\ UNCHANGED <<clerkKey, stored, signedOut>>
      BY <1>8 DEF GateSignOut
    <2>2. /\ clerkKey' = clerkKey /\ clerk' \in BOOLEAN /\ stored' \in 0 .. AttemptLimit
          /\ signedOut' \in BOOLEAN
      BY <1>1, <2>1 DEF Rest
    <2> QED BY <1>1, <1>3, <2>1, <2>2, GoToState
  <1>9. CASE SignOut
    <2> DEFINE c == ClearToken(cred)
               logout == Task("logout", FALSE)
    <2>1. c \in CredType /\ Equipped(c)
      BY <1>1 DEF ClearToken, CredType, Validity, Equipped
    <2>2. logout \in Tasks /\ Sound(logout)
      BY TaskFits DEF Kinds, Task, AtHome, Fits
    <2>3. GoTo("login", c, tasks \cup {logout}) /\ UNCHANGED <<clerkKey, stored>>
      BY <1>9 DEF SignOut
    <2>4. clerk' \in BOOLEAN /\ signedOut' \in BOOLEAN
      BY <1>1, <1>9 DEF SignOut, Rest
    <2>5. stored' \in 0 .. AttemptLimit
      BY <1>1, <2>3 DEF Rest
    <2> HIDE DEF c, logout
    <2>6. tasks \cup {logout} \in SUBSET Tasks /\ \A t \in tasks \cup {logout} : Sound(t)
      BY <1>1, <2>2
    <2> QED BY <1>3, <2>1, <2>3, <2>4, <2>5, <2>6, GoToState
  <1>10. CASE ClerkSignIn
    <2>1. /\ clerk' = TRUE /\ signedOut' = FALSE
          /\ UNCHANGED <<clerkKey, cred, page, view, tasks, attempts, stored, accepted>>
      BY <1>10 DEF ClerkSignIn
    <2>2. Rest'
      BY <1>1, <2>1 DEF Rest
    <2> QED BY <1>1, <2>1, <2>2, StayState
  <1>11. CASE SubmitLogin
    <2> DEFINE t == [Task("login", FALSE) EXCEPT !.count = attempts]
    <2>1. attempts \in 0 .. AttemptLimit /\ attempts < AttemptLimit /\ page = "login"
      BY <1>1, <1>11 DEF SubmitLogin, Rest
    <2>2. t \in Tasks /\ t.kind = "login" /\ ~t.live /\ t.count = attempts
      BY <2>1 DEF Task, Tasks, Kinds
    <2>3. /\ tasks' = tasks \cup {t} /\ view' = "busy" /\ signedOut' = FALSE
          /\ UNCHANGED <<clerkKey, clerk, cred, page, attempts, stored, accepted>>
      BY <1>11 DEF SubmitLogin
    <2> HIDE DEF t
    <2>4. Fits(t, page)
      BY <2>1, <2>2 DEF Fits, Sound, AtHome
    <2>5. Rest'
      BY <1>1, <2>3 DEF Rest
    <2>6. view' \in Views(page)
      BY <2>1, <2>3, ViewsOf
    <2> QED BY <1>1, <2>2, <2>3, <2>4, <2>5, <2>6, StayState
  <1>12. CASE SubmitRegister
    <2> DEFINE t == Task("register", FALSE)
    <2>1. t \in Tasks /\ t.kind = "register" /\ ~t.live
      BY SessionAssumption DEF Task, Tasks, Kinds, SessionAssumption
    <2>2. /\ tasks' = tasks \cup {t} /\ view' = "busy" /\ signedOut' = FALSE /\ page = "register"
          /\ UNCHANGED <<clerkKey, clerk, cred, page, attempts, stored, accepted>>
      BY <1>12 DEF SubmitRegister
    <2> HIDE DEF t
    <2>3. Fits(t, page)
      BY <2>1, <2>2 DEF Fits, Sound, AtHome
    <2>4. Rest'
      BY <1>1, <2>2 DEF Rest
    <2>5. view' \in Views(page)
      BY <2>2, ViewsOf
    <2> QED BY <1>1, <2>1, <2>2, <2>3, <2>4, <2>5, StayState
  <1>13. ASSUME NEW outcome \in {"cookie", "token", "error"}, SsoReturns(outcome)
         PROVE  StateInv'
    <2> DEFINE c == [cred EXCEPT !.cookie = "live"]
    <2>1. c \in CredType /\ Equipped(c) /\ SetToken(c) \in CredType /\ Equipped(SetToken(c))
      BY <1>1 DEF SetToken, CredType, Validity, Equipped
    <2>2. signedOut' = FALSE /\ UNCHANGED <<clerkKey, clerk, stored>>
      BY <1>13 DEF SsoReturns
    <2>3. /\ clerkKey' = clerkKey /\ clerk' \in BOOLEAN /\ stored' \in 0 .. AttemptLimit
          /\ signedOut' \in BOOLEAN
      BY <1>1, <2>2 DEF Rest
    <2>4. CASE outcome = "cookie"
      <3>1. GoTo("sso", c, {})
        BY <1>13, <2>4 DEF SsoReturns
      <3> HIDE DEF c
      <3> QED BY <1>3, <2>1, <2>3, <3>1, GoToState
    <2>5. CASE outcome = "token"
      <3>1. GoTo("dashboard", SetToken(c), {})
        BY <1>13, <2>5 DEF SsoReturns
      <3> HIDE DEF c
      <3> QED BY <1>3, <2>1, <2>3, <3>1, GoToState
    <2>6. CASE outcome = "error"
      <3>1. /\ page' = "sso" /\ view' = "error" /\ tasks' = {} /\ attempts' = 0
            /\ accepted' = FALSE /\ cred' = cred
        BY <1>13, <2>6 DEF SsoReturns
      <3>2. Screen("sso", "error", {}, cred)
        BY <1>1, <1>3, ViewsOf DEF Screen
      <3>3. Screen(page, view, tasks, cred)'
        BY <3>1, <3>2
      <3>4. attempts' \in 0 .. AttemptLimit
        BY <3>1, SessionAssumption DEF SessionAssumption
      <3>5. Rest'
        BY <1>1, <2>3, <3>1, <3>4 DEF Rest
      <3> QED BY <3>3, <3>5 DEF StateInv
    <2> QED BY <2>4, <2>5, <2>6
  <1>14. CASE ApiRequest
    <2> DEFINE t == Task("api", VerifySession(cred))
    <2>1. t \in Tasks /\ Fits(t, page)
      BY <1>1, VerifyBoolean, TaskFits DEF Kinds, Task, AtHome
    <2>2. /\ tasks' = tasks \cup {t}
          /\ UNCHANGED <<clerkKey, clerk, cred, page, view, attempts, stored, accepted, signedOut>>
      BY <1>14 DEF ApiRequest
    <2> HIDE DEF t
    <2>3. Rest'
      BY <1>1, <2>2 DEF Rest
    <2> QED BY <1>1, <2>1, <2>2, <2>3, StayState
  <1>15. CASE AdminRefocus
    <2> DEFINE kept == {t \in tasks : t.kind = "expiry"}
               asked == Task("adminMe", VerifySession(cred))
    <2>1. /\ tasks' = Cancelled(tasks \ kept) \cup kept \cup {asked} /\ page = "admin"
          /\ view' = "checking" /\ accepted' = FALSE
          /\ UNCHANGED <<clerkKey, clerk, cred, page, attempts, stored, signedOut>>
      BY <1>15 DEF AdminRefocus
    <2>2. asked \in Tasks /\ Fits(asked, page)
      BY <1>1, <2>1, VerifyBoolean, TaskFits DEF Kinds, Task, AtHome
    <2>3. kept \subseteq tasks /\ tasks \ kept \in SUBSET Tasks /\ \A t \in tasks \ kept : Sound(t)
      BY <1>1
    <2> HIDE DEF kept, asked
    <2>4. Cancelled(tasks \ kept) \subseteq Tasks /\ \A t \in Cancelled(tasks \ kept) : ~t.cur /\ Sound(t)
      BY <2>3, CancelledFits
    <2>5. tasks' \subseteq Tasks /\ \A t \in tasks' : Fits(t, page)
      BY <1>1, <2>1, <2>2, <2>3, <2>4 DEF Fits
    <2>6. view' \in Views(page)
      BY <2>1, ViewsOf
    <2>7. Rest'
      BY <1>1, <2>1 DEF Rest
    <2> QED BY <1>1, <2>1, <2>5, <2>6, <2>7, StayState
  <1> QED BY <1>4, <1>5, <1>6, <1>7, <1>8, <1>9, <1>10, <1>11, <1>12, <1>13, <1>14, <1>15 DEF User

-----------------------------------------------------------------------------

\* It holds when the tab opens.
LEMMA StateInvInit == Init => StateInv
  <1> SUFFICES ASSUME Init PROVE StateInv
    OBVIOUS
  <1>1. cred \in CredType /\ Equipped(cred)
    BY DEF Init, CredType, Validity, Equipped
  <1>2. page = "login" /\ view = "form" /\ tasks = {} /\ "login" \notin Protected
    BY SessionAssumption DEF Init, Protected, SessionAssumption
  <1>3. Screen(page, view, tasks, cred)
    BY <1>1, <1>2, ViewsOf DEF Screen, Pages
  <1>4. attempts \in 0 .. AttemptLimit /\ stored \in 0 .. AttemptLimit
    <2>1. attempts = 0 /\ stored = 0
      BY DEF Init
    <2> QED BY <2>1, SessionAssumption DEF SessionAssumption
  <1>5. Rest
    BY <1>4 DEF Init, Rest
  <1> QED BY <1>3, <1>5 DEF StateInv

\* Every step preserves it.
LEMMA StateInvStep == StateInv /\ [Next]_vars => StateInv'
  <1>1. ASSUME StateInv, Next
        PROVE  StateInv'
    <2>1. ASSUME NEW t \in tasks, Answer(t)
          PROVE  StateInv'
      BY <1>1, <2>1, GateStepState, FormStepState, PageStepState DEF Answer
    <2> QED BY <1>1, <2>1, UserStepState, WorldStepState DEF Next
  <1>2. ASSUME StateInv, UNCHANGED vars
        PROVE  StateInv'
    <2>1. Screen(page, view, tasks, cred)'
      BY <1>2 DEF vars, StateInv
    <2>2. Rest'
      BY <1>2 DEF vars, StateInv, Rest
    <2> QED BY <2>1, <2>2 DEF StateInv
  <1> QED BY <1>1, <1>2

\* What is behind the gate is earned, for any shells, any number of requests in flight and
\* any limit of attempts: the state is well typed (a page shows only what it can show, and
\* no form counts more attempts than it allows), the backend has accepted the session for
\* this mount, and a cookie session comes with the CSRF cookie that every change needs
\* (setCsrfCookie and ensureCsrfCookie in lib/auth.ts).
THEOREM ConsoleIsEarned == Spec => []ReadyIsEarned
  <1>1. StateInv => TypeOK
    BY DEF StateInv, Screen, Rest, TypeOK, CredType
  <1>2. StateInv => ReadyHasCsrf
    <2> SUFFICES ASSUME StateInv, view = "ready" PROVE cred.csrf # "none"
      BY DEF ReadyHasCsrf
    <2>1. page \in Protected
      BY StateFacts, ShellViews
    <2> QED BY <2>1, StateFacts
  <1>3. SessionInv => ReadyOnlyIfAccepted
    BY DEF SessionInv
  <1> QED BY SessionInvInit, SessionInvStep, StateInvInit, StateInvStep, <1>1, <1>2, <1>3, PTL
          DEF Spec, ReadyIsEarned

\* A tab whose session is in order is never sent to another page by an answer or a redirect:
\* a request that may turn it away carries no accepted credential, or belongs to a component
\* that is gone.
THEOREM AdmittedStays == Spec => KeepsAdmitted
  <1>1. ASSUME StateInv, Next, Admissible, ~User, ~World, ~Unreached
        PROVE  page' = page
    <2>1. page \notin {"login", "register", "sso", "admin"}
      BY <1>1, SessionAssumption DEF Admissible, SessionAssumption
    <2>2. ~ClerkRedirect
      BY <2>1 DEF ClerkRedirect
    <2>3. PICK t \in tasks : Answer(t)
      BY <1>1, <2>2 DEF Next
    <2>4. t.live /\ Fits(t, page)
      BY <1>1, StateFacts DEF Admissible
    <2>5. t.kind \notin {"login", "register"}
      BY <2>4 DEF Fits, Sound
    <2>6. ~GateRefused(t)
      BY <1>1, <2>4 DEF Unreached
    <2>7. t.kind \in {"ssoMe", "adminMe", "expiry"} => ~t.cur
      BY <2>1, <2>4 DEF Fits, AtHome
    <2>8. CASE ApiAnswer(t) \/ LogoutAnswer(t) \/ GateVerified(t) \/ SyncAccepted(t) \/ SyncFailed(t)
      BY <2>4, <2>8 DEF ApiAnswer, LogoutAnswer, GateVerified, SyncAccepted, SyncFailed
    <2>9. CASE SsoAnswer(t) \/ AdminMeAnswer(t) \/ ExpiryAnswer(t)
      BY <2>4, <2>7, <2>9 DEF SsoAnswer, AdminMeAnswer, ExpiryAnswer
    <2>10. ~(\/ LoginAccepted(t) \/ LoginFailed(t) \/ RegisterFailed(t)
            \/ \E approved \in BOOLEAN : RegisterAccepted(t, approved))
      BY <2>5 DEF LoginAccepted, LoginFailed, RegisterFailed, RegisterAccepted
    <2> QED BY <2>3, <2>6, <2>8, <2>9, <2>10 DEF Answer
  <1>2. StateInv /\ [Next]_vars =>
          [Admissible /\ ~User /\ ~World /\ ~Unreached => page' = page]_vars
    BY <1>1
  <1> QED BY StateInvInit, StateInvStep, <1>2, PTL DEF Spec, KeepsAdmitted

=============================================================================
