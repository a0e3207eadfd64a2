--------------------------- MODULE ConsoleSession ---------------------------
(***************************************************************************)
(* How a browser tab of the web console signs in, is admitted and signs    *)
(* out: src/web/middleware.ts, lib/auth.ts, lib/axios-instance.ts, the     *)
(* gates of components/clerk-sync-gate.tsx, the shell, the layouts and the *)
(* pages that start or end a session.                                      *)
(*                                                                         *)
(* Cookies and the tab's storage outlive a page load; component state and  *)
(* requests in flight do not, but requests do outlive a soft navigation:   *)
(* the component is gone and its handler still runs.                       *)
(***************************************************************************)
EXTENDS Naturals, FiniteSets

CONSTANTS
  Shells,        \* areas with the organisation's shell ("dashboard", "developer")
  ClerkKeys,     \* the deployments: is a Clerk publishable key configured
  AttemptLimit,  \* failed sign-ins after which the form refuses (5 in the code)
  MaxTasks       \* bound: requests in flight when the user starts something

ASSUME SessionAssumption ==
  /\ "dashboard" \in Shells
  /\ Shells \subseteq {"dashboard", "developer"}
  /\ ClerkKeys \subseteq BOOLEAN
  /\ ClerkKeys # {}
  /\ AttemptLimit \in Nat \ {0}
  /\ MaxTasks \in Nat

VARIABLES
  clerkKey,   \* this deployment's choice
  clerk,      \* the tab holds a Clerk session
  cred,       \* HttpOnly cookie, key in sessionStorage, guard and CSRF cookies
  page,       \* the route that is mounted
  view,       \* what its component shows
  tasks,      \* requests in flight
  attempts,   \* failed sign-ins counted by the mounted form
  stored,     \* the same count in sessionStorage ("pc_login_attempts")
  accepted,   \* history: the backend has accepted a credential for this mount
  signedOut   \* history: signed out, with no sign-in under way or since

vars == <<clerkKey, clerk, cred, page, view, tasks, attempts, stored,
          accepted, signedOut>>

Protected == Shells \cup {"admin"}
Pages     == Protected \cup {"login", "register", "sso"}
Validity  == {"none", "live", "dead"}

Views(p) ==
  CASE p = "login"    -> {"form", "busy"}
    [] p = "register" -> {"form", "busy", "pending", "approved"}
    [] p = "sso"      -> {"processing", "error"}
    [] p = "admin"    -> {"checking", "redirecting", "working", "ready", "failed"}
    [] OTHER          -> {"working", "ready", "failed"}

Kinds == {"gate", "sync", "recheck", "expiry", "adminMe", "login", "register",
          "ssoMe", "logout", "api"}

\* A request: whether its component is still mounted and its effect current, and whether
\* the credential that it carries is one that the backend accepts. clerk is isSignedIn as
\* the effect of the gate saw it, count the attempts that the form's handler closed over.
Tasks == [kind: Kinds, cur: BOOLEAN, live: BOOLEAN, clerk: BOOLEAN, count: 0 .. AttemptLimit]

\* The state is well typed; no sign-in form counts more attempts than it allows.
TypeOK ==
  /\ clerkKey \in ClerkKeys
  /\ clerk \in BOOLEAN
  /\ cred \in [cookie: Validity, key: Validity, guard: BOOLEAN, csrf: {"none", "set", "lapsed"}]
  /\ page \in Pages
  /\ view \in Views(page)
  /\ tasks \subseteq Tasks
  /\ attempts \in 0 .. AttemptLimit
  /\ stored \in 0 .. AttemptLimit
  /\ accepted \in BOOLEAN
  /\ signedOut \in BOOLEAN

-----------------------------------------------------------------------------
(* lib/auth.ts *)

\* isAuthenticated: a hint that needs no request.
IsAuthenticated(c) == c.key # "none" \/ c.guard

\* What GET /auth/me says to the credentials c: the Authorization header, which
\* verifySession and the interceptor take from sessionStorage, goes before the cookie.
VerifySession(c) == IF c.key # "none" THEN c.key = "live" ELSE c.cookie = "live"

\* setToken: the key for this tab, the guard and, unless there is one, the CSRF cookie.
SetToken(c) == [c EXCEPT !.key = "live", !.guard = TRUE, !.csrf = "set"]

MarkCookieSession(c) == [c EXCEPT !.key = "none", !.guard = TRUE, !.csrf = "set"]

\* mutant: the guard cookie stays
ClearTokenKeepsGuard(c) == [c EXCEPT !.key = "none", !.csrf = "none"]

\* clearToken; that it also asks the backend to end the session is in SignOut.
ClearToken(c) == [c EXCEPT !.key = "none", !.guard = FALSE, !.csrf = "none"]

-----------------------------------------------------------------------------
(* Routes and their effects *)

Task(k, live) == [kind |-> k, cur |-> TRUE, live |-> live, clerk |-> FALSE, count |-> 0]

ShellShown == view \in {"working", "ready", "failed"}

\* The component that started these requests is unmounted: its `cancelled` is set.
Cancelled(ts) == {[t EXCEPT !.cur = FALSE] : t \in ts}

\* portcullisHandler and, with a Clerk key, clerkMiddleware: the route that a request for p
\* is sent to, and the credentials after it. up is whether the backend can be reached.
Middleware(p, c, up) ==
  LET bare    == ~c.guard /\ c.cookie = "none"
      refused == c.cookie = "dead" /\ up
      bounced == p \in Protected /\ (IF clerkKey THEN ~clerk \/ refused ELSE bare \/ refused)
  IN  [page |-> IF bounced THEN "login" ELSE p,
       cred |-> IF p \in Protected /\ refused /\ ~(clerkKey /\ ~clerk)
                  THEN [c EXCEPT !.guard = FALSE] ELSE c]

\* What a mounted page does first. The shell's effect runs after that of the gate inside
\* it, so the gate's request is out when the shell turns to /login; the shell also reads
\* the list of roles.
MountShell(p, c, ts) ==
  LET gate == [Task("gate", VerifySession(c)) EXCEPT !.clerk = clerk]
      out  == ts \cup {gate, Task("api", VerifySession(c))}
  IN  IF IsAuthenticated(c)
        THEN [page |-> p, view |-> "working", tasks |-> out, cred |-> c]
        ELSE [page |-> "login", view |-> "form", tasks |-> Cancelled(out), cred |-> c]

\* AdminLayout before it renders its shell.
MountAdmin(c, ts) ==
  IF IsAuthenticated(c)
    THEN [page |-> "admin", view |-> "checking", cred |-> c,
          tasks |-> ts \cup {Task("expiry", VerifySession(c)), Task("adminMe", VerifySession(c))}]
    ELSE [page |-> "login", view |-> "form", cred |-> c, tasks |-> ts]

\* SsoCallbackHandler without a token: the CSRF cookie, and a look at the cookie's session.
MountSso(c, ts) ==
  [page |-> "sso", view |-> "processing", cred |-> [c EXCEPT !.csrf = "set"],
   tasks |-> ts \cup {Task("ssoMe", c.cookie = "live")}]

Mount(p, c, ts) ==
  CASE p \in Shells -> MountShell(p, c, ts)
    [] p = "admin"  -> MountAdmin(c, ts)
    [] p = "sso"    -> MountSso(c, ts)
    [] OTHER        -> [page |-> p, view |-> "form", cred |-> c, tasks |-> ts]

\* The tab goes to p with the credentials c, the requests ts staying in flight.
GoTo(p, c, ts) ==
  \E up \in BOOLEAN :
    LET to == Middleware(p, c, up)
        m  == Mount(to.page, to.cred, Cancelled(ts))
    IN  /\ cred' = m.cred
        /\ page' = m.page
        /\ view' = m.view
        /\ tasks' = m.tasks
        /\ attempts' = 0
        /\ accepted' = FALSE

\* router.replace to the route that is shown: nothing is mounted anew.
Replace(p, c, ts) ==
  IF page = p
    THEN /\ cred' = c
         /\ tasks' = ts
         /\ UNCHANGED <<page, view, attempts, accepted>>
    ELSE GoTo(p, c, ts)

-----------------------------------------------------------------------------
(* lib/axios-instance.ts *)

\* A 401 that the response interceptor sees: the key and the guard go and, away from
\* /login, the page is loaded anew, which ends every request of the old one.
On401(ts) ==
  LET c == [cred EXCEPT !.key = "none", !.guard = FALSE]
  IN  IF page = "login"
        THEN /\ cred' = c
             /\ tasks' = ts
             /\ UNCHANGED <<page, view, attempts, accepted>>
        ELSE GoTo("login", c, {})

\* mutant: every failed request counts as a refused session
ApiAnswerAnyError(t) ==
  /\ t.kind = "api"
  /\ On401(tasks \ {t})
  /\ UNCHANGED <<clerkKey, clerk, stored, signedOut>>

\* A request of a page: its answer concerns the session only if it is a 401.
ApiAnswer(t) ==
  /\ t.kind = "api"
  /\ \/ /\ ~t.live
        /\ On401(tasks \ {t})
     \/ /\ tasks' = tasks \ {t}
        /\ UNCHANGED <<cred, page, view, attempts, accepted>>
  /\ UNCHANGED <<clerkKey, clerk, stored, signedOut>>

-----------------------------------------------------------------------------
(* components/clerk-sync-gate.tsx *)

\* mutant: the answer to a cancelled effect opens the gate
GateVerifiedUncancelled(t) ==
  /\ t.kind \in {"gate", "recheck"}
  /\ t.live
  /\ tasks' = tasks \ {t}
  /\ view' = IF ShellShown THEN "ready" ELSE view
  /\ accepted' = (accepted \/ t.cur)
  /\ UNCHANGED <<clerkKey, clerk, cred, page, attempts, stored, signedOut>>

\* The backend accepts the session that the gate asked about.
GateVerified(t) ==
  /\ t.kind \in {"gate", "recheck"}
  /\ t.live
  /\ tasks' = tasks \ {t}
  /\ view' = IF t.cur THEN "ready" ELSE view
  /\ accepted' = (accepted \/ t.cur)
  /\ UNCHANGED <<clerkKey, clerk, cred, page, attempts, stored, signedOut>>

\* verifySession is false: the backend refuses, or it cannot be reached. With a Clerk
\* session the gate goes on to mint one; without, it turns to /login, cancelled or not.
GateRefused(t) ==
  /\ t.kind = "gate"
  /\ IF t.clerk
       THEN /\ tasks' = (tasks \ {t}) \cup
                          IF clerk THEN {[t EXCEPT !.kind = "sync"]} ELSE {}
            /\ view' = IF ~clerk /\ t.cur THEN "failed" ELSE view
            /\ UNCHANGED <<cred, page, attempts, accepted>>
       ELSE Replace("login", cred, tasks \ {t})
  /\ UNCHANGED <<clerkKey, clerk, stored, signedOut>>

\* POST /auth/clerk/sync sets the cookie; the handler marks the session even when its
\* component is gone, and asks again.
SyncAccepted(t) ==
  LET c == MarkCookieSession([cred EXCEPT !.cookie = "live"])
  IN  /\ t.kind = "sync"
      /\ cred' = c
      /\ tasks' = (tasks \ {t}) \cup {[t EXCEPT !.kind = "recheck", !.live = TRUE]}
      /\ UNCHANGED <<clerkKey, clerk, page, view, attempts, stored, accepted, signedOut>>

\* mutant: the failure is not shown
SyncFailedSilently(t) ==
  /\ t.kind \in {"sync", "recheck"}
  /\ tasks' = tasks \ {t}
  /\ UNCHANGED <<clerkKey, clerk, cred, page, view, attempts, stored, accepted, signedOut>>

\* The sync or the second look at the session fails.
SyncFailed(t) ==
  /\ t.kind \in {"sync", "recheck"}
  /\ tasks' = tasks \ {t}
  /\ view' = IF t.cur THEN "failed" ELSE view
  /\ UNCHANGED <<clerkKey, clerk, cred, page, attempts, stored, accepted, signedOut>>

\* The buttons of the failure screen: reload the page, or leave Clerk and go to /login.
GateRetry ==
  /\ view = "failed"
  /\ GoTo(page, cred, {})
  /\ UNCHANGED <<clerkKey, clerk, stored, signedOut>>

GateSignOut ==
  /\ view = "failed"
  /\ clerk' = FALSE
  /\ GoTo("login", cred, tasks)
  /\ UNCHANGED <<clerkKey, stored, signedOut>>

\* External: Clerk's session ends in another tab. The gate's effect runs again, its state
\* stays.
ClerkSessionEnds ==
  /\ clerk
  /\ clerk' = FALSE
  /\ tasks' = IF ShellShown
                THEN Cancelled(tasks) \cup {Task("gate", VerifySession(cred))}
                ELSE tasks
  /\ UNCHANGED <<clerkKey, cred, page, view, attempts, stored, accepted, signedOut>>

\* External: Clerk's <SignIn/> on /login signs in and takes who is signed in to /dashboard.
ClerkSignIn ==
  /\ clerkKey
  /\ page = "login"
  /\ ~clerk
  /\ clerk' = TRUE
  /\ signedOut' = FALSE
  /\ UNCHANGED <<clerkKey, cred, page, view, tasks, attempts, stored, accepted>>

ClerkRedirect ==
  /\ page = "login"
  /\ clerk
  /\ GoTo("dashboard", cred, tasks)
  /\ UNCHANGED <<clerkKey, clerk, stored, signedOut>>

-----------------------------------------------------------------------------
(* app/login/page.tsx, app/register/legacy-form.tsx *)

\* LegacySignInForm.handleSubmit; the button is disabled while a request is out.
SubmitLogin ==
  /\ ~clerkKey
  /\ page = "login"
  /\ view = "form"
  /\ attempts < AttemptLimit
  /\ stored < AttemptLimit
  /\ view' = "busy"
  /\ tasks' = tasks \cup {[Task("login", FALSE) EXCEPT !.count = attempts]}
  /\ signedOut' = FALSE
  /\ UNCHANGED <<clerkKey, clerk, cred, page, attempts, stored, accepted>>

\* The answer has a token and a cookie: the tab keeps the cookie only.
LoginAccepted(t) ==
  /\ t.kind = "login"
  /\ GoTo("dashboard", MarkCookieSession([cred EXCEPT !.cookie = "live"]), tasks \ {t})
  /\ UNCHANGED <<clerkKey, clerk, stored, signedOut>>

\* Refused (401 also meets the interceptor) or not answered. The handler counts from the
\* attempts that it closed over.
LoginFailed(t) ==
  /\ t.kind = "login"
  /\ stored' = t.count + 1
  /\ \/ /\ page # "login"
        /\ On401(tasks \ {t})
     \/ /\ cred' \in {cred} \cup IF page # "login" THEN {}
                                ELSE {[cred EXCEPT !.key = "none", !.guard = FALSE]}
        /\ tasks' = tasks \ {t}
        /\ view' = IF t.cur THEN "form" ELSE view
        /\ attempts' = IF t.cur THEN t.count + 1 ELSE attempts
        /\ UNCHANGED <<page, accepted>>
  /\ UNCHANGED <<clerkKey, clerk, signedOut>>

\* LegacyRegisterForm.handleSubmit.
SubmitRegister ==
  /\ ~clerkKey
  /\ page = "register"
  /\ view = "form"
  /\ view' = "busy"
  /\ tasks' = tasks \cup {Task("register", FALSE)}
  /\ signedOut' = FALSE
  /\ UNCHANGED <<clerkKey, clerk, cred, page, attempts, stored, accepted>>

\* An approved account gets a token and a cookie, a pending one neither.
RegisterAccepted(t, approved) ==
  /\ t.kind = "register"
  /\ cred' = IF approved THEN SetToken([cred EXCEPT !.cookie = "live"]) ELSE cred
  /\ view' = CASE t.cur /\ approved  -> "approved"
               [] t.cur /\ ~approved -> "pending"
               [] ~t.cur             -> view
  /\ tasks' = tasks \ {t}
  /\ UNCHANGED <<clerkKey, clerk, page, attempts, stored, accepted, signedOut>>

\* 409, 422 or no answer leave the form with a message; a 401 (an invitation code that is
\* not valid) meets the interceptor, which leaves the page.
RegisterFailed(t) ==
  /\ t.kind = "register"
  /\ \/ On401(tasks \ {t})
     \/ /\ tasks' = tasks \ {t}
        /\ view' = IF t.cur THEN "form" ELSE view
        /\ UNCHANGED <<cred, page, attempts, accepted>>
  /\ UNCHANGED <<clerkKey, clerk, stored, signedOut>>

\* The buttons of the screen after registration.
LeaveRegistered ==
  /\ \/ view = "pending" /\ GoTo("login", cred, tasks)
     \/ view = "approved" /\ GoTo("dashboard", cred, tasks)
  /\ UNCHANGED <<clerkKey, clerk, stored, signedOut>>

-----------------------------------------------------------------------------
(* app/sso-callback/page.tsx *)

\* "Continue with Google" leaves the console for the backend and the provider, which come
\* back with the cookie, an error or, from an old backend, a token in the address.
SsoReturns(outcome) ==
  /\ ~clerkKey
  /\ page \in {"login", "register"}
  /\ view \in {"form", "busy"}
  /\ CASE outcome = "cookie" -> GoTo("sso", [cred EXCEPT !.cookie = "live"], {})
       [] outcome = "token"  -> GoTo("dashboard", SetToken([cred EXCEPT !.cookie = "live"]), {})
       [] outcome = "error"  -> /\ page' = "sso"
                                /\ view' = "error"
                                /\ tasks' = {}
                                /\ attempts' = 0
                                /\ accepted' = FALSE
                                /\ UNCHANGED cred
  /\ signedOut' = FALSE
  /\ UNCHANGED <<clerkKey, clerk, stored>>

\* The answer to GET /auth/me. A refusal turns to /login only if the address has parameters.
SsoAnswer(t) ==
  /\ t.kind = "ssoMe"
  /\ \/ t.cur /\ t.live /\ GoTo("dashboard", cred, tasks \ {t})
     \/ t.cur /\ GoTo("login", cred, tasks \ {t})
     \/ /\ t.cur => ~t.live
        /\ tasks' = tasks \ {t}
        /\ UNCHANGED <<cred, page, view, attempts, accepted>>
  /\ UNCHANGED <<clerkKey, clerk, stored, signedOut>>

SsoErrorBack ==
  /\ page = "sso"
  /\ view = "error"
  /\ GoTo("login", cred, tasks)
  /\ UNCHANGED <<clerkKey, clerk, stored, signedOut>>

-----------------------------------------------------------------------------
(* app/admin/layout.tsx, components/nav-shell.tsx *)

\* GET /admin/platform/me: 200 mounts the shell, 403 or no answer is an error of the query.
\* The effect that turns to /dashboard waits for a success that is not a 200, which the
\* client never reports: the page goes on saying "Redirecting".
AdminMeAnswer(t) ==
  /\ t.kind = "adminMe"
  /\ \/ /\ t.cur /\ t.live
        /\ LET m == MountShell("admin", cred, tasks \ {t})
           IN  page' = m.page /\ view' = m.view /\ tasks' = m.tasks
        /\ UNCHANGED <<cred, attempts, accepted>>
     \/ ~t.live /\ On401(tasks \ {t})
     \/ /\ view' = IF t.cur THEN "redirecting" ELSE view
        /\ tasks' = tasks \ {t}
        /\ UNCHANGED <<cred, page, attempts, accepted>>
  /\ UNCHANGED <<clerkKey, clerk, stored, signedOut>>

\* The window gets the focus back when the answer is stale: the query runs again and, while
\* it does, the layout shows its loader in the shell's place, which is unmounted.
AdminRefocus ==
  /\ page = "admin"
  /\ view # "checking"
  /\ view' = "checking"
  /\ accepted' = FALSE
  /\ LET kept == {t \in tasks : t.kind = "expiry"}
     IN  tasks' = Cancelled(tasks \ kept) \cup kept \cup {Task("adminMe", VerifySession(cred))}
  /\ UNCHANGED <<clerkKey, clerk, cred, page, attempts, stored, signedOut>>

\* The layout's own verifySession.
ExpiryAnswer(t) ==
  /\ t.kind = "expiry"
  /\ \/ t.cur /\ GoTo("login", cred, tasks \ {t})
     \/ /\ t.cur => t.live
        /\ tasks' = tasks \ {t}
        /\ UNCHANGED <<cred, page, view, attempts, accepted>>
  /\ UNCHANGED <<clerkKey, clerk, stored, signedOut>>

\* ContextSwitcher: another area (the admin area for whom the backend has confirmed).
SwitchContext(p) ==
  /\ ShellShown
  /\ p \in Protected \ {page}
  /\ GoTo(p, cred, tasks)
  /\ UNCHANGED <<clerkKey, clerk, stored, signedOut>>

\* A request whose answer may still sign the tab in.
SignsIn(t) == t.kind \in {"login", "register", "sync"} \/ (t.kind = "gate" /\ t.clerk)

\* signOut of the shell, after that of Clerk (which may throw). The request that ends the
\* session is not awaited.
SignOut ==
  /\ ShellShown
  /\ clerk' \in {FALSE, clerk}
  /\ GoTo("login", ClearToken(cred), tasks \cup {Task("logout", FALSE)})
  /\ signedOut' = (~clerk' /\ ~\E t \in tasks : SignsIn(t))
  /\ UNCHANGED <<clerkKey, stored>>

\* Its answer deletes whatever session cookie the browser holds by then.
LogoutAnswer(t) ==
  /\ t.kind = "logout"
  /\ tasks' = tasks \ {t}
  /\ cred' \in {cred, [cred EXCEPT !.cookie = "none"]}
  /\ UNCHANGED <<clerkKey, clerk, page, view, attempts, stored, accepted, signedOut>>

-----------------------------------------------------------------------------
(* The user, and time *)

\* The address bar, or a link between pages without a shell.
Navigate(p, hard) ==
  /\ p \in Pages \ {page}
  /\ hard \/ (p \notin Protected /\ page \notin Protected)
  /\ GoTo(p, cred, IF hard THEN {} ELSE tasks)
  /\ UNCHANGED <<clerkKey, clerk, stored, signedOut>>

\* A page asks for its data (mount, focus, polling).
ApiRequest ==
  /\ ShellShown
  /\ tasks' = tasks \cup {Task("api", VerifySession(cred))}
  /\ UNCHANGED <<clerkKey, clerk, cred, page, view, attempts, stored, accepted, signedOut>>

\* The session runs out or is revoked.
Expire ==
  /\ cred' = [cred EXCEPT !.cookie = IF @ = "live" THEN "dead" ELSE @,
                          !.key = IF @ = "live" THEN "dead" ELSE @]
  /\ cred' # cred
  /\ UNCHANGED <<clerkKey, clerk, page, view, tasks, attempts, stored, accepted, signedOut>>

\* The guard cookie (12 hours, 7 days with "remember") and the CSRF cookie (12 hours) end
\* on their own, long before the session cookie of 30 days.
GuardLapses ==
  /\ cred.guard
  /\ cred' = [cred EXCEPT !.guard = FALSE]
  /\ UNCHANGED <<clerkKey, clerk, page, view, tasks, attempts, stored, accepted, signedOut>>

CsrfLapses ==
  /\ cred.csrf = "set"
  /\ cred' = [cred EXCEPT !.csrf = "lapsed"]
  /\ UNCHANGED <<clerkKey, clerk, page, view, tasks, attempts, stored, accepted, signedOut>>

-----------------------------------------------------------------------------
(* Specification *)

Init ==
  /\ clerkKey \in ClerkKeys
  /\ clerk = FALSE
  /\ cred = [cookie |-> "none", key |-> "none", guard |-> FALSE, csrf |-> "none"]
  /\ page = "login"
  /\ view = "form"
  /\ tasks = {}
  /\ attempts = 0
  /\ stored = 0
  /\ accepted = FALSE
  /\ signedOut = FALSE

\* What the user does; not with more than MaxTasks requests in flight.
User ==
  /\ Cardinality(tasks) <= MaxTasks
  /\ \/ \E p \in Pages, hard \in BOOLEAN : Navigate(p, hard)
     \/ \E p \in Protected : SwitchContext(p)
     \/ GateRetry \/ GateSignOut \/ ClerkSignIn \/ SignOut
     \/ SubmitLogin \/ SubmitRegister \/ LeaveRegistered
     \/ \E outcome \in {"cookie", "token", "error"} : SsoReturns(outcome)
     \/ SsoErrorBack
     \/ ApiRequest \/ AdminRefocus

\* What happens to the session without the user.
World == Expire \/ GuardLapses \/ CsrfLapses \/ ClerkSessionEnds

Answer(t) ==
  \/ ApiAnswer(t) \/ LogoutAnswer(t)
  \/ GateVerified(t) \/ GateRefused(t) \/ SyncAccepted(t) \/ SyncFailed(t)
  \/ LoginAccepted(t) \/ LoginFailed(t)
  \/ \E approved \in BOOLEAN : RegisterAccepted(t, approved)
  \/ RegisterFailed(t)
  \/ SsoAnswer(t) \/ AdminMeAnswer(t) \/ ExpiryAnswer(t)

Next == User \/ World \/ ClerkRedirect \/ \E t \in tasks : Answer(t)

\* The requests of the gate that is mounted are answered or given up (the client's timeout,
\* the browser's), each in its turn.
Fairness ==
  \A k \in {"gate", "sync", "recheck"} :
    WF_vars(\E t \in tasks : t.kind = k /\ t.cur /\ Answer(t))

Spec == Init /\ [][Next]_vars /\ Fairness

\* All requests are, those of components that are gone too, and Clerk's component redirects.
AnsweredSpec ==
  Spec /\ WF_vars(\E t \in tasks : Answer(t)) /\ WF_vars(ClerkRedirect)

-----------------------------------------------------------------------------
(* Properties *)

\* The gate shows the console only when the backend has accepted a credential since the
\* gate was mounted: a request that fails, or an answer to an earlier mount, never opens it
\* (clerk-sync-gate.tsx, `cancelled` and the catch of verifySession).
ReadyOnlyIfAccepted == view = "ready" => accepted

\* After a sign-out the tab holds no key and no guard cookie until somebody starts to sign
\* in, whatever answers come late (clearToken in lib/auth.ts).
SignOutSticks == signedOut => cred.key = "none" /\ ~cred.guard

\* Who is shown the console on a cookie session has the CSRF cookie that every change
\* needs, unless it ran out before the session (setCsrfCookie, ensureCsrfCookie).
ReadyHasCsrf ==
  view = "ready" /\ cred.key = "none" /\ cred.cookie = "live" => cred.csrf # "none"

\* What is behind the gate is earned: the state is well typed, the backend has accepted the
\* session for this mount, and the session can be used for changes.
ReadyIsEarned == TypeOK /\ ReadyOnlyIfAccepted /\ ReadyHasCsrf

\* The tab shows a page with a shell, its credential is accepted and hinted at, and no
\* request with an older credential is in flight.
Admissible ==
  /\ page \in Shells
  /\ VerifySession(cred)
  /\ IsAuthenticated(cred)
  /\ \A t \in tasks : t.live

\* The gate could not ask the backend about a credential that it would have accepted.
Unreached == \E t \in tasks : t.live /\ GateRefused(t)

\* A tab whose session is in order is never sent to another page by the console itself: no
\* gate, shell, layout or interceptor turns it away.
KeepsAdmitted ==
  [][Admissible /\ ~User /\ ~World /\ ~Unreached => page' = page]_vars

\* Nobody is left with the spinner: unless the tab keeps changing pages, the gate opens,
\* turns to /login or shows its failure screen, whichever requests fail and whichever
\* effect was cancelled.
GateSettles == <>[][page' = page]_vars => []<>(view # "working")

\* Redirects come to an end when the user does nothing: Clerk's component takes a tab to
\* /dashboard, and the shell, which misses the guard cookie, does not send it back for ever.
\* middleware.ts lets a tab with a Clerk session through "instead of bouncing to /login in a
\* loop".
RedirectsSettle == <>[][~User /\ ~World]_vars => <>[][~ClerkRedirect]_vars

=============================================================================
