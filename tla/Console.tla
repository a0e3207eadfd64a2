------------------------------ MODULE Console ------------------------------
(***************************************************************************)
(* What the pages of the web console (src/web/src/app) have in common. A   *)
(* page is a component with state of its own, which is gone when the user  *)
(* leaves the page. A handler that awaits a call goes on when the answer   *)
(* comes, with the state that it closed over, whether or not its page is   *)
(* still there: setState then has no effect, a redirect does.              *)
(***************************************************************************)
EXTENDS Naturals, FiniteSets, Sequences

VARIABLES
  page,    \* the page that is mounted
  ui,      \* its component's state, a record that is the page's own
  flight   \* calls in flight whose handlers have something left to do

vars == <<page, ui, flight>>

\* A call of the mounted page: what it does, what it is about and what its handler closed
\* over.
Call(do, about) == [do |-> do, about |-> about, here |-> TRUE]

InFlight(do) == {c \in flight : c.do = do}

\* Handlers that redirect act even when their page is gone; those of the other calls have
\* nothing to set. The page that each of them is called from:
Redirecting == [newServer |-> "register", publish |-> "newPolicy", deletePolicy |-> "policy"]

Elsewhere == "elsewhere"

Redirects == {c \in flight : c.do \in DOMAIN Redirecting}

\* What is left of calls when their page is gone.
LeftBehind(calls) ==
  {[do |-> c.do, about |-> IF c.do = "newServer" THEN c.about ELSE 0, here |-> FALSE] : c \in calls}

\* The user opens page p, whose state starts as u. While a redirect is pending they open the
\* page that it was called from once more, or one elsewhere that stands for all the others.
Open(p, u) ==
  /\ \A c \in Redirects : p \in {Elsewhere, Redirecting[c.do]}
  /\ page' = p
  /\ ui' = u
  /\ flight' = LeftBehind(Redirects)

\* The handler of call c pushes page p, wherever the user is by now.
Redirect(c, p, u) == page' = p /\ ui' = u /\ flight' = LeftBehind(Redirects \ {c})

\* The mounted page's state becomes u; a call is sent, or an answer taken.
Set(u) == ui' = u /\ UNCHANGED <<page, flight>>
Send(c, u) == ui' = u /\ flight' = flight \cup {c} /\ UNCHANGED page
Take(c, u) == ui' = u /\ flight' = flight \ {c} /\ UNCHANGED page

-----------------------------------------------------------------------------
(* Whose calls are in flight. *)

\* The pages that are a form, a confirmation or a row of buttons (Dialogs of ConsoleDialogs).
DialogPages ==
    {"inviteMember", "createTeam", "accessRole", "rolesRole", "rateLimit", "addPermission",
     "assignMember", "editMember", "bindings", "provision", "developerKey", "deleteTeam",
     "deleteMember", "serverRowDelete", "serverRowProbe", "keyRowRevoke", "developerKeyRevoke",
     "policyRowDelete", "limitRowDelete", "permissionRemove", "adminServerDelete",
     "adminServerDisable", "adminKeyRevoke", "securityKeyRevoke", "serverToggle"}

\* The handlers of page p make calls that do this.
Belongs(do, p) ==
  \/ do \in {"createKey", "revokeKey"} /\ p = "keys"
  \/ do = "submit" /\ p \in DialogPages
  \/ do = "save" /\ p = "config"
  \/ do = "call" /\ p = "tester"
  \/ do \in {"test", "newServer"} /\ p = "register"
  \/ do = "publish" /\ p = "newPolicy"
  \/ do \in {"updatePolicy", "deletePolicy"} /\ p = "policy"
  \/ do = "toggle" /\ p = "manageServers"
  \/ do = "seed" /\ p = "seedRoles"
  \/ do = "run" /\ p = "playground"
  \/ do = "callTool" /\ p = "developerPlayground"
  \/ do \in {"createServer", "createPolicy", "createApiKey"} /\ p = "onboarding"
  \/ do = "signUp" /\ p = "signUp"
  \/ do = "copy" /\ p = "mfa"

\* Where a redirect finds the user who has left, or takes them to.
Away == {Elsewhere, "landing"}

\* A call in flight is one of the mounted page, or a redirect of a page that is gone.
Owned ==
  \A c \in flight :
    /\ {"do", "here"} \subseteq DOMAIN c
    /\ Belongs(c.do, page) \/ (c.do \in DOMAIN Redirecting /\ ~c.here /\ page \in Away)

\* The page of a server that a redirect leads to is that of a server that exists.
Landed == ui.slug \in ui.exists

=============================================================================
