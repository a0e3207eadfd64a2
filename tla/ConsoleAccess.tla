--------------------------- MODULE ConsoleAccess ---------------------------
(***************************************************************************)
(* Access control in the console: the servers of a team                    *)
(* (app/dashboard/access-control/teams-tab.tsx) and the standard roles     *)
(* (roles-tab.tsx). Both keep a copy of rows that they change one by one.  *)
(***************************************************************************)
EXTENDS Console

CONSTANTS
  TeamServers,  \* the servers that a team can be given
  Archetypes,   \* the standard roles that this user may see
  MaxToggles    \* bound: clicks while a page is open

ASSUME AccessAssumption == MaxToggles \in Nat

-----------------------------------------------------------------------------
(* ManageServersDialog for one team. row is what the backend has, listed   *)
(* the teams query's copy, ids the dialog's own, made when it is mounted.  *)
(* Closing the dialog unmounts it. fresh is a history: the copy was        *)
(* current, with nothing in flight, when the dialog was opened, and no     *)
(* answer was lost since.                                                  *)

ManageInit ==
  [row |-> {}, listed |-> {}, open |-> FALSE, ids |-> {}, pending |-> {}, mount |-> 0,
   clicks |-> 0, fresh |-> FALSE]

OnManage == page = "manageServers"

OpenManagePage == Open("manageServers", ManageInit)

OpenManage ==
  /\ OnManage /\ ~ui.open
  /\ Set([ui EXCEPT !.open = TRUE, !.ids = ui.listed, !.pending = {},
                    !.fresh = (ui.listed = ui.row /\ flight = {})])

CloseManage ==
  /\ OnManage /\ ui.open /\ ui.mount < MaxToggles
  /\ Set([ui EXCEPT !.open = FALSE, !.ids = {}, !.pending = {}, !.mount = @ + 1,
                    !.fresh = FALSE])

\* toggle; assigned is what the click saw.
ToggleServer(s) ==
  /\ OnManage /\ ui.open /\ s \notin ui.pending /\ ui.clicks < MaxToggles
  /\ Send([do |-> "toggle", about |-> s, here |-> TRUE, assigned |-> s \in ui.ids,
           saw |-> ui.ids, mount |-> ui.mount, done |-> FALSE],
          [ui EXCEPT !.pending = @ \cup {s}, !.clicks = @ + 1])

Without(ids, c) == IF c.assigned THEN ids \ {c.about} ELSE ids \cup {c.about}

ToggleServed(c) ==
  /\ c.do = "toggle" /\ ~c.done
  /\ ui' = [ui EXCEPT !.row = Without(@, c)]
  /\ flight' = (flight \ {c}) \cup {[c EXCEPT !.done = TRUE]}
  /\ UNCHANGED page

\* onChanged fetches the teams again, which leads to TeamsRefetched.
ToggleAnswered(c) ==
  /\ c.do = "toggle" /\ c.done
  /\ Take(c, IF c.mount = ui.mount
             THEN [ui EXCEPT !.ids = Without(@, c), !.pending = @ \ {c.about}]
             ELSE ui)

ToggleFails(c) ==
  /\ c.do = "toggle"
  /\ Take(c, IF c.mount = ui.mount
             THEN [ui EXCEPT !.pending = @ \ {c.about}, !.fresh = @ /\ ~c.done]
             ELSE ui)

TeamsRefetched == OnManage /\ ui.listed # ui.row /\ Set([ui EXCEPT !.listed = ui.row])

ManageUser == OpenManage \/ CloseManage \/ \E s \in TeamServers : ToggleServer(s)
ManageStep ==
  \/ TeamsRefetched
  \/ \E c \in flight : ToggleServed(c) \/ ToggleAnswered(c) \/ ToggleFails(c)

\* When nothing is in flight the dialog shows the servers that the team has, although servers
\* are toggled at the same time and answered in any order. The dialog starts from the list's
\* copy, and a lost answer leaves it wrong: those are the exceptions.
AssignmentsShown ==
  OnManage /\ ui.open /\ ui.fresh /\ flight = {} => ui.ids = ui.row

-----------------------------------------------------------------------------
(* SeedRolesButton. The backend takes any number of roles of one name:     *)
(* roles counts them. listed is the query's copy, empty while it loads.    *)
(* careless is a history: the button was pressed with a copy that was not  *)
(* current, or while an earlier press was still creating roles.            *)

SeedInit ==
  [roles |-> [a \in Archetypes |-> 0], listed |-> {}, seeding |-> FALSE, mount |-> 0,
   clicks |-> 0, careless |-> FALSE]

OnSeed == page = "seedRoles"

OpenSeed == \E a \in Archetypes \cup {0} :
              Open("seedRoles", [SeedInit EXCEPT !.roles = [b \in Archetypes |-> IF b = a THEN 1 ELSE 0]])

Existing(u) == {a \in Archetypes : u.roles[a] > 0}

Missing(u) == Archetypes \ u.listed

\* handleSeed: the roles that were missing when the button was rendered, one after the other.
\* The button is not there if none is missing.
SeedRoles ==
  /\ OnSeed /\ ~ui.seeding /\ Missing(ui) # {} /\ ui.clicks < MaxToggles
  /\ Send([do |-> "seed", about |-> Missing(ui), here |-> TRUE, mount |-> ui.mount],
          [ui EXCEPT !.seeding = TRUE, !.clicks = @ + 1,
                     !.careless = @ \/ ui.listed # Existing(ui) \/ InFlight("seed") # {}])

\* One role: it is created, or the error is skipped (and it may have been created).
SeedNext(c) ==
  /\ c.do = "seed" /\ c.about # {}
  /\ \E a \in c.about, made \in {0, 1} :
       /\ \A b \in c.about : a <= b
       /\ ui' = [ui EXCEPT !.roles[a] = @ + made]
       /\ flight' = (flight \ {c}) \cup {[c EXCEPT !.about = @ \ {a}]}
  /\ UNCHANGED page

SeedDone(c) ==
  /\ c.do = "seed" /\ c.about = {}
  /\ Take(c, IF c.mount = ui.mount THEN [ui EXCEPT !.seeding = FALSE] ELSE ui)

\* Another tab and back: the button is mounted anew.
RemountSeed ==
  /\ OnSeed /\ ui.mount < MaxToggles
  /\ Set([ui EXCEPT !.mount = @ + 1, !.seeding = FALSE])

RolesRefetched == OnSeed /\ ui.listed # Existing(ui) /\ Set([ui EXCEPT !.listed = Existing(ui)])

SeedUser == SeedRoles \/ RemountSeed
SeedStep == RolesRefetched \/ \E c \in flight : SeedNext(c) \/ SeedDone(c)

\* Seeding creates each standard role once, even if some of the calls failed and the button is
\* pressed again, as long as the list was current when it was pressed. It is not while the
\* list loads, nor after a change of tabs in the middle of seeding.
SeededOnce == OnSeed /\ ~ui.careless => \A a \in Archetypes : ui.roles[a] <= 1

=============================================================================
