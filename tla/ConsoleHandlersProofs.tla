----------------------- MODULE ConsoleHandlersProofs ------------------------
(***************************************************************************)
(* What the handlers of the console's dialogs, of its servers and teams,   *)
(* of its search page and of its audit page keep, as ConsoleBoardsProofs   *)
(* does for the other pages. At the end the pages are put together:        *)
(* HandlersInv, the invariant of the page that is mounted.                 *)
(***************************************************************************)
EXTENDS ConsoleDialogs, ConsoleServers, ConsoleAccess, ConsoleSearch, ConsoleAudit,
        FiniteSetTheorems, TLAPS

-----------------------------------------------------------------------------
(* What the pages share, as in ConsoleBoardsProofs: the calls in flight    *)
(* are those of the mounted page.                                          *)

\* What a call does tells which page is mounted when its answer comes.
LEMMA Caller ==
  ASSUME Owned, NEW c \in flight
  PROVE  /\ c.do \in {"createKey", "revokeKey"} => page = "keys"
         /\ c.do = "submit" => page \in DialogPages
         /\ c.do = "save" => page = "config"
         /\ c.do = "call" => page = "tester"
         /\ c.do = "test" => page = "register"
         /\ c.do = "toggle" => page = "manageServers"
         /\ c.do = "seed" => page = "seedRoles"
         /\ c.do = "newServer" => page \in {"register"} \cup Away /\ (c.here => page = "register")
  BY SMT DEF Owned, Belongs, Redirecting

\* A handler that only sets state keeps the calls in flight those of the mounted page.
LEMMA SetOwns ==
  ASSUME NEW u, Set(u), Owned PROVE Owned' /\ page' = page
  BY SMT DEF Set, Owned

\* So does one that sends a call of its page.
LEMMA SendOwns ==
  ASSUME NEW c, NEW u, Send(c, u), Owned, {"do", "here"} \subseteq DOMAIN c, Belongs(c.do, page)
  PROVE  Owned' /\ page' = page
  BY SMT DEF Send, Owned

\* So does one that takes an answer.
LEMMA TakeOwns ==
  ASSUME NEW c, NEW u, Take(c, u), Owned PROVE Owned' /\ page' = page
  BY SMT DEF Take, Owned

\* So does the backend when it has done what a call asked for and has not answered yet.
LEMMA GoesOnOwned ==
  ASSUME Owned, NEW c \in flight, NEW f, f \notin {"do", "here"}, NEW v,
         flight' = (flight \ {c}) \cup {[c EXCEPT ![f] = v]}, page' = page
  PROVE  Owned'
<1>1. PICK d : d = [c EXCEPT ![f] = v]
  OBVIOUS
<1>2. DOMAIN d = DOMAIN c /\ d.do = c.do /\ d.here = c.here
  BY Zenon, <1>1 DEF Owned
<1> QED BY SMT, <1>1, <1>2 DEF Owned

\* A page that is opened finds in flight only redirects that were called from it or are left
\* behind.
LEMMA OpenOwns ==
  ASSUME NEW p, NEW u, Open(p, u) PROVE Owned' /\ page' = p
  BY SMT DEF Open, Owned, LeftBehind, Redirects, Redirecting, Belongs, Away

\* A page that makes no redirect is opened with nothing in flight and its initial state.
LEMMA OpensCleanly ==
  ASSUME NEW p, NEW u, Open(p, u), p \notin {Elsewhere, "register", "newPolicy", "policy"}
  PROVE  page' = p /\ ui' = u /\ flight' = {} /\ Owned'
<1>1. Redirects = {}
  BY SMT DEF Open, Redirects, Redirecting
<1> QED BY SMT, <1>1, OpenOwns DEF Open, LeftBehind

\* A redirect takes the user away and leaves only other redirects behind.
LEMMA RedirectOwns ==
  ASSUME NEW c, NEW p \in Away, NEW u, Redirect(c, p, u) PROVE Owned' /\ page' = p
  BY SMT DEF Redirect, Owned, LeftBehind, Redirects

-----------------------------------------------------------------------------
\* Forms that disable their button while they submit, and that end after a record is made.
OnceEach(d) ==
  d.guard = "busy" /\ d.asks = "nothing" /\ d.rows = 1 /\ (d.closes \/ d.shows \/ d.needs)

\* Of these, forms that must be filled in again for the next record.
ByFilling(d) == d.needs /\ (d.clears \/ d.wipes)

\* What the proofs use of the table of dialogs: its types, a form that shows a secret stays
\* mounted, is wiped when it is closed and does not close by itself, and a form that makes one
\* record ends or is cleared.
Sound(d) ==
  /\ d.asks \in {"nothing", "confirm", "typed"} /\ d.rows \in 1 .. 2 /\ d.needs \in BOOLEAN
  /\ d.guard \in {"busy", "row", "none"} /\ d.keeps \in BOOLEAN /\ d.closes \in BOOLEAN
  /\ d.clears \in BOOLEAN /\ d.shows \in BOOLEAN /\ d.wipes \in BOOLEAN
  /\ d.shows => d.guard = "busy" /\ d.keeps /\ d.wipes /\ ~d.closes
  /\ OnceEach(d) => d.keeps /\ (IF ByFilling(d) THEN d.clears \/ d.shows ELSE d.closes)

\* The table of dialogs has these pages.
LEMMA DialogNames == DOMAIN Dialogs = DialogPages
  BY SMT DEF Dialogs, DialogPages

\* Each dialog of the table is as Sound says.
LEMMA DialogsAreSound == \A p \in DialogPages : Sound(Dialogs[p])
<1>1. /\ Sound(InviteMemberDialog) /\ Sound(CreateTeamDialog) /\ Sound(AccessRoleDialog)
      /\ Sound(RolesRoleDialog) /\ Sound(RateLimitDialog) /\ Sound(AddPermissionDialog)
      /\ Sound(AssignMemberDialog) /\ Sound(EditMemberDialog) /\ Sound(BindingsPanel)
  BY SMT DEF InviteMemberDialog, CreateTeamDialog, AccessRoleDialog, RolesRoleDialog, RateLimitDialog,
             AddPermissionDialog, AssignMemberDialog, EditMemberDialog, BindingsPanel, FormOf, Sound,
             OnceEach, ByFilling
<1>2. Sound(ProvisionDialog) /\ Sound(DeveloperKeyDialog)
  BY SMT DEF ProvisionDialog, DeveloperKeyDialog, FormOf, Sound, OnceEach, ByFilling
<1>3. Sound(TypedOf) /\ Sound(ServerToggle)
  BY SMT DEF TypedOf, RowOf, ServerToggle, Sound, OnceEach, ByFilling
<1>4. ASSUME NEW asks \in {"nothing", "confirm"}, NEW guard \in {"busy", "row", "none"}
      PROVE Sound(RowOf(asks, guard))
  BY SMT DEF RowOf, Sound, OnceEach, ByFilling
<1>5. ASSUME NEW p \in DialogPages
      PROVE  \/ Dialogs[p] \in {InviteMemberDialog, CreateTeamDialog, AccessRoleDialog, RolesRoleDialog,
                                RateLimitDialog, AddPermissionDialog, AssignMemberDialog, EditMemberDialog,
                                BindingsPanel, ProvisionDialog, DeveloperKeyDialog, TypedOf, ServerToggle}
             \/ \E asks \in {"nothing", "confirm"}, guard \in {"busy", "row", "none"} :
                  Dialogs[p] = RowOf(asks, guard)
  BY SMT DEF DialogPages, Dialogs, DeleteTeamDialog, DeleteMemberDialog, ServerRowDelete, ServerRowProbe,
             KeyRowRevoke, DeveloperKeyRevoke, PolicyRowDelete, LimitRowDelete, PermissionRemove,
             AdminServerDelete, AdminServerDisable, AdminKeyRevoke, SecurityKeyRevoke
<1> QED
  BY Zenon, <1>1, <1>2, <1>3, <1>4, <1>5

\* The state of a dialog's page.
DialogFields ==
  {"open", "ready", "typed", "busy", "shown", "mount", "opened", "filled", "retyped", "sent",
   "made", "lost", "seen"}

\* Types of a dialog's state; This is the table's entry of the mounted page.
DialogType ==
  /\ Sound(This)
  /\ DOMAIN ui = DialogFields
  /\ ui.open \in Nat /\ ui.typed \in Nat /\ ui.busy \in Nat /\ ui.shown \in Nat /\ ui.mount \in Nat
  /\ ui.opened \in Nat /\ ui.filled \in Nat /\ ui.sent \in Nat /\ ui.made \in Nat /\ ui.lost \in Nat

\* A step that changes none but these fields.
SameBut(fields) == \A f \in DialogFields \ fields : ui'[f] = ui[f]

\* The call that submits row r now.
Submission(r) ==
  [do |-> "submit", about |-> r, here |-> TRUE, mount |-> ui.mount, n |-> ui.sent + 1, retyped |-> ui.retyped]

\* What OpenDialog does, field by field; and so on for the other steps of a dialog.
Opens(r) ==
  /\ DOMAIN ui' = DialogFields
  /\ SameBut({"open", "opened", "typed", "retyped", "seen"})
  /\ ui.open = 0 /\ ui'.open = r /\ ui'.opened = ui.opened + 1 /\ ui'.typed = 0 /\ ui'.retyped = FALSE
  /\ ui'.seen = IF ui.shown # 0 THEN ui.seen \cup {ui.shown} ELSE ui.seen
  /\ UNCHANGED <<page, flight>>

\* CloseDialog: a dialog that does not stay mounted forgets its state.
Closes ==
  /\ DOMAIN ui' = DialogFields
  /\ SameBut({"open", "busy", "ready", "mount", "shown"})
  /\ ui.open # 0 /\ ~Inline(This) /\ ui'.open = 0
  /\ ui'.busy = IF This.keeps THEN ui.busy ELSE 0
  /\ ui'.ready = IF This.keeps /\ ~This.wipes THEN ui.ready ELSE ~This.needs
  /\ ui'.mount = IF This.keeps THEN ui.mount ELSE ui.mount + 1
  /\ ui'.shown = IF This.wipes THEN 0 ELSE ui.shown
  /\ UNCHANGED <<page, flight>>

\* Fill: the form is complete.
Fills ==
  /\ DOMAIN ui' = DialogFields
  /\ SameBut({"ready", "filled"}) /\ This.needs
  /\ ui.open # 0 /\ ui.shown = 0 /\ ui'.ready = TRUE /\ ui'.filled = ui.filled + 1
  /\ UNCHANGED <<page, flight>>

\* TypeName: the name is typed for the row at hand.
Types ==
  /\ DOMAIN ui' = DialogFields
  /\ SameBut({"typed", "retyped"})
  /\ ui'.typed = ui.open /\ ui'.retyped = TRUE
  /\ UNCHANGED <<page, flight>>

\* Submit: the call is sent, and the button is busy unless the dialog has no such guard.
Submits(r) ==
  /\ DOMAIN ui' = DialogFields
  /\ SameBut({"sent", "busy"})
  /\ ui.open # 0 /\ ui.shown = 0 /\ ui.ready
  /\ This.asks = "typed" => ui.typed = ui.open
  /\ This.guard = "busy" => ui.busy = 0
  /\ ui'.sent = ui.sent + 1 /\ ui'.busy = IF This.guard = "none" THEN 0 ELSE r
  /\ flight' = flight \cup {Submission(r)} /\ UNCHANGED page

\* Fails: the call is answered with an error, having done its work or not.
FailsDoing(c, done) ==
  /\ DOMAIN ui' = DialogFields
  /\ SameBut({"made", "lost", "busy"})
  /\ ui'.made = ui.made + done /\ ui'.lost = ui.lost + done
  /\ ui'.busy = IF c.mount = ui.mount THEN 0 ELSE ui.busy
  /\ flight' = flight \ {c} /\ UNCHANGED page

\* Succeeds: the record is made; the dialog closes, clears its form or shows what was made.
SucceedsDoing(c) ==
  /\ DOMAIN ui' = DialogFields
  /\ SameBut({"made", "busy", "ready", "shown", "open", "mount", "seen"})
  /\ ui'.made = ui.made + 1
  /\ ui'.open = IF This.closes THEN 0 ELSE ui.open
  /\ ui'.busy = IF c.mount = ui.mount \/ (This.closes /\ ~This.keeps) THEN 0 ELSE ui.busy
  /\ ui'.ready = IF This.closes /\ ~This.keeps THEN ~This.needs
                 ELSE IF c.mount = ui.mount /\ This.clears THEN ~This.needs ELSE ui.ready
  /\ ui'.mount = IF This.closes /\ ~This.keeps THEN ui.mount + 1 ELSE ui.mount
  /\ ui'.shown = IF c.mount = ui.mount /\ This.shows THEN c.n ELSE ui.shown
  /\ ui'.seen = IF ui'.open # 0 /\ ui'.shown # 0 THEN ui.seen \cup {ui'.shown} ELSE ui.seen
  /\ flight' = flight \ {c} /\ UNCHANGED page

\* Looked only adds the secret on screen to those seen.
LEMMA LookedAt ==
  ASSUME NEW u, DOMAIN u = DialogFields
  PROVE  /\ DOMAIN Looked(u) = DialogFields
         /\ \A f \in DialogFields \ {"seen"} : Looked(u)[f] = u[f]
         /\ Looked(u).seen = IF u.open # 0 /\ u.shown # 0 THEN u.seen \cup {u.shown} ELSE u.seen
  BY SMT DEF Looked, DialogFields

\* Closed, field by field.
LEMMA ClosedNow ==
  ASSUME NEW u, DOMAIN u = DialogFields, Sound(This)
  PROVE  /\ DOMAIN Closed(u) = DialogFields
         /\ \A f \in DialogFields \ {"open", "busy", "ready", "mount"} : Closed(u)[f] = u[f]
         /\ Closed(u).open = IF This.keeps /\ Inline(This) THEN u.open ELSE 0
         /\ Closed(u).busy = IF This.keeps THEN u.busy ELSE 0
         /\ Closed(u).ready = IF This.keeps THEN u.ready ELSE ~This.needs
         /\ Closed(u).mount = IF This.keeps THEN u.mount ELSE u.mount + 1
  BY Zenon DEF Closed, DialogFields, Sound

\* OpenDialog is the step Opens describes.
LEMMA OpenDialogDoes ==
  ASSUME DialogType, NEW r \in 1 .. 2, OpenDialog(r)
  PROVE  Opens(r)
<1> DEFINE u == [ui EXCEPT !.open = r, !.opened = @ + 1, !.typed = 0, !.retyped = FALSE]
<1>1. /\ DOMAIN u = DialogFields /\ u.open = r /\ u.opened = ui.opened + 1 /\ u.typed = 0 /\ u.retyped = FALSE
      /\ \A f \in DialogFields \ {"open", "opened", "typed", "retyped"} : u[f] = ui[f]
  BY Zenon DEF DialogType, DialogFields
<1>2. ui' = Looked(u) /\ UNCHANGED <<page, flight>> /\ ui.open = 0
  BY DEF OpenDialog, Set
<1> HIDE DEF u
<1> QED BY SMT, <1>1, <1>2, LookedAt DEF Opens, SameBut, DialogFields

\* CloseDialog is the step Closes describes.
LEMMA CloseDialogDoes ==
  ASSUME DialogType, CloseDialog
  PROVE  Closes
<1> DEFINE u == Closed(ui)
<1>1. /\ DOMAIN u = DialogFields
      /\ \A f \in DialogFields \ {"open", "busy", "ready", "mount"} : u[f] = ui[f]
      /\ u.open = IF This.keeps /\ Inline(This) THEN ui.open ELSE 0
      /\ u.busy = IF This.keeps THEN ui.busy ELSE 0
      /\ u.ready = IF This.keeps THEN ui.ready ELSE ~This.needs
      /\ u.mount = IF This.keeps THEN ui.mount ELSE ui.mount + 1
  BY Zenon, ClosedNow DEF DialogType
<1>2. /\ ui' = (IF This.wipes THEN [u EXCEPT !.ready = ~This.needs, !.shown = 0] ELSE u)
      /\ UNCHANGED <<page, flight>> /\ ui.open # 0 /\ ~Inline(This)
  BY Zenon DEF CloseDialog, Set
<1> HIDE DEF u
<1> QED BY Zenon, <1>1, <1>2 DEF Closes, SameBut, DialogFields, DialogType, Sound

\* Fill is the step Fills describes.
LEMMA FillDoes ==
  ASSUME DialogType, Fill
  PROVE  Fills
  BY Zenon DEF Fills, Fill, Set, DialogType, DialogFields, SameBut

\* TypeName is the step Types describes.
LEMMA TypeNameDoes ==
  ASSUME DialogType, TypeName
  PROVE  Types
  BY Zenon DEF Types, TypeName, Set, DialogType, DialogFields, SameBut

\* Submit is the step Submits describes.
LEMMA SubmitDoes ==
  ASSUME DialogType, NEW r \in 1 .. 2, Submit(r)
  PROVE  Submits(r)
<1>1. This.guard = "busy" => ui.busy = 0
  BY SMT DEF Submit, Enabled
<1> QED BY Zenon, <1>1 DEF Submits, Submit, Send, Submission, DialogType, DialogFields, SameBut

\* Settled ends the busy state only of the mount that sent the call.
LEMMA SettledNow ==
  ASSUME NEW u, NEW c, DOMAIN u = DialogFields
  PROVE  /\ DOMAIN Settled(c, u) = DialogFields
         /\ \A f \in DialogFields \ {"busy"} : Settled(c, u)[f] = u[f]
         /\ Settled(c, u).busy = IF c.mount = u.mount THEN 0 ELSE u.busy
  BY SMT DEF Settled, DialogFields

\* Fails is the step FailsDoing describes, with the work done or not.
LEMMA FailsDoes ==
  ASSUME DialogType, NEW c \in flight, Fails(c)
  PROVE  \E done \in {0, 1} : FailsDoing(c, done)
<1>1. PICK done \in {0, 1} : Take(c, Settled(c, [ui EXCEPT !.made = @ + done, !.lost = @ + done]))
  BY Zenon DEF Fails
<1>0. PICK after : after = [ui EXCEPT !.made = @ + done, !.lost = @ + done]
  OBVIOUS
<1>2. /\ DOMAIN after = DialogFields /\ after.made = ui.made + done /\ after.lost = ui.lost + done
      /\ \A f \in DialogFields \ {"made", "lost"} : after[f] = ui[f]
  BY Zenon, <1>0 DEF DialogType, DialogFields
<1>3. ui' = Settled(c, after) /\ flight' = flight \ {c} /\ UNCHANGED page
  BY Zenon, <1>0, <1>1 DEF Take
<1>4. /\ DOMAIN Settled(c, after) = DialogFields
      /\ Settled(c, after).busy = IF c.mount = after.mount THEN 0 ELSE after.busy
      /\ \A f \in DialogFields \ {"busy"} : Settled(c, after)[f] = after[f]
  BY SMT, <1>2, SettledNow
<1>5. /\ after.mount = ui.mount /\ after.busy = ui.busy
      /\ ui'.made = after.made /\ ui'.lost = after.lost
  BY Zenon, <1>2, <1>3, <1>4 DEF DialogFields
<1>6. SameBut({"made", "lost", "busy"})
  BY Zenon, <1>2, <1>3, <1>4 DEF SameBut
<1> QED BY Zenon, <1>2, <1>3, <1>4, <1>5, <1>6 DEF FailsDoing


\* Succeeds is the step SucceedsDoing describes.
LEMMA SucceedsDoes ==
  ASSUME DialogType, NEW c \in flight, Succeeds(c)
  PROVE  SucceedsDoing(c)
<1>1. PICK w : w = [ui EXCEPT !.made = @ + 1]
  OBVIOUS
<1>2. PICK after : after = Settled(c, w)
  OBVIOUS
<1>3. PICK v : v = IF c.mount = after.mount
                   THEN [after EXCEPT !.ready = IF This.clears THEN ~This.needs ELSE @,
                                      !.shown = IF This.shows THEN c.n ELSE @]
                   ELSE after
  OBVIOUS
<1>4. PICK then : then = IF This.closes THEN Closed(v) ELSE v
  OBVIOUS
<1>a. ui' = Looked(then) /\ flight' = flight \ {c} /\ UNCHANGED page
  BY Zenon, <1>1, <1>2, <1>3, <1>4 DEF Succeeds, Take
<1>b. /\ DOMAIN w = DialogFields /\ w.made = ui.made + 1
      /\ \A f \in DialogFields \ {"made"} : w[f] = ui[f]
  BY Zenon, <1>1 DEF DialogType, DialogFields
<1>c. /\ DOMAIN after = DialogFields /\ after.busy = IF c.mount = w.mount THEN 0 ELSE w.busy
      /\ \A f \in DialogFields \ {"busy"} : after[f] = w[f]
  BY SMT, <1>2, <1>b, SettledNow
<1>d. /\ DOMAIN v = DialogFields
      /\ \A f \in DialogFields \ {"ready", "shown"} : v[f] = after[f]
      /\ v.ready = IF c.mount = after.mount /\ This.clears THEN ~This.needs ELSE after.ready
      /\ v.shown = IF c.mount = after.mount /\ This.shows THEN c.n ELSE after.shown
  BY Zenon, <1>3, <1>c DEF DialogFields
<1>5. This.closes => ~Inline(This)
  BY DEF Inline
<1>6. /\ DOMAIN then = DialogFields
      /\ \A f \in DialogFields \ {"open", "busy", "ready", "mount"} : then[f] = v[f]
      /\ then.open = IF This.closes THEN 0 ELSE v.open
      /\ then.busy = IF This.closes /\ ~This.keeps THEN 0 ELSE v.busy
      /\ then.ready = IF This.closes /\ ~This.keeps THEN ~This.needs ELSE v.ready
      /\ then.mount = IF This.closes /\ ~This.keeps THEN v.mount + 1 ELSE v.mount
  BY SMT, <1>4, <1>d, <1>5, ClosedNow DEF DialogType
<1>7. /\ DOMAIN ui' = DialogFields /\ \A f \in DialogFields \ {"seen"} : ui'[f] = then[f]
      /\ ui'.seen = IF then.open # 0 /\ then.shown # 0 THEN then.seen \cup {then.shown} ELSE then.seen
  BY SMT, <1>a, <1>6, LookedAt
<1>8. SameBut({"made", "busy", "ready", "shown", "open", "mount", "seen"})
  BY Zenon, <1>b, <1>c, <1>d, <1>6, <1>7 DEF SameBut
<1>9. /\ w.mount = ui.mount /\ w.open = ui.open /\ w.busy = ui.busy /\ w.ready = ui.ready
      /\ w.shown = ui.shown /\ w.seen = ui.seen
      /\ after.mount = w.mount /\ after.open = w.open /\ after.ready = w.ready /\ after.shown = w.shown
      /\ after.seen = w.seen /\ after.made = w.made
      /\ v.mount = after.mount /\ v.open = after.open /\ v.busy = after.busy /\ v.seen = after.seen
      /\ v.made = after.made
      /\ then.shown = v.shown /\ then.seen = v.seen /\ then.made = v.made
      /\ ui'.mount = then.mount /\ ui'.open = then.open /\ ui'.busy = then.busy /\ ui'.made = then.made
      /\ ui'.ready = then.ready /\ ui'.shown = then.shown
  BY Zenon, <1>b, <1>c, <1>d, <1>6, <1>7 DEF DialogFields
<1> QED BY SMT, <1>a, <1>b, <1>c, <1>d, <1>6, <1>7, <1>8, <1>9 DEF SucceedsDoing

\* A busy button has a call in flight, of this mount and this row.
BusyInv == ui.busy # 0 => \E c \in flight : c.mount = ui.mount /\ c.about = ui.busy

\* Where a name must be typed, whoever could submit, or has, typed it for this opening.
TypedInv ==
  This.asks = "typed" => /\ \A c \in flight : c.retyped
                         /\ ui.open # 0 /\ ui.typed = ui.open => ui.retyped

\* A dialog that stays mounted and guards its button has at most one call in flight.
AloneInv ==
  This.keeps /\ This.guard = "busy" =>
    /\ ui.mount = 0 /\ \A c \in flight : c.mount = 0
    /\ ui.busy = 0 => flight = {}
    /\ \A c, e \in flight : c = e

\* A form that makes one record makes no more than it was filled in, or opened, plus what a lost
\* answer left behind; while a call is in flight or the form could be sent, one fewer.
OnceInv ==
  OnceEach(This) =>
    IF ByFilling(This)
    THEN /\ ui.made <= ui.lost + ui.filled
         /\ flight # {} \/ (ui.ready /\ ui.shown = 0) => ui.made + 1 <= ui.lost + ui.filled
    ELSE /\ ui.made <= ui.lost + ui.opened
         /\ flight # {} \/ ui.open # 0 => ui.made + 1 <= ui.lost + ui.opened

\* The secrets that were seen, with the one on screen.
OnScreen(u) == u.seen \cup ({u.shown} \ {0})

\* The secrets of all records whose answer came were on screen or are; the one in flight is yet to
\* come.
ShownInv ==
  This.shows =>
    /\ ui.seen \subseteq 1 .. ui.sent /\ ui.shown \in 0 .. ui.sent
    /\ ui.open # 0 /\ ui.shown # 0 => ui.shown \in ui.seen
    /\ \A c \in flight : c.n = ui.sent /\ c.n # 0 /\ c.n \notin ui.seen /\ ui.shown = 0
    /\ ui.made - ui.lost <= Cardinality(OnScreen(ui))

\* The invariant of a dialog's page.
DialogInv == DialogType /\ BusyInv /\ TypedInv /\ AloneInv /\ OnceInv /\ ShownInv

\* Opening the dialog keeps it.
LEMMA OpenKeepsDialog ==
  ASSUME DialogInv, NEW r \in 1 .. 2, Opens(r)
  PROVE  DialogInv'
<1>1. /\ ui'.ready = ui.ready /\ ui'.busy = ui.busy /\ ui'.shown = ui.shown /\ ui'.mount = ui.mount
      /\ ui'.filled = ui.filled
      /\ ui'.sent = ui.sent /\ ui'.made = ui.made /\ ui'.lost = ui.lost
  BY Zenon DEF Opens, SameBut, DialogFields
<1>2. This' = This /\ DOMAIN ui' = DialogFields
  BY Zenon DEF Opens, This
<1>3. DialogType'
  BY SMT, <1>1, <1>2 DEF DialogInv, DialogType, Opens
<1>4. BusyInv'
  BY SMT, <1>1, <1>2 DEF DialogInv, DialogType, BusyInv, Opens, Sound
<1>5. TypedInv'
  BY SMT, <1>1, <1>2 DEF DialogInv, DialogType, TypedInv, Opens, Sound
<1>6. AloneInv'
  BY SMT, <1>1, <1>2 DEF DialogInv, DialogType, AloneInv, Opens, Sound
<1>7. OnceInv'
  BY SMT, <1>1, <1>2 DEF DialogInv, DialogType, OnceInv, Opens, AloneInv, OnceEach, ByFilling, Sound
<1>8. ShownInv'
  <2>1. CASE This.shows
    <3>1. OnScreen(ui') = OnScreen(ui)
      BY SMT, <1>1, <2>1 DEF OnScreen, Opens, DialogInv, ShownInv
    <3>2. Cardinality(OnScreen(ui')) = Cardinality(OnScreen(ui))
      BY Zenon, <3>1
    <3> QED BY SMT, <1>1, <1>2, <2>1, <3>2 DEF DialogInv, DialogType, ShownInv, Opens
  <2> QED BY Zenon, <2>1, <1>2 DEF ShownInv
<1> QED BY Zenon, <1>3, <1>4, <1>5, <1>6, <1>7, <1>8 DEF DialogInv

\* Closing the dialog keeps it: a form that shows a secret has shown it by then.
LEMMA CloseKeeps ==
  ASSUME DialogInv, Closes
  PROVE  DialogInv'
<1>1. /\ ui'.typed = ui.typed /\ ui'.opened = ui.opened /\ ui'.filled = ui.filled /\ ui'.retyped = ui.retyped
      /\ ui'.sent = ui.sent
      /\ ui'.made = ui.made /\ ui'.lost = ui.lost /\ ui'.seen = ui.seen
  BY Zenon DEF Closes, SameBut, DialogFields
<1>2. This' = This /\ DOMAIN ui' = DialogFields
  BY Zenon DEF Closes, This
<1>3. DialogType'
  BY SMT, <1>1, <1>2 DEF DialogInv, DialogType, Closes, Sound
<1>4. BusyInv'
  BY SMT, <1>1, <1>2 DEF DialogInv, DialogType, BusyInv, Closes, Sound
<1>5. TypedInv'
  BY SMT, <1>1, <1>2 DEF DialogInv, DialogType, TypedInv, Closes, Sound
<1>6. AloneInv'
  BY SMT, <1>1, <1>2 DEF DialogInv, DialogType, AloneInv, Closes, Sound
<1>7. OnceInv'
  BY SMT, <1>1, <1>2 DEF DialogInv, DialogType, OnceInv, Closes, AloneInv, OnceEach, ByFilling, Sound
<1>8. ShownInv'
  <2>1. CASE This.shows
    <3>1. OnScreen(ui') = OnScreen(ui)
      BY SMT, <1>1, <2>1 DEF OnScreen, Closes, DialogInv, ShownInv
    <3>2. Cardinality(OnScreen(ui')) = Cardinality(OnScreen(ui))
      BY Zenon, <3>1
    <3> QED BY SMT, <1>1, <1>2, <2>1, <3>2 DEF DialogInv, DialogType, ShownInv, Closes
  <2> QED BY Zenon, <2>1, <1>2 DEF ShownInv
<1> QED BY Zenon, <1>3, <1>4, <1>5, <1>6, <1>7, <1>8 DEF DialogInv

\* Filling in the form keeps it.
LEMMA FillKeeps ==
  ASSUME DialogInv, Fills
  PROVE  DialogInv'
<1>1. /\ ui'.open = ui.open /\ ui'.typed = ui.typed /\ ui'.busy = ui.busy /\ ui'.shown = ui.shown
      /\ ui'.mount = ui.mount
      /\ ui'.opened = ui.opened /\ ui'.retyped = ui.retyped /\ ui'.sent = ui.sent /\ ui'.made = ui.made
      /\ ui'.lost = ui.lost
      /\ ui'.seen = ui.seen
  BY Zenon DEF Fills, SameBut, DialogFields
<1>2. This' = This /\ DOMAIN ui' = DialogFields
  BY Zenon DEF Fills, This
<1>3. DialogType'
  BY SMT, <1>1, <1>2 DEF DialogInv, DialogType, Fills
<1>4. BusyInv'
  BY SMT, <1>1, <1>2 DEF DialogInv, DialogType, BusyInv, Fills, Sound
<1>5. TypedInv'
  BY SMT, <1>1, <1>2 DEF DialogInv, DialogType, TypedInv, Fills, Sound
<1>6. AloneInv'
  BY SMT, <1>1, <1>2 DEF DialogInv, DialogType, AloneInv, Fills, Sound
<1>7. OnceInv'
  BY SMT, <1>1, <1>2 DEF DialogInv, DialogType, OnceInv, Fills, AloneInv, OnceEach, ByFilling, Sound
<1>8. ShownInv'
  <2>1. CASE This.shows
    <3>1. OnScreen(ui') = OnScreen(ui)
      BY SMT, <1>1, <2>1 DEF OnScreen, Fills, DialogInv, ShownInv
    <3>2. Cardinality(OnScreen(ui')) = Cardinality(OnScreen(ui))
      BY Zenon, <3>1
    <3> QED BY SMT, <1>1, <1>2, <2>1, <3>2 DEF DialogInv, DialogType, ShownInv, Fills
  <2> QED BY Zenon, <2>1, <1>2 DEF ShownInv
<1> QED BY Zenon, <1>3, <1>4, <1>5, <1>6, <1>7, <1>8 DEF DialogInv

\* Typing the name keeps it.
LEMMA TypeKeeps ==
  ASSUME DialogInv, Types
  PROVE  DialogInv'
<1>1. /\ ui'.open = ui.open /\ ui'.ready = ui.ready /\ ui'.busy = ui.busy /\ ui'.shown = ui.shown
      /\ ui'.mount = ui.mount
      /\ ui'.opened = ui.opened /\ ui'.filled = ui.filled /\ ui'.sent = ui.sent /\ ui'.made = ui.made
      /\ ui'.lost = ui.lost
      /\ ui'.seen = ui.seen
  BY Zenon DEF Types, SameBut, DialogFields
<1>2. This' = This /\ DOMAIN ui' = DialogFields
  BY Zenon DEF Types, This
<1>3. DialogType'
  BY SMT, <1>1, <1>2 DEF DialogInv, DialogType, Types
<1>4. BusyInv'
  BY SMT, <1>1, <1>2 DEF DialogInv, DialogType, BusyInv, Types, Sound
<1>5. TypedInv'
  BY SMT, <1>1, <1>2 DEF DialogInv, DialogType, TypedInv, Types, Sound
<1>6. AloneInv'
  BY SMT, <1>1, <1>2 DEF DialogInv, DialogType, AloneInv, Types, Sound
<1>7. OnceInv'
  BY SMT, <1>1, <1>2 DEF DialogInv, DialogType, OnceInv, Types, AloneInv, OnceEach, ByFilling, Sound
<1>8. ShownInv'
  <2>1. CASE This.shows
    <3>1. OnScreen(ui') = OnScreen(ui)
      BY SMT, <1>1, <2>1 DEF OnScreen, Types, DialogInv, ShownInv
    <3>2. Cardinality(OnScreen(ui')) = Cardinality(OnScreen(ui))
      BY Zenon, <3>1
    <3> QED BY SMT, <1>1, <1>2, <2>1, <3>2 DEF DialogInv, DialogType, ShownInv, Types
  <2> QED BY Zenon, <2>1, <1>2 DEF ShownInv
<1> QED BY Zenon, <1>3, <1>4, <1>5, <1>6, <1>7, <1>8 DEF DialogInv

\* Submitting keeps it: the guard allows a second call only where the table says that it may be.
LEMMA SubmitKeeps ==
  ASSUME DialogInv, NEW r \in 1 .. 2, Submits(r)
  PROVE  DialogInv'
<1>1. /\ ui'.open = ui.open /\ ui'.ready = ui.ready /\ ui'.typed = ui.typed /\ ui'.shown = ui.shown
      /\ ui'.mount = ui.mount
      /\ ui'.opened = ui.opened /\ ui'.filled = ui.filled /\ ui'.retyped = ui.retyped /\ ui'.made = ui.made
      /\ ui'.lost = ui.lost
      /\ ui'.seen = ui.seen
  BY Zenon DEF Submits, SameBut, DialogFields
<1>2. This' = This /\ DOMAIN ui' = DialogFields
  BY Zenon DEF Submits, This
<1>3. DialogType'
  BY SMT, <1>1, <1>2 DEF DialogInv, DialogType, Submits
<1>c. /\ Submission(r) \in flight' /\ r # 0 /\ Submission(r).mount = ui.mount /\ Submission(r).about = r
      /\ Submission(r).retyped = ui.retyped /\ Submission(r).n = ui.sent + 1
  BY SMT DEF Submission, Submits
<1>4. BusyInv'
  BY SMT, <1>1, <1>c DEF BusyInv, Submits
<1>5. TypedInv'
  BY SMT, <1>1, <1>2 DEF DialogInv, DialogType, TypedInv, Submits, Submission, Sound
<1>6. AloneInv'
  BY SMT, <1>1, <1>2, <1>c DEF DialogInv, AloneInv, Submits
<1>7. OnceInv'
  BY SMT, <1>1, <1>2
     DEF DialogInv, DialogType, OnceInv, Submits, Submission, AloneInv, OnceEach, ByFilling, Sound
<1>8. ShownInv'
  <2>1. CASE This.shows
    <3>1. OnScreen(ui') = OnScreen(ui)
      BY SMT, <1>1, <2>1 DEF OnScreen, Submits, DialogInv, ShownInv
    <3>2. Cardinality(OnScreen(ui')) = Cardinality(OnScreen(ui))
      BY Zenon, <3>1
    <3> QED BY SMT, <1>1, <1>2, <2>1, <3>2
               DEF DialogInv, DialogType, ShownInv, Submits, Submission, AloneInv, Sound
  <2> QED BY Zenon, <2>1, <1>2 DEF ShownInv
<1> QED BY Zenon, <1>3, <1>4, <1>5, <1>6, <1>7, <1>8 DEF DialogInv

\* An error keeps it, also one that comes although the record was made.
LEMMA FailKeeps ==
  ASSUME DialogInv, NEW c \in flight, NEW done \in {0, 1}, FailsDoing(c, done)
  PROVE  DialogInv'
<1>1. /\ ui'.open = ui.open /\ ui'.ready = ui.ready /\ ui'.typed = ui.typed /\ ui'.shown = ui.shown
      /\ ui'.mount = ui.mount
      /\ ui'.opened = ui.opened /\ ui'.filled = ui.filled /\ ui'.retyped = ui.retyped /\ ui'.sent = ui.sent
      /\ ui'.seen = ui.seen
  BY Zenon DEF FailsDoing, SameBut, DialogFields
<1>2. This' = This /\ DOMAIN ui' = DialogFields
  BY Zenon DEF FailsDoing, This
<1>3. DialogType'
  BY SMT, <1>1, <1>2 DEF DialogInv, DialogType, FailsDoing
<1>4. BusyInv'
  BY SMT, <1>1, <1>2 DEF DialogInv, DialogType, BusyInv, FailsDoing, Sound
<1>5. TypedInv'
  BY SMT, <1>1, <1>2 DEF DialogInv, DialogType, TypedInv, FailsDoing, Sound
<1>6. AloneInv'
  BY SMT, <1>1, <1>2 DEF DialogInv, DialogType, AloneInv, FailsDoing, Sound
<1>7. OnceInv'
  BY SMT, <1>1, <1>2 DEF DialogInv, DialogType, OnceInv, FailsDoing, AloneInv, OnceEach, ByFilling, Sound
<1>8. ShownInv'
  <2>1. CASE This.shows
    <3>1. OnScreen(ui') = OnScreen(ui)
      BY SMT, <1>1, <2>1 DEF OnScreen, FailsDoing, DialogInv, ShownInv
    <3>2. Cardinality(OnScreen(ui')) = Cardinality(OnScreen(ui))
      BY Zenon, <3>1
    <3> QED BY SMT, <1>1, <1>2, <2>1, <3>2 DEF DialogInv, DialogType, ShownInv, FailsDoing
  <2> QED BY Zenon, <2>1, <1>2 DEF ShownInv
<1> QED BY Zenon, <1>3, <1>4, <1>5, <1>6, <1>7, <1>8 DEF DialogInv

\* Success keeps it: the secret of the one call that there is gets on screen.
LEMMA SucceedKeeps ==
  ASSUME DialogInv, NEW c \in flight, SucceedsDoing(c)
  PROVE  DialogInv'
<1>1. /\ ui'.typed = ui.typed /\ ui'.opened = ui.opened /\ ui'.filled = ui.filled /\ ui'.retyped = ui.retyped
      /\ ui'.sent = ui.sent
      /\ ui'.lost = ui.lost
  BY Zenon DEF SucceedsDoing, SameBut, DialogFields
<1>2. This' = This /\ DOMAIN ui' = DialogFields
  BY Zenon DEF SucceedsDoing, This
<1>3. DialogType'
  BY SMT, <1>1, <1>2 DEF DialogInv, DialogType, SucceedsDoing, Sound, ShownInv
<1>4. BusyInv'
  BY SMT, <1>1, <1>2 DEF DialogInv, DialogType, BusyInv, SucceedsDoing, Sound
<1>5. TypedInv'
  BY SMT, <1>1, <1>2 DEF DialogInv, DialogType, TypedInv, SucceedsDoing, Sound
<1>6. AloneInv'
  BY SMT, <1>1, <1>2 DEF DialogInv, DialogType, AloneInv, SucceedsDoing, Sound
<1>7. OnceInv'
  <2>1. CASE OnceEach(This) /\ ByFilling(This)
    <3>1. This.keeps /\ This.guard = "busy" /\ This.needs /\ (This.clears \/ This.shows)
      BY Zenon, <2>1 DEF DialogInv, DialogType, Sound, OnceEach, ByFilling
    <3>2. flight' = {} /\ ui'.ready = (IF This.clears THEN ~This.needs ELSE ui.ready)
          /\ (~This.clears => ui'.shown = c.n /\ c.n # 0)
      BY Zenon, <3>1 DEF DialogInv, AloneInv, ShownInv, SucceedsDoing
    <3>3. flight # {} /\ ui.made + 1 <= ui.lost + ui.filled
      BY Zenon, <2>1 DEF DialogInv, OnceInv
    <3>4. ~(ui'.ready /\ ui'.shown = 0)
      BY Zenon, <3>1, <3>2
    <3>5. ui'.made <= ui'.lost + ui'.filled
      BY SMT, <1>1, <3>3 DEF SucceedsDoing
    <3> QED BY Zenon, <1>2, <2>1, <3>2, <3>4, <3>5 DEF OnceInv
  <2>2. CASE OnceEach(This) /\ ~ByFilling(This)
    <3>1. This.keeps /\ This.guard = "busy" /\ This.closes
      BY Zenon, <2>2 DEF DialogInv, DialogType, Sound, OnceEach
    <3>2. flight' = {} /\ ui'.open = 0
      BY Zenon, <3>1 DEF DialogInv, AloneInv, SucceedsDoing
    <3>3. flight # {} /\ ui.made + 1 <= ui.lost + ui.opened
      BY Zenon, <2>2 DEF DialogInv, OnceInv
    <3>4. ui'.made <= ui'.lost + ui'.opened
      BY SMT, <1>1, <3>3 DEF SucceedsDoing
    <3> QED BY Zenon, <1>2, <2>2, <3>2, <3>4 DEF OnceInv
  <2> QED BY Zenon, <1>2, <2>1, <2>2 DEF OnceInv
<1>8. ShownInv'
  <2>1. CASE This.shows
    <3>1. /\ ui.shown = 0 /\ c.n \notin ui.seen /\ c.n = ui.sent /\ c.n # 0 /\ ui'.shown = c.n /\ flight' = {}
      BY SMT, <1>1, <2>1 DEF SucceedsDoing, DialogInv, ShownInv, AloneInv, DialogType, Sound
    <3>2. OnScreen(ui') = OnScreen(ui) \cup {c.n} /\ OnScreen(ui) = ui.seen
      BY SMT, <3>1 DEF OnScreen, SucceedsDoing
    <3>3. IsFiniteSet(OnScreen(ui))
      <4>1. 1 \in Int /\ ui.sent \in Int
        BY SMT DEF DialogInv, DialogType
      <4>2. IsFiniteSet(1 .. ui.sent)
        BY Zenon, <4>1, FS_Interval
      <4> QED BY <2>1, <3>2, <4>2, FS_Subset DEF DialogInv, ShownInv
    <3>4. Cardinality(OnScreen(ui')) = Cardinality(OnScreen(ui)) + 1
      <4>1. c.n \notin OnScreen(ui)
        BY Zenon, <3>1, <3>2
      <4> QED BY Zenon, <4>1, <3>2, <3>3, FS_AddElement
    <3>5. Cardinality(OnScreen(ui)) \in Nat
      BY <3>3, FS_CardinalityType
    <3> QED BY SMT, <1>1, <1>2, <2>1, <3>1, <3>4, <3>5 DEF DialogInv, DialogType, ShownInv, SucceedsDoing
  <2> QED BY Zenon, <2>1, <1>2 DEF ShownInv
<1> QED BY Zenon, <1>3, <1>4, <1>5, <1>6, <1>7, <1>8 DEF DialogInv

\* A dialog's page opens with its invariant.
LEMMA DialogOpens ==
  ASSUME NEW p \in DialogPages, OpenDialogPage(p)
  PROVE  page' = p /\ Owned' /\ DialogInv'
<1>1. p \notin {Elsewhere, "register", "newPolicy", "policy"}
  BY SMT DEF DialogPages, Elsewhere
<1>2. page' = p /\ ui' = DialogInit(Dialogs[p]) /\ flight' = {} /\ Owned'
  BY Zenon, <1>1, OpensCleanly DEF OpenDialogPage
<1>3. This' = Dialogs[p] /\ Sound(This')
  BY Zenon, <1>2, DialogsAreSound DEF This
<1>4. /\ DOMAIN ui' = DialogFields /\ ui'.ready = ~Dialogs[p].needs
      /\ ui'.open \in {0, 1} /\ ui'.typed = 0 /\ ui'.busy = 0 /\ ui'.shown = 0 /\ ui'.mount = 0
      /\ ui'.opened = 0 /\ ui'.filled = 0 /\ ui'.sent = 0 /\ ui'.made = 0 /\ ui'.lost = 0 /\ ui'.seen = {}
  BY SMT, <1>2 DEF DialogInit, DialogFields
<1>5. OnceEach(This') /\ ~ByFilling(This') => ui'.open = 0
  <2>1. OnceEach(This') /\ ~ByFilling(This') => ~Inline(Dialogs[p])
    BY Zenon, <1>3 DEF Sound, Inline
  <2> QED BY Zenon, <1>2, <1>3, <2>1 DEF DialogInit
<1>6. ByFilling(This') => ~ui'.ready
  BY Zenon, <1>3, <1>4 DEF ByFilling
<1>7. DialogType' /\ BusyInv' /\ AloneInv'
  BY SMT, <1>2, <1>3, <1>4 DEF DialogType, BusyInv, AloneInv
<1>8. TypedInv'
  BY SMT, <1>2, <1>4 DEF TypedInv
<1>9. OnceInv'
  BY SMT, <1>2, <1>4, <1>5, <1>6 DEF OnceInv
<1>10. ShownInv'
  <2>1. OnScreen(ui') = {}
    BY SMT, <1>4 DEF OnScreen
  <2>2. Cardinality(OnScreen(ui')) = 0
    BY Zenon, <2>1, FS_EmptySet
  <2> QED BY SMT, <1>2, <1>4, <2>2 DEF ShownInv
<1> QED BY Zenon, <1>2, <1>7, <1>8, <1>9, <1>10 DEF DialogInv

\* What the user does on a dialog's page and the answers to its calls keep its invariant.
LEMMA DialogKeeps ==
  ASSUME Owned, page \in DialogPages => DialogInv, DialogUser \/ DialogStep
  PROVE  page \in DialogPages /\ page' = page /\ Owned' /\ DialogInv'
<1>1. page \in DialogPages /\ DialogInv /\ DialogType
  BY Zenon, DialogNames
     DEF DialogUser, DialogStep, OpenDialog, Submit, CloseDialog, Fill, TypeName, Succeeds, Fails,
         OnDialog, DialogInv
<1>2. ASSUME NEW r \in 1 .. 2, Submit(r) PROVE page' = page /\ Owned'
  BY SMT, <1>1, <1>2 DEF Submit, Send, Owned, Belongs
<1>3. page' = page /\ Owned'
  BY Zenon, <1>2, SetOwns, TakeOwns
     DEF DialogUser, DialogStep, OpenDialog, CloseDialog, Fill, TypeName, Succeeds, Fails
<1>4. ASSUME NEW r \in 1 .. 2, OpenDialog(r) PROVE DialogInv'
  BY Zenon, <1>1, <1>4, OpenDialogDoes, OpenKeepsDialog
<1>5. ASSUME NEW r \in 1 .. 2, Submit(r) PROVE DialogInv'
  BY Zenon, <1>1, <1>5, SubmitDoes, SubmitKeeps
<1>6. ASSUME CloseDialog PROVE DialogInv'
  BY Zenon, <1>1, <1>6, CloseDialogDoes, CloseKeeps
<1>7. ASSUME Fill PROVE DialogInv'
  BY Zenon, <1>1, <1>7, FillDoes, FillKeeps
<1>8. ASSUME TypeName PROVE DialogInv'
  BY Zenon, <1>1, <1>8, TypeNameDoes, TypeKeeps
<1>9. ASSUME NEW c \in flight, Succeeds(c) PROVE DialogInv'
  BY Zenon, <1>1, <1>9, SucceedsDoes, SucceedKeeps
<1>10. ASSUME NEW c \in flight, Fails(c) PROVE DialogInv'
  BY Zenon, <1>1, <1>10, FailsDoes, FailKeeps
<1> QED BY Zenon, <1>1, <1>3, <1>4, <1>5, <1>6, <1>7, <1>8, <1>9, <1>10 DEF DialogUser, DialogStep

\* So a busy button has a cause, one record is made of each form, deletions are typed and
\* credentials shown.
LEMMA DialogShows ==
  ASSUME page \in DialogPages => DialogInv, Owned
  PROVE  BusyHasCause /\ OneRecordEach /\ DeletionsAreTyped /\ CredentialsAreShown
<1>1. BusyHasCause /\ DeletionsAreTyped
  BY Zenon, DialogNames DEF BusyHasCause, DeletionsAreTyped, OnDialog, DialogInv, BusyInv, TypedInv
<1>2. OneRecordEach
  BY Zenon, DialogNames DEF OneRecordEach, OnDialog, DialogInv, OnceInv, OnceEach, ByFilling
<1>3. CredentialsAreShown
  BY Zenon, DialogNames DEF CredentialsAreShown, OnDialog, DialogInv, ShownInv, OnScreen
<1> QED BY <1>1, <1>2, <1>3

-----------------------------------------------------------------------------
\* The key wizard (dashboard/keys).
KeysFields == {"open", "step", "named", "pending", "resets", "revealed", "made", "seen", "left", "excused"}

\* A key is being made only while the wizard waits for it; a wizard that is closed while it waits
\* counts as left; and the secret of every key was seen, unless the user had left.
KeysInv ==
  /\ DOMAIN ui = KeysFields /\ ui.made \in Nat
  /\ \A c \in flight : c.do = "createKey" => c = Call("createKey", ui.made + 1) /\ ui.pending
  /\ ui.pending /\ ~ui.open => ui.left
  /\ 1 .. ui.made \subseteq ui.seen \cup ui.excused

\* A step that makes no key and closes nothing that waits.
KeysQuiet ==
  /\ DOMAIN ui' = KeysFields /\ UNCHANGED flight
  /\ ui'.made = ui.made /\ ui'.pending = ui.pending /\ ui'.left = ui.left /\ ui'.excused = ui.excused
  /\ ui.seen \subseteq ui'.seen /\ (ui.open => ui'.open)

\* Such a step keeps the invariant.
LEMMA KeysQuietKeeps ==
  ASSUME KeysInv, KeysQuiet PROVE KeysInv'
  BY SMT DEF KeysInv, KeysQuiet

\* SetKeys sets the state and notes the secret that is on screen.
LEMMA SetKeysDoes ==
  ASSUME NEW u, DOMAIN u = KeysFields, SetKeys(u)
  PROVE  /\ DOMAIN ui' = KeysFields /\ UNCHANGED flight /\ u.seen \subseteq ui'.seen
         /\ ui'.made = u.made /\ ui'.pending = u.pending /\ ui'.left = u.left /\ ui'.excused = u.excused
         /\ ui'.open = u.open
  BY Zenon DEF SetKeys, Set, KeysFields

\* The wizard's handlers, revoking a key and the answers keep the invariant.
LEMMA KeysKeep ==
  ASSUME Owned, page = "keys" => KeysInv, KeysUser \/ KeysStep
  PROVE  page = "keys" /\ page' = page /\ Owned' /\ KeysInv'
<1>1. page = "keys"
  BY Zenon, Caller
     DEF KeysUser, KeysStep, OpenWizard, SetName, Continue, Back, SubmitKey, CloseWizard, Revoke,
         ResetFires, KeyCreated, KeyFailed, Revoked, OnKeys
<1>2. KeysInv /\ DOMAIN ui = KeysFields
  BY <1>1 DEF KeysInv
<1>3. ASSUME SubmitKey \/ Revoke PROVE page' = page /\ Owned'
  BY SMT, <1>1, <1>3 DEF SubmitKey, Revoke, Call, Send, Owned, Belongs
<1>4. page' = page /\ Owned'
  BY Zenon, <1>3, SetOwns, TakeOwns
     DEF KeysUser, KeysStep, OpenWizard, SetName, Continue, Back, CloseWizard, ResetFires, KeyCreated,
         KeyFailed, Revoked, SetKeys
<1>5. ASSUME OpenWizard \/ (\E b \in BOOLEAN : SetName(b)) \/ Continue \/ Back \/ ResetFires PROVE KeysInv'
  <2>1. CASE OpenWizard
    <3>1. PICK u : u = [ui EXCEPT !.open = TRUE] /\ SetKeys(u)
      BY Zenon, <2>1 DEF OpenWizard
    <3>2. DOMAIN u = KeysFields /\ u.made = ui.made /\ u.pending = ui.pending /\ u.left = ui.left
            /\ u.excused = ui.excused /\ u.seen = ui.seen /\ u.open
      BY Zenon, <1>2, <3>1 DEF KeysFields
    <3> QED BY Zenon, <1>2, <3>1, <3>2, SetKeysDoes, KeysQuietKeeps DEF KeysQuiet
  <2>2. ASSUME NEW b \in BOOLEAN, SetName(b) PROVE KeysInv'
    <3>1. PICK u : u = [ui EXCEPT !.named = b] /\ SetKeys(u)
      BY Zenon, <2>2 DEF SetName
    <3>2. DOMAIN u = KeysFields /\ u.made = ui.made /\ u.pending = ui.pending /\ u.left = ui.left
            /\ u.excused = ui.excused /\ u.seen = ui.seen /\ u.open = ui.open
      BY Zenon, <1>2, <3>1 DEF KeysFields
    <3> QED BY Zenon, <1>2, <3>1, <3>2, SetKeysDoes, KeysQuietKeeps DEF KeysQuiet
  <2>3. CASE Continue \/ Back
    <3>1. PICK v : LET u == [ui EXCEPT !.step = v] IN SetKeys(u)
      BY Zenon, <2>3 DEF Continue, Back
    <3>2. PICK u : u = [ui EXCEPT !.step = v] /\ SetKeys(u)
      BY Zenon, <3>1
    <3>3. DOMAIN u = KeysFields /\ u.made = ui.made /\ u.pending = ui.pending /\ u.left = ui.left
            /\ u.excused = ui.excused /\ u.seen = ui.seen /\ u.open = ui.open
      BY Zenon, <1>2, <3>2 DEF KeysFields
    <3> QED BY Zenon, <1>2, <3>2, <3>3, SetKeysDoes, KeysQuietKeeps DEF KeysQuiet
  <2>4. CASE ResetFires
    <3>1. PICK u : u = [ui EXCEPT !.resets = @ - 1, !.step = 0, !.named = FALSE, !.revealed = 0] /\ SetKeys(u)
      BY Zenon, <2>4 DEF ResetFires
    <3>2. DOMAIN u = KeysFields /\ u.made = ui.made /\ u.pending = ui.pending /\ u.left = ui.left
            /\ u.excused = ui.excused /\ u.seen = ui.seen /\ u.open = ui.open
      BY Zenon, <1>2, <3>1 DEF KeysFields
    <3> QED BY Zenon, <1>2, <3>1, <3>2, SetKeysDoes, KeysQuietKeeps DEF KeysQuiet
  <2> QED BY Zenon, <1>5, <2>1, <2>2, <2>3, <2>4
<1>6. ASSUME SubmitKey PROVE KeysInv'
  <2>1. /\ DOMAIN ui' = KeysFields /\ ui'.pending = TRUE /\ ui'.left = FALSE /\ ui'.open = TRUE
        /\ ui'.made = ui.made /\ ui'.seen = ui.seen /\ ui'.excused = ui.excused
        /\ flight' = flight \cup {Call("createKey", ui.made + 1)}
    BY Zenon, <1>2, <1>6 DEF SubmitKey, Send, KeysFields
  <2> QED BY SMT, <1>2, <2>1 DEF KeysInv
<1>7. ASSUME CloseWizard PROVE KeysInv'
  <2>1. /\ DOMAIN ui' = KeysFields /\ ui'.left = (ui.left \/ ui.pending) /\ ui'.pending = ui.pending
        /\ ui'.open = FALSE
        /\ ui'.made = ui.made /\ ui'.seen = ui.seen /\ ui'.excused = ui.excused /\ flight' = flight
    BY Zenon, <1>2, <1>7 DEF CloseWizard, Set, KeysFields
  <2> QED BY Zenon, <1>2, <2>1 DEF KeysInv
<1>8. ASSUME NEW c \in flight, KeyCreated(c) PROVE KeysInv'
  <2>1. c = Call("createKey", ui.made + 1) /\ ui.pending /\ c.about = ui.made + 1
    BY SMT, <1>2, <1>8 DEF KeysInv, KeyCreated, Call
  <2>2. PICK u : u = [ui EXCEPT !.pending = FALSE, !.revealed = c.about, !.step = 4, !.made = c.about,
                      !.excused = IF ui.left THEN @ \cup {c.about} ELSE @]
    OBVIOUS
  <2>3. /\ ui' = [u EXCEPT !.seen = IF Reveals(u) THEN @ \cup {u.revealed} ELSE @] /\ flight' = flight \ {c}
    BY Zenon, <1>8, <2>2 DEF KeyCreated, Take
  <2>4. /\ DOMAIN u = KeysFields /\ u.pending = FALSE /\ u.revealed = c.about /\ u.step = 4
        /\ u.made = c.about
        /\ u.excused = (IF ui.left THEN ui.excused \cup {c.about} ELSE ui.excused) /\ u.open = ui.open
        /\ u.seen = ui.seen
    BY Zenon, <1>2, <2>2 DEF KeysFields
  <2>5. /\ DOMAIN ui' = KeysFields /\ ui'.pending = FALSE /\ ui'.made = ui.made + 1 /\ ui'.excused = u.excused
        /\ ui'.seen = IF Reveals(u) THEN u.seen \cup {u.revealed} ELSE u.seen
    BY Zenon, <2>1, <2>3, <2>4 DEF KeysFields
  <2>6. ui.made + 1 \in ui'.seen \cup ui'.excused
    <3>1. CASE ui.open
      BY SMT, <1>2, <2>1, <2>4, <2>5, <3>1 DEF Reveals, KeysInv
    <3>2. CASE ~ui.open
      BY Zenon, <1>2, <2>1, <2>4, <2>5, <3>2 DEF KeysInv
    <3> QED BY <3>1, <3>2
  <2>7. ui.seen \subseteq ui'.seen /\ ui.excused \subseteq ui'.excused
    BY Zenon, <2>4, <2>5
  <2>8. 1 .. ui'.made \subseteq ui'.seen \cup ui'.excused
    BY SMT, <1>2, <2>5, <2>6, <2>7 DEF KeysInv
  <2>9. \A e \in flight' : e.do # "createKey"
    BY Zenon, <1>2, <2>1, <2>3 DEF KeysInv
  <2>10. ui'.made \in Nat
    BY SMT, <1>2, <2>5 DEF KeysInv
  <2> QED BY Zenon, <2>5, <2>8, <2>9, <2>10 DEF KeysInv
<1>9. ASSUME NEW c \in flight, KeyFailed(c) PROVE KeysInv'
  <2>1. /\ DOMAIN ui' = KeysFields /\ ui'.pending = FALSE /\ flight' = flight \ {c}
        /\ ui'.made = ui.made /\ ui'.seen = ui.seen /\ ui'.excused = ui.excused
    BY Zenon, <1>2, <1>9 DEF KeyFailed, Take, KeysFields
  <2>2. \A e \in flight' : e.do # "createKey"
    BY Zenon, <1>2, <1>9, <2>1 DEF KeysInv, KeyFailed
  <2> QED BY Zenon, <1>2, <2>1, <2>2 DEF KeysInv
<1>10. ASSUME Revoke \/ \E c \in flight : Revoked(c) PROVE KeysInv'
  BY SMT, <1>2, <1>10 DEF KeysInv, Revoke, Revoked, Send, Take, Call
<1> QED BY Zenon, <1>1, <1>4, <1>5, <1>6, <1>7, <1>8, <1>9, <1>10 DEF KeysUser, KeysStep

\* The page opens with no key made.
LEMMA KeysOpen ==
  ASSUME OpenKeys PROVE page' = "keys" /\ Owned' /\ KeysInv'
<1>1. page' = "keys" /\ ui' = KeysInit /\ flight' = {} /\ Owned'
  BY Zenon, OpensCleanly DEF OpenKeys, Elsewhere
<1> QED BY SMT, <1>1 DEF KeysInv, KeysInit, KeysFields

\* So the secret of each key was shown once, or the user had left the wizard meanwhile.
LEMMA KeysShow == ASSUME page = "keys" => KeysInv PROVE SecretsAreShown
  BY Zenon DEF KeysInv, SecretsAreShown

-----------------------------------------------------------------------------
\* The registration form (dashboard/servers/new) leads only to a server that was made, wherever
\* its user is by the time the answer comes.
LEMMA RegisterKeeps ==
  ASSUME Owned, page = "landing" => Landed, RegisterUser \/ RegisterStep
  PROVE  page' \in {"register"} \cup Away /\ Owned' /\ (page' = "landing" => Landed')
<1>1. ASSUME SubmitServer \/ TestConnection PROVE page = "register" /\ page' = page /\ Owned'
  BY SMT, <1>1 DEF SubmitServer, TestConnection, OnRegister, Call, Send, Owned, Belongs
<1>2. CASE RegisterUser
  <2>1. page = "register" /\ page' = page /\ Owned'
    BY Zenon, <1>1, <1>2, SetOwns DEF RegisterUser, SetServerName, SetSlug, SetUrl, OnRegister
  <2> QED BY SMT, <2>1 DEF Away
<1>3. ASSUME NEW c \in flight, Registered(c) PROVE page' = "landing" /\ Owned' /\ Landed'
  <2>1. "landing" \in Away
    BY DEF Away
  <2>2. page' = "landing" /\ Owned'
    BY Zenon, <1>3, <2>1, RedirectOwns DEF Registered
  <2>3. ui' = [slug |-> c.about, exists |-> {c.about}]
    BY Zenon, <1>3 DEF Registered, Redirect, Landing
  <2> QED BY Zenon, <2>2, <2>3 DEF Landed
<1>4. ASSUME NEW c \in flight, RegisterFails(c)
      PROVE page' \in {"register"} \cup Away /\ Owned' /\ (page' = "landing" => Landed')
  <2>1. page' = page /\ Owned'
    BY Zenon, <1>4, TakeOwns DEF RegisterFails
  <2>2. page \in {"register"} \cup Away
    BY Zenon, <1>4, Caller DEF RegisterFails
  <2>3. page = "landing" => ui' = ui
    BY Zenon, <1>4 DEF RegisterFails, Take, OnRegister
  <2> QED BY Zenon, <2>1, <2>2, <2>3 DEF Landed
<1>5. ASSUME NEW c \in flight, NEW how, TestEnds(c, how) PROVE page = "register" /\ page' = page /\ Owned'
  BY Zenon, <1>5, TakeOwns DEF TestEnds, OnRegister
<1>6. CASE RegisterStep
  BY Zenon, <1>3, <1>4, <1>5, <1>6 DEF RegisterStep, Away
<1> QED BY Zenon, <1>2, <1>6

-----------------------------------------------------------------------------
\* The configuration of a server (ConfigurationTab).
ConfigFields == {"row", "server", "form", "base", "saving", "tab", "edits", "told", "others", "refetched",
                 "lagged", "overlapped"}

\* Unless saves overlapped, one save is in flight at most and what it says it saved is stored;
\* until the page refetches, it neither has nor sends what another person edited, so their edit
\* stays.
ConfigInv ==
  /\ DOMAIN ui = ConfigFields
  /\ DOMAIN ui.row = Fields /\ DOMAIN ui.server = Fields /\ DOMAIN ui.form = Fields
  /\ \A c \in flight : {"do", "here", "about"} \subseteq DOMAIN c
  /\ ~ui.overlapped =>
       /\ \A c, e \in flight : c = e
       /\ ui.told # "nothing" => flight = {}
       /\ \A c \in flight : c.done /\ "mine" \in DOMAIN c.about => ui.row["mine"] = c.about["mine"]
  /\ ui.told # "nothing" => ui.row["mine"] = ui.form["mine"] \/ ui.lagged \/ ui.overlapped
  /\ ~ui.refetched =>
       /\ ui.server["theirs"] = 0 /\ ui.form["theirs"] = 0
       /\ \A c \in flight : "theirs" \notin DOMAIN c.about
       /\ ui.row["theirs"] = IF ui.others THEN MaxEdits + 1 ELSE 0

\* Editing, saving, the answers, refetches and another person's edit keep the invariant.
LEMMA ConfigKeeps ==
  ASSUME Owned, page = "config" => ConfigInv, ConfigUser \/ ConfigStep
  PROVE  page = "config" /\ page' = page /\ Owned' /\ ConfigInv'
<1>1. page = "config" /\ ConfigInv
  BY Zenon, Caller
     DEF ConfigUser, ConfigStep, EditField, Save, SwitchTab, OthersEdit, Refetched, SaveServed,
         SaveAnswered, SaveFails, OnConfig
<1>2. DOMAIN ui = ConfigFields /\ DOMAIN ui.row = Fields /\ DOMAIN ui.server = Fields
        /\ DOMAIN ui.form = Fields
  BY Zenon, <1>1 DEF ConfigInv
<1>3. InFlight("save") = flight
  BY SMT, <1>1 DEF InFlight, Owned, Belongs, DialogPages, Away, Elsewhere
<1>4. ASSUME EditField PROVE page' = page /\ Owned' /\ ConfigInv'
  <2>1. PICK v : Set([ui EXCEPT !.form["mine"] = v, !.edits = @ + 1, !.told = "nothing"])
    BY Zenon, <1>4 DEF EditField
  <2>2. /\ DOMAIN ui' = ConfigFields /\ ui'.row = ui.row /\ ui'.server = ui.server
        /\ ui'.form = [ui.form EXCEPT !["mine"] = v] /\ ui'.told = "nothing"
        /\ ui'.others = ui.others /\ ui'.refetched = ui.refetched /\ ui'.lagged = ui.lagged
        /\ ui'.overlapped = ui.overlapped /\ flight' = flight
    BY Zenon, <1>2, <2>1 DEF Set, ConfigFields
  <2>3. DOMAIN ui'.form = Fields /\ ui'.form["theirs"] = ui.form["theirs"]
    BY Zenon, <1>2, <2>2 DEF Fields
  <2>4. page' = page /\ Owned'
    BY Zenon, <2>1, SetOwns
  <2> QED BY Zenon, <1>1, <2>2, <2>3, <2>4 DEF ConfigInv
<1>5. ASSUME SwitchTab PROVE page' = page /\ Owned' /\ ConfigInv'
  <2>1. /\ DOMAIN ui' = ConfigFields /\ ui'.row = ui.row /\ ui'.server = ui.server /\ ui'.form = ui.server
        /\ ui'.told = "nothing"
        /\ ui'.others = ui.others /\ ui'.refetched = ui.refetched /\ ui'.lagged = ui.lagged
        /\ ui'.overlapped = ui.overlapped /\ flight' = flight
    BY Zenon, <1>2, <1>5 DEF SwitchTab, Set, ConfigFields
  <2>2. page' = page /\ Owned'
    BY Zenon, <1>5, SetOwns DEF SwitchTab
  <2> QED BY Zenon, <1>1, <2>1, <2>2 DEF ConfigInv
<1>6. ASSUME OthersEdit PROVE page' = page /\ Owned' /\ ConfigInv'
  <2>1. /\ DOMAIN ui' = ConfigFields /\ ui'.row = [ui.row EXCEPT !["theirs"] = MaxEdits + 1]
        /\ ui'.server = ui.server /\ ui'.form = ui.form /\ ui'.told = ui.told
        /\ ui'.others = TRUE /\ ui'.refetched = ui.refetched /\ ui'.lagged = ui.lagged
        /\ ui'.overlapped = ui.overlapped /\ flight' = flight
    BY Zenon, <1>2, <1>6 DEF OthersEdit, Set, ConfigFields
  <2>2. DOMAIN ui'.row = Fields /\ ui'.row["mine"] = ui.row["mine"] /\ ui'.row["theirs"] = MaxEdits + 1
    BY Zenon, <1>2, <2>1 DEF Fields
  <2>3. page' = page /\ Owned'
    BY Zenon, <1>6, SetOwns DEF OthersEdit
  <2> QED BY Zenon, <1>1, <2>1, <2>2, <2>3 DEF ConfigInv
<1>7. ASSUME Refetched PROVE page' = page /\ Owned' /\ ConfigInv'
  <2>1. /\ DOMAIN ui' = ConfigFields /\ ui'.row = ui.row /\ ui'.server = ui.row /\ ui'.form = ui.form
        /\ ui'.told = ui.told
        /\ ui'.others = ui.others /\ ui'.refetched = (ui.refetched \/ ui.row["theirs"] # 0)
        /\ ui'.lagged = ui.lagged /\ ui'.overlapped = ui.overlapped /\ flight' = flight
    BY Zenon, <1>2, <1>7 DEF Refetched, Set, ConfigFields
  <2>2. page' = page /\ Owned'
    BY Zenon, <1>7, SetOwns DEF Refetched
  <2> QED BY Zenon, <1>1, <2>1, <2>2 DEF ConfigInv
<1>8. ASSUME Save PROVE page' = page /\ Owned' /\ ConfigInv'
  <2>1. PICK u : u = [ui EXCEPT !.lagged = @ \/ ui.server["mine"] # ui.row["mine"],
                      !.overlapped = @ \/ InFlight("save") # {}]
    OBVIOUS
  <2>2. /\ DOMAIN u = ConfigFields /\ u.row = ui.row /\ u.server = ui.server /\ u.form = ui.form
        /\ u.others = ui.others /\ u.refetched = ui.refetched
        /\ u.lagged = (ui.lagged \/ ui.server["mine"] # ui.row["mine"])
        /\ u.overlapped = (ui.overlapped \/ InFlight("save") # {})
    BY Zenon, <1>2, <2>1 DEF ConfigFields
  <2>3. CASE Patch(ui) = {}
    <3>1. Set([u EXCEPT !.told = "nothing to save"])
      BY Zenon, <1>8, <2>1, <2>3 DEF Save
    <3>2. ui.form["mine"] = ui.server["mine"]
      BY Zenon, <2>3 DEF Patch, Fields
    <3>3. /\ DOMAIN ui' = ConfigFields /\ ui'.row = u.row /\ ui'.server = u.server /\ ui'.form = u.form
          /\ ui'.others = u.others /\ ui'.refetched = u.refetched
          /\ ui'.lagged = u.lagged /\ ui'.overlapped = u.overlapped /\ flight' = flight
      BY Zenon, <2>2, <3>1 DEF Set, ConfigFields
    <3>4. page' = page /\ Owned'
      BY Zenon, <3>1, SetOwns
    <3> QED BY Zenon, <1>1, <1>3, <2>2, <3>2, <3>3, <3>4 DEF ConfigInv
  <2>4. CASE Patch(ui) # {}
    <3>1. PICK c : c = [do |-> "save", about |-> [f \in Patch(ui) |-> ui.form[f]], here |-> TRUE,
                        tab |-> ui.tab, done |-> FALSE]
      OBVIOUS
    <3>2. Send(c, [u EXCEPT !.saving = TRUE, !.told = "nothing"])
      BY Zenon, <1>8, <2>1, <2>4, <3>1 DEF Save
    <3>3. DOMAIN c = {"do", "about", "here", "tab", "done"} /\ c.do = "save" /\ c.done = FALSE
            /\ DOMAIN c.about = Patch(ui)
      BY SMT, <3>1
    <3>4. page' = page /\ Owned'
      BY SMT, <1>1, <3>2, <3>3, SendOwns DEF Belongs
    <3>5. /\ DOMAIN ui' = ConfigFields /\ ui'.row = u.row /\ ui'.server = u.server /\ ui'.form = u.form
          /\ ui'.others = u.others /\ ui'.refetched = u.refetched
          /\ ui'.lagged = u.lagged /\ ui'.overlapped = u.overlapped /\ ui'.told = "nothing"
          /\ flight' = flight \cup {c}
      BY Zenon, <2>2, <3>2 DEF Send, ConfigFields
    <3>6. ~ui.refetched => "theirs" \notin Patch(ui)
      BY Zenon, <1>1 DEF ConfigInv, Patch
    <3>7. ~ui'.overlapped => flight' = {c} /\ ~ui.overlapped
      BY Zenon, <1>3, <2>2, <3>5
    <3>8. \A e \in flight' : {"do", "here", "about"} \subseteq DOMAIN e
      BY Zenon, <1>1, <3>3, <3>5 DEF ConfigInv
    <3>9. ~ui'.refetched => \A e \in flight' : "theirs" \notin DOMAIN e.about
      BY Zenon, <1>1, <2>2, <3>3, <3>5, <3>6 DEF ConfigInv
    <3> QED BY Zenon, <1>1, <2>2, <3>3, <3>4, <3>5, <3>7, <3>8, <3>9 DEF ConfigInv
  <2> QED BY <2>3, <2>4
<1>9. ASSUME NEW c \in flight, SaveServed(c) PROVE page' = page /\ Owned' /\ ConfigInv'
  <2>1. page' = page /\ Owned'
    BY Zenon, <1>9, GoesOnOwned DEF SaveServed
  <2>2. PICK d : d = [c EXCEPT !.done = TRUE]
    OBVIOUS
  <2>3. DOMAIN d = DOMAIN c /\ d.about = c.about
    BY Zenon, <1>1, <2>2 DEF ConfigInv
  <2>4. /\ DOMAIN ui' = ConfigFields /\ ui'.server = ui.server /\ ui'.form = ui.form /\ ui'.told = ui.told
        /\ ui'.others = ui.others /\ ui'.refetched = ui.refetched /\ ui'.lagged = ui.lagged
        /\ ui'.overlapped = ui.overlapped
        /\ flight' = (flight \ {c}) \cup {d}
        /\ ui'.row = [f \in Fields |-> IF f \in DOMAIN c.about THEN c.about[f] ELSE ui.row[f]]
    BY Zenon, <1>2, <1>9, <2>2 DEF SaveServed, ConfigFields
  <2>5. /\ DOMAIN ui'.row = Fields
        /\ ui'.row["mine"] = IF "mine" \in DOMAIN c.about THEN c.about["mine"] ELSE ui.row["mine"]
        /\ ui'.row["theirs"] = IF "theirs" \in DOMAIN c.about THEN c.about["theirs"] ELSE ui.row["theirs"]
    BY Zenon, <2>4 DEF Fields
  <2>6. ~ui'.overlapped => flight' = {d} /\ flight = {c} /\ ui.told = "nothing"
    BY Zenon, <1>1, <2>4 DEF ConfigInv
  <2>7. \A e \in flight' : {"do", "here", "about"} \subseteq DOMAIN e
    BY Zenon, <1>1, <2>3, <2>4 DEF ConfigInv
  <2>8. ~ui'.refetched => (\A e \in flight' : "theirs" \notin DOMAIN e.about)
          /\ ui'.row["theirs"] = ui.row["theirs"]
    BY Zenon, <1>1, <2>3, <2>4, <2>5 DEF ConfigInv
  <2>9. ~ui'.overlapped =>
         /\ \A e, g \in flight' : e = g
         /\ ui'.told # "nothing" => flight' = {}
         /\ \A e \in flight' : e.done /\ "mine" \in DOMAIN e.about => ui'.row["mine"] = e.about["mine"]
    BY Zenon, <2>3, <2>4, <2>5, <2>6
  <2>10. ui'.told # "nothing" => ui'.row["mine"] = ui'.form["mine"] \/ ui'.lagged \/ ui'.overlapped
    BY Zenon, <2>4, <2>6
  <2> QED BY Zenon, <1>1, <2>1, <2>4, <2>5, <2>7, <2>8, <2>9, <2>10 DEF ConfigInv
<1>10. ASSUME NEW c \in flight, SaveAnswered(c) \/ SaveFails(c) PROVE page' = page /\ Owned' /\ ConfigInv'
  <2>1. page' = page /\ Owned'
    BY Zenon, <1>10, TakeOwns DEF SaveAnswered, SaveFails
  <2>2. /\ DOMAIN ui' = ConfigFields /\ ui'.row = ui.row /\ ui'.server = ui.server /\ ui'.form = ui.form
        /\ ui'.others = ui.others /\ ui'.refetched = ui.refetched /\ ui'.lagged = ui.lagged
        /\ ui'.overlapped = ui.overlapped
        /\ flight' = flight \ {c}
    BY Zenon, <1>2, <1>10 DEF SaveAnswered, SaveFails, Take, ConfigFields
  <2>3. ui'.told = ui.told \/ (c.done /\ "mine" \in DOMAIN c.about /\ c.about["mine"] = ui.form["mine"])
    BY Zenon, <1>2, <1>10 DEF SaveAnswered, SaveFails, Take, ConfigFields
  <2>4. ~ui.overlapped => flight' = {} /\ ui.told = "nothing"
    BY Zenon, <1>1, <2>2 DEF ConfigInv
  <2>5. ui'.told # "nothing" => ui'.row["mine"] = ui'.form["mine"] \/ ui'.lagged \/ ui'.overlapped
    BY Zenon, <1>1, <2>2, <2>3, <2>4 DEF ConfigInv
  <2> QED BY Zenon, <1>1, <2>1, <2>2, <2>4, <2>5 DEF ConfigInv
<1> QED BY Zenon, <1>1, <1>4, <1>5, <1>6, <1>7, <1>8, <1>9, <1>10 DEF ConfigUser, ConfigStep

\* The tab opens on the row as it is stored.
LEMMA ConfigOpens ==
  ASSUME OpenConfig PROVE page' = "config" /\ Owned' /\ ConfigInv'
<1>1. page' = "config" /\ ui' = ConfigInit /\ flight' = {} /\ Owned'
  BY Zenon, OpensCleanly DEF OpenConfig, Elsewhere
<1> QED BY SMT, <1>1 DEF ConfigInv, ConfigInit, ConfigFields, Fields

\* So what the page says is saved is stored, and the edits of others survive.
LEMMA ConfigShows == ASSUME page = "config" => ConfigInv PROVE SavedIsStored /\ OthersEditsSurvive
  BY Zenon DEF ConfigInv, SavedIsStored, OthersEditsSurvive, OnConfig

-----------------------------------------------------------------------------
\* The tool tester of a server.
TesterFields == {"tool", "state", "answer", "valid", "calls", "crossed"}

\* Unless the user changed the tool meanwhile, the one call in flight is of the tool that is
\* chosen.
TesterInv ==
  /\ DOMAIN ui = TesterFields
  /\ ~ui.crossed =>
       /\ \A c, e \in flight : c = e
       /\ \A c \in flight : c.about = ui.tool
       /\ ui.state = "calling" <=> flight # {}
       /\ ui.state = "done" => ui.answer = ui.tool

\* Choosing, calling and the answers keep the invariant.
LEMMA TesterKeeps ==
  ASSUME Owned, page = "tester" => TesterInv, TesterUser \/ TesterStep
  PROVE  page = "tester" /\ page' = page /\ Owned' /\ TesterInv'
<1>1. page = "tester" /\ TesterInv /\ DOMAIN ui = TesterFields
  BY Zenon DEF TesterUser, TesterStep, HandleToolChange, SetArgument, HandleCall, ToolAnswered, ToolFails,
               OnTester, TesterInv
<1>2. InFlight("call") = flight
  BY SMT, <1>1 DEF InFlight, Owned, Belongs, DialogPages, Away, Elsewhere
<1>3. ASSUME NEW t, HandleToolChange(t) PROVE page' = page /\ Owned' /\ TesterInv'
  <2>1. page' = page /\ Owned'
    BY Zenon, <1>3, SetOwns DEF HandleToolChange
  <2>2. DOMAIN ui' = TesterFields /\ ui'.tool = t /\ ui'.state = "idle"
          /\ ui'.crossed = (ui.crossed \/ flight # {}) /\ flight' = flight
    BY Zenon, <1>1, <1>2, <1>3 DEF HandleToolChange, Set, TesterFields
  <2> QED BY Zenon, <2>1, <2>2 DEF TesterInv
<1>4. ASSUME NEW ok, SetArgument(ok) PROVE page' = page /\ Owned' /\ TesterInv'
  <2>1. page' = page /\ Owned'
    BY Zenon, <1>4, SetOwns DEF SetArgument
  <2>2. DOMAIN ui' = TesterFields /\ ui'.tool = ui.tool /\ ui'.state = ui.state /\ ui'.crossed = ui.crossed
          /\ ui'.answer = ui.answer /\ flight' = flight
    BY Zenon, <1>1, <1>4 DEF SetArgument, Set, TesterFields
  <2> QED BY Zenon, <1>1, <2>1, <2>2 DEF TesterInv
<1>5. ASSUME HandleCall PROVE page' = page /\ Owned' /\ TesterInv'
  <2>1. CASE ui.valid
    <3>1. PICK c : c = [do |-> "call", about |-> ui.tool, here |-> TRUE, n |-> ui.calls]
      OBVIOUS
    <3>2. DOMAIN c = {"do", "about", "here", "n"} /\ c.do = "call" /\ c.about = ui.tool
      BY SMT, <3>1
    <3>3. Send(c, [ui EXCEPT !.state = "calling", !.answer = 0, !.calls = @ + 1]) /\ ui.state # "calling"
      BY Zenon, <1>5, <2>1, <3>1 DEF HandleCall
    <3>4. page' = page /\ Owned'
      BY SMT, <1>1, <3>2, <3>3, SendOwns DEF Belongs
    <3>5. DOMAIN ui' = TesterFields /\ ui'.tool = ui.tool /\ ui'.state = "calling"
            /\ ui'.crossed = ui.crossed /\ flight' = flight \cup {c}
      BY Zenon, <1>1, <3>3 DEF Send, TesterFields
    <3> QED BY Zenon, <1>1, <3>2, <3>3, <3>4, <3>5 DEF TesterInv
  <2>2. CASE ~ui.valid
    <3>1. Set([ui EXCEPT !.state = "error", !.answer = 0]) /\ ui.state # "calling"
      BY Zenon, <1>5, <2>2 DEF HandleCall
    <3>2. page' = page /\ Owned'
      BY Zenon, <3>1, SetOwns
    <3>3. DOMAIN ui' = TesterFields /\ ui'.tool = ui.tool /\ ui'.state = "error" /\ ui'.crossed = ui.crossed
            /\ flight' = flight
      BY Zenon, <1>1, <3>1 DEF Set, TesterFields
    <3> QED BY Zenon, <1>1, <3>1, <3>2, <3>3 DEF TesterInv
  <2> QED BY <2>1, <2>2
<1>6. ASSUME NEW c \in flight, ToolAnswered(c) \/ ToolFails(c) PROVE page' = page /\ Owned' /\ TesterInv'
  <2>1. page' = page /\ Owned'
    BY Zenon, <1>6, TakeOwns DEF ToolAnswered, ToolFails
  <2>2. /\ DOMAIN ui' = TesterFields /\ ui'.tool = ui.tool /\ ui'.crossed = ui.crossed
        /\ flight' = flight \ {c}
        /\ (ui'.state = "done" /\ ui'.answer = c.about) \/ ui'.state = "error"
    BY Zenon, <1>1, <1>6 DEF ToolAnswered, ToolFails, Take, TesterFields
  <2> QED BY Zenon, <1>1, <2>1, <2>2 DEF TesterInv
<1> QED BY Zenon, <1>1, <1>3, <1>4, <1>5, <1>6 DEF TesterUser, TesterStep

\* The tester opens with no call made.
LEMMA TesterOpens ==
  ASSUME OpenTester PROVE page' = "tester" /\ Owned' /\ TesterInv'
<1>1. page' = "tester" /\ ui' = TesterInit /\ flight' = {} /\ Owned'
  BY Zenon, OpensCleanly DEF OpenTester, Elsewhere
<1> QED BY SMT, <1>1 DEF TesterInv, TesterInit, TesterFields

\* So the result that is shown is of the tool that is chosen.
LEMMA TesterShows == ASSUME Owned, page = "tester" => TesterInv PROVE ResultFitsTool
<1>1. page = "tester" => InFlight("call") = flight
  BY SMT DEF InFlight, Owned, Belongs, DialogPages, Away, Elsewhere
<1> QED BY Zenon, <1>1 DEF TesterInv, ResultFitsTool, OnTester

\* The servers of a team (ManageServersDialog).
ManageFields == {"row", "listed", "open", "ids", "pending", "mount", "clicks", "fresh"}

\* While the dialog is open and nothing else changes the team, a server in flight is shown as it
\* was and the others as they are stored.
ManageInv ==
  /\ DOMAIN ui = ManageFields
  /\ \A c \in flight : {"do", "here", "about", "assigned", "mount", "done"} \subseteq DOMAIN c
  /\ ui.open /\ ui.fresh =>
       /\ \A c, e \in flight : c.about = e.about => c = e
       /\ \A c \in flight : /\ c.mount = ui.mount /\ c.about \in ui.pending
                            /\ c.assigned <=> c.about \in ui.ids
                            /\ c.about \in ui.row <=> (IF c.done THEN ~c.assigned ELSE c.assigned)
       /\ \A s : (\A c \in flight : c.about # s) => (s \in ui.ids <=> s \in ui.row)

\* Toggling, the answers, refetches and reopening keep the invariant.
LEMMA ManageKeeps ==
  ASSUME Owned, page = "manageServers" => ManageInv, ManageUser \/ ManageStep
  PROVE  page = "manageServers" /\ page' = page /\ Owned' /\ ManageInv'
<1>1. page = "manageServers" /\ ManageInv /\ DOMAIN ui = ManageFields
  BY Zenon, Caller
     DEF ManageUser, ManageStep, OpenManage, CloseManage, ToggleServer, TeamsRefetched, ToggleServed,
         ToggleAnswered, ToggleFails, OnManage, ManageInv
<1>2. ASSUME OpenManage PROVE page' = page /\ Owned' /\ ManageInv'
  <2>1. page' = page /\ Owned'
    BY Zenon, <1>2, SetOwns DEF OpenManage
  <2>2. DOMAIN ui' = ManageFields /\ ui'.row = ui.row /\ ui'.ids = ui.listed
          /\ ui'.fresh = (ui.listed = ui.row /\ flight = {}) /\ flight' = flight
    BY Zenon, <1>1, <1>2 DEF OpenManage, Set, ManageFields
  <2> QED BY Zenon, <1>1, <2>1, <2>2 DEF ManageInv
<1>3. ASSUME CloseManage PROVE page' = page /\ Owned' /\ ManageInv'
  <2>1. page' = page /\ Owned'
    BY Zenon, <1>3, SetOwns DEF CloseManage
  <2>2. DOMAIN ui' = ManageFields /\ ui'.open = FALSE /\ flight' = flight
    BY Zenon, <1>1, <1>3 DEF CloseManage, Set, ManageFields
  <2> QED BY Zenon, <1>1, <2>1, <2>2 DEF ManageInv
<1>4. ASSUME TeamsRefetched PROVE page' = page /\ Owned' /\ ManageInv'
  <2>1. page' = page /\ Owned'
    BY Zenon, <1>4, SetOwns DEF TeamsRefetched
  <2>2. DOMAIN ui' = ManageFields /\ ui'.open = ui.open /\ ui'.fresh = ui.fresh /\ ui'.mount = ui.mount
          /\ ui'.pending = ui.pending /\ ui'.ids = ui.ids /\ ui'.row = ui.row /\ flight' = flight
    BY Zenon, <1>1, <1>4 DEF TeamsRefetched, Set, ManageFields
  <2> QED BY Zenon, <1>1, <2>1, <2>2 DEF ManageInv
<1>5. ASSUME NEW s, ToggleServer(s) PROVE page' = page /\ Owned' /\ ManageInv'
  <2>1. PICK c : c = [do |-> "toggle", about |-> s, here |-> TRUE, assigned |-> s \in ui.ids, saw |-> ui.ids,
                      mount |-> ui.mount, done |-> FALSE]
    OBVIOUS
  <2>2. /\ DOMAIN c = {"do", "about", "here", "assigned", "saw", "mount", "done"} /\ c.do = "toggle"
        /\ c.about = s
        /\ c.assigned = (s \in ui.ids) /\ c.mount = ui.mount /\ c.done = FALSE
    BY SMT, <2>1
  <2>3. Send(c, [ui EXCEPT !.pending = @ \cup {s}, !.clicks = @ + 1]) /\ s \notin ui.pending
    BY Zenon, <1>5, <2>1 DEF ToggleServer
  <2>4. page' = page /\ Owned'
    BY SMT, <1>1, <2>2, <2>3, SendOwns DEF Belongs
  <2>5. /\ DOMAIN ui' = ManageFields /\ ui'.open = ui.open /\ ui'.fresh = ui.fresh /\ ui'.mount = ui.mount
        /\ ui'.pending = ui.pending \cup {s}
        /\ ui'.ids = ui.ids /\ ui'.row = ui.row /\ flight' = flight \cup {c}
    BY Zenon, <1>1, <2>3 DEF Send, ManageFields
  <2>6. \A e \in flight' : {"do", "here", "about", "assigned", "mount", "done"} \subseteq DOMAIN e
    BY Zenon, <1>1, <2>2, <2>5 DEF ManageInv
  <2>7. ASSUME ui.open, ui.fresh
        PROVE  /\ \A e, g \in flight' : e.about = g.about => e = g
               /\ \A e \in flight' : /\ e.mount = ui.mount /\ e.about \in ui.pending \cup {s}
                                     /\ e.assigned <=> e.about \in ui.ids
                                     /\ e.about \in ui.row <=> (IF e.done THEN ~e.assigned ELSE e.assigned)
               /\ \A t : (\A e \in flight' : e.about # t) => (t \in ui.ids <=> t \in ui.row)
    <3>1. \A e \in flight : e.about # s
      BY Zenon, <1>1, <2>3, <2>7 DEF ManageInv
    <3>2. s \in ui.ids <=> s \in ui.row
      BY Zenon, <1>1, <2>7, <3>1 DEF ManageInv
    <3>3. \A e, g \in flight' : e.about = g.about => e = g
      BY Zenon, <1>1, <2>2, <2>5, <2>7, <3>1 DEF ManageInv
    <3>4. \A e \in flight' : /\ e.mount = ui.mount /\ e.about \in ui.pending \cup {s}
                             /\ e.assigned <=> e.about \in ui.ids
                             /\ e.about \in ui.row <=> (IF e.done THEN ~e.assigned ELSE e.assigned)
      BY Zenon, <1>1, <2>2, <2>5, <2>7, <3>2 DEF ManageInv
    <3>5. \A t : (\A e \in flight' : e.about # t) => (t \in ui.ids <=> t \in ui.row)
      BY Zenon, <1>1, <2>5, <2>7 DEF ManageInv
    <3> QED BY <3>3, <3>4, <3>5
  <2> QED BY Zenon, <2>4, <2>5, <2>6, <2>7 DEF ManageInv
<1>6. ASSUME NEW c \in flight, ToggleServed(c) PROVE page' = page /\ Owned' /\ ManageInv'
  <2>1. page' = page /\ Owned'
    BY Zenon, <1>6, GoesOnOwned DEF ToggleServed
  <2>2. PICK d : d = [c EXCEPT !.done = TRUE]
    OBVIOUS
  <2>3. DOMAIN d = DOMAIN c /\ d.about = c.about /\ d.mount = c.mount /\ d.assigned = c.assigned
          /\ d.done = TRUE
    BY Zenon, <1>1, <2>2 DEF ManageInv
  <2>4. /\ DOMAIN ui' = ManageFields /\ ui'.open = ui.open /\ ui'.fresh = ui.fresh /\ ui'.mount = ui.mount
        /\ ui'.pending = ui.pending
        /\ ui'.ids = ui.ids /\ ui'.row = Without(ui.row, c) /\ flight' = (flight \ {c}) \cup {d} /\ ~c.done
    BY Zenon, <1>1, <1>6, <2>2 DEF ToggleServed, ManageFields
  <2>5. \A e \in flight' : {"do", "here", "about", "assigned", "mount", "done"} \subseteq DOMAIN e
    BY Zenon, <1>1, <2>3, <2>4 DEF ManageInv
  <2>6. (c.about \in ui'.row <=> ~c.assigned) /\ \A t : t # c.about => (t \in ui'.row <=> t \in ui.row)
    BY Zenon, <2>4 DEF Without
  <2>7. ASSUME ui.open, ui.fresh
        PROVE  /\ \A e, g \in flight' : e.about = g.about => e = g
               /\ \A e \in flight' : /\ e.mount = ui.mount /\ e.about \in ui.pending
                                     /\ e.assigned <=> e.about \in ui.ids
                                     /\ e.about \in ui'.row <=> (IF e.done THEN ~e.assigned ELSE e.assigned)
               /\ \A t : (\A e \in flight' : e.about # t) => (t \in ui.ids <=> t \in ui'.row)
    <3>1. \A e \in flight \ {c} : e.about # c.about
      BY Zenon, <1>1, <2>7 DEF ManageInv
    <3>a. \A e, g \in flight : e.about = g.about => e = g
      BY Zenon, <1>1, <2>7 DEF ManageInv
    <3>2. ASSUME NEW e \in flight', NEW g \in flight', e.about = g.about PROVE e = g
      <4>1. (e = d \/ e \in flight \ {c}) /\ (g = d \/ g \in flight \ {c}) /\ d.about = c.about
        BY Zenon, <2>3, <2>4
      <4> QED BY Zenon, <3>1, <3>2, <3>a, <4>1
    <3>3. ASSUME NEW e \in flight'
          PROVE  /\ e.mount = ui.mount /\ e.about \in ui.pending
                 /\ e.assigned <=> e.about \in ui.ids
                 /\ e.about \in ui'.row <=> (IF e.done THEN ~e.assigned ELSE e.assigned)
      <4>1. CASE e = d
        BY Zenon, <1>1, <2>3, <2>6, <2>7, <4>1 DEF ManageInv
      <4>2. CASE e \in flight \ {c}
        BY Zenon, <1>1, <2>6, <2>7, <3>1, <4>2 DEF ManageInv
      <4> QED BY Zenon, <2>4, <4>1, <4>2
    <3>4. \A t : (\A e \in flight' : e.about # t) => (t \in ui.ids <=> t \in ui'.row)
      BY Zenon, <1>1, <2>3, <2>4, <2>6, <2>7 DEF ManageInv
    <3> QED BY Zenon, <3>2, <3>3, <3>4
  <2> QED BY Zenon, <2>1, <2>4, <2>5, <2>7 DEF ManageInv
<1>7. ASSUME NEW c \in flight, ToggleAnswered(c) PROVE page' = page /\ Owned' /\ ManageInv'
  <2>1. page' = page /\ Owned'
    BY Zenon, <1>7, TakeOwns DEF ToggleAnswered
  <2>2. /\ DOMAIN ui' = ManageFields /\ ui'.open = ui.open /\ ui'.fresh = ui.fresh /\ ui'.mount = ui.mount
        /\ ui'.row = ui.row
        /\ c.mount = ui.mount => ui'.pending = ui.pending \ {c.about} /\ ui'.ids = Without(ui.ids, c)
        /\ flight' = flight \ {c} /\ c.done
    BY Zenon, <1>1, <1>7 DEF ToggleAnswered, Take, ManageFields
  <2>3. ASSUME ui.open, ui.fresh
        PROVE  /\ \A e, g \in flight' : e.about = g.about => e = g
               /\ \A e \in flight' : /\ e.mount = ui.mount /\ e.about \in ui'.pending
                                     /\ e.assigned <=> e.about \in ui'.ids
                                     /\ e.about \in ui.row <=> (IF e.done THEN ~e.assigned ELSE e.assigned)
               /\ \A t : (\A e \in flight' : e.about # t) => (t \in ui'.ids <=> t \in ui.row)
    <3>1. \A e \in flight \ {c} : e.about # c.about
      BY Zenon, <1>1, <2>3 DEF ManageInv
    <3>2. c.mount = ui.mount /\ (c.about \in ui.row <=> ~c.assigned)
      BY Zenon, <1>1, <2>2, <2>3 DEF ManageInv
    <3>3. (c.about \in ui'.ids <=> ~c.assigned) /\ \A t : t # c.about => (t \in ui'.ids <=> t \in ui.ids)
      BY Zenon, <2>2, <3>2 DEF Without
    <3>4. \A t : t # c.about /\ t \in ui.pending => t \in ui'.pending
      BY Zenon, <2>2, <3>2
    <3>5. \A e, g \in flight' : e.about = g.about => e = g
      BY Zenon, <1>1, <2>2, <2>3 DEF ManageInv
    <3>6. \A e \in flight' : /\ e.mount = ui.mount /\ e.about \in ui'.pending
                             /\ e.assigned <=> e.about \in ui'.ids
                             /\ e.about \in ui.row <=> (IF e.done THEN ~e.assigned ELSE e.assigned)
      BY Zenon, <1>1, <2>2, <2>3, <3>1, <3>3, <3>4 DEF ManageInv
    <3>7. \A t : (\A e \in flight' : e.about # t) => (t \in ui'.ids <=> t \in ui.row)
      BY Zenon, <1>1, <2>2, <2>3, <3>2, <3>3 DEF ManageInv
    <3> QED BY <3>5, <3>6, <3>7
  <2> QED BY Zenon, <1>1, <2>1, <2>2, <2>3 DEF ManageInv
<1>8. ASSUME NEW c \in flight, ToggleFails(c) PROVE page' = page /\ Owned' /\ ManageInv'
  <2>1. page' = page /\ Owned'
    BY Zenon, <1>8, TakeOwns DEF ToggleFails
  <2>2. /\ DOMAIN ui' = ManageFields /\ ui'.open = ui.open /\ ui'.mount = ui.mount /\ ui'.row = ui.row
        /\ ui'.ids = ui.ids
        /\ c.mount = ui.mount => ui'.pending = ui.pending \ {c.about} /\ ui'.fresh = (ui.fresh /\ ~c.done)
        /\ c.mount # ui.mount => ui'.fresh = ui.fresh
        /\ flight' = flight \ {c}
    BY Zenon, <1>1, <1>8 DEF ToggleFails, Take, ManageFields
  <2>3. ASSUME ui.open, ui'.fresh
        PROVE  /\ \A e, g \in flight' : e.about = g.about => e = g
               /\ \A e \in flight' : /\ e.mount = ui.mount /\ e.about \in ui'.pending
                                     /\ e.assigned <=> e.about \in ui.ids
                                     /\ e.about \in ui.row <=> (IF e.done THEN ~e.assigned ELSE e.assigned)
               /\ \A t : (\A e \in flight' : e.about # t) => (t \in ui.ids <=> t \in ui.row)
    <3>1. ui.fresh
      BY Zenon, <2>2, <2>3
    <3>2. c.mount = ui.mount /\ ~c.done /\ (c.about \in ui.row <=> c.about \in ui.ids)
      BY Zenon, <1>1, <2>2, <2>3, <3>1 DEF ManageInv
    <3>3. \A e \in flight \ {c} : e.about # c.about
      BY Zenon, <1>1, <2>3, <3>1 DEF ManageInv
    <3>4. \A e, g \in flight' : e.about = g.about => e = g
      BY Zenon, <1>1, <2>2, <2>3, <3>1 DEF ManageInv
    <3>5. \A e \in flight' : /\ e.mount = ui.mount /\ e.about \in ui'.pending
                             /\ e.assigned <=> e.about \in ui.ids
                             /\ e.about \in ui.row <=> (IF e.done THEN ~e.assigned ELSE e.assigned)
      BY Zenon, <1>1, <2>2, <2>3, <3>1, <3>2, <3>3 DEF ManageInv
    <3>6. \A t : (\A e \in flight' : e.about # t) => (t \in ui.ids <=> t \in ui.row)
      BY Zenon, <1>1, <2>2, <2>3, <3>1, <3>2 DEF ManageInv
    <3> QED BY <3>4, <3>5, <3>6
  <2> QED BY Zenon, <1>1, <2>1, <2>2, <2>3 DEF ManageInv
<1> QED BY Zenon, <1>1, <1>2, <1>3, <1>4, <1>5, <1>6, <1>7, <1>8 DEF ManageUser, ManageStep

\* The page opens with the dialog closed.
LEMMA ManageOpens ==
  ASSUME OpenManagePage PROVE page' = "manageServers" /\ Owned' /\ ManageInv'
<1>1. page' = "manageServers" /\ ui' = ManageInit /\ flight' = {} /\ Owned'
  BY Zenon, OpensCleanly DEF OpenManagePage, Elsewhere
<1> QED BY SMT, <1>1 DEF ManageInv, ManageInit, ManageFields

\* So the dialog shows the assignments that are stored.
LEMMA ManageShows == ASSUME page = "manageServers" => ManageInv PROVE AssignmentsShown
<1>1. ASSUME OnManage, ui.open, ui.fresh, flight = {} PROVE \A s : s \in ui.ids <=> s \in ui.row
  BY Zenon, <1>1 DEF ManageInv, OnManage
<1> QED BY <1>1 DEF AssignmentsShown

-----------------------------------------------------------------------------
\* The button that seeds roles (SeedRolesButton).
SeedFields == {"roles", "listed", "seeding", "mount", "clicks", "careless"}

\* Unless the button was used again before its list was refetched, a seeding in flight makes only
\* roles that are missing, and no role is there twice.
SeedInv ==
  /\ DOMAIN ui = SeedFields
  /\ ui.roles \in [Archetypes -> Nat]
  /\ \A c \in flight : {"do", "here", "about"} \subseteq DOMAIN c /\ c.about \subseteq Archetypes
  /\ ~ui.careless =>
       /\ \A c, e \in flight : c = e
       /\ \A c \in flight : \A a \in c.about : ui.roles[a] = 0
       /\ \A a \in Archetypes : ui.roles[a] <= 1

\* Clicking, the answers, refetches and remounting keep the invariant.
LEMMA SeedKeeps ==
  ASSUME Owned, page = "seedRoles" => SeedInv, SeedUser \/ SeedStep
  PROVE  page = "seedRoles" /\ page' = page /\ Owned' /\ SeedInv'
<1>1. page = "seedRoles" /\ SeedInv /\ DOMAIN ui = SeedFields
  BY Zenon, Caller
     DEF SeedUser, SeedStep, SeedRoles, RemountSeed, RolesRefetched, SeedNext, SeedDone, OnSeed, SeedInv
<1>2. InFlight("seed") = flight
  BY SMT, <1>1 DEF InFlight, Owned, Belongs, DialogPages, Away, Elsewhere
<1>3. ASSUME RemountSeed \/ RolesRefetched PROVE page' = page /\ Owned' /\ SeedInv'
  <2>1. page' = page /\ Owned'
    BY Zenon, <1>3, SetOwns DEF RemountSeed, RolesRefetched
  <2>2. DOMAIN ui' = SeedFields /\ ui'.roles = ui.roles /\ ui'.careless = ui.careless /\ flight' = flight
    BY Zenon, <1>1, <1>3 DEF RemountSeed, RolesRefetched, Set, SeedFields
  <2> QED BY Zenon, <1>1, <2>1, <2>2 DEF SeedInv
<1>4. ASSUME SeedRoles PROVE page' = page /\ Owned' /\ SeedInv'
  <2>1. PICK c : c = [do |-> "seed", about |-> Missing(ui), here |-> TRUE, mount |-> ui.mount]
    OBVIOUS
  <2>2. DOMAIN c = {"do", "about", "here", "mount"} /\ c.do = "seed" /\ c.about = Archetypes \ ui.listed
    BY SMT, <2>1 DEF Missing
  <2>3. Send(c, [ui EXCEPT !.seeding = TRUE, !.clicks = @ + 1,
                           !.careless = @ \/ ui.listed # Existing(ui) \/ InFlight("seed") # {}])
    BY Zenon, <1>4, <2>1 DEF SeedRoles
  <2>4. page' = page /\ Owned'
    BY SMT, <1>1, <2>2, <2>3, SendOwns DEF Belongs
  <2>5. /\ DOMAIN ui' = SeedFields /\ ui'.roles = ui.roles /\ flight' = flight \cup {c}
        /\ ui'.careless = (ui.careless \/ ui.listed # Existing(ui) \/ flight # {})
    BY Zenon, <1>1, <1>2, <2>3 DEF Send, SeedFields
  <2>6. \A e \in flight' : {"do", "here", "about"} \subseteq DOMAIN e /\ e.about \subseteq Archetypes
    BY Zenon, <1>1, <2>2, <2>5 DEF SeedInv
  <2>7. ASSUME ~ui'.careless
        PROVE  /\ \A e, g \in flight' : e = g
               /\ \A e \in flight' : \A a \in e.about : ui.roles[a] = 0
               /\ \A a \in Archetypes : ui.roles[a] <= 1
    <3>1. ~ui.careless /\ ui.listed = Existing(ui) /\ flight = {}
      BY Zenon, <2>5, <2>7
    <3>2. \A a \in c.about : ui.roles[a] = 0
      BY SMT, <1>1, <2>2, <3>1 DEF SeedInv, Existing
    <3> QED BY Zenon, <1>1, <2>5, <3>1, <3>2 DEF SeedInv
  <2> QED BY Zenon, <1>1, <2>4, <2>5, <2>6, <2>7 DEF SeedInv
<1>5. ASSUME NEW c \in flight, SeedNext(c) PROVE page' = page /\ Owned' /\ SeedInv'
  <2>1. PICK a \in c.about, made \in {0, 1} :
          /\ ui' = [ui EXCEPT !.roles[a] = @ + made]
          /\ flight' = (flight \ {c}) \cup {[c EXCEPT !.about = @ \ {a}]}
          /\ page' = page
    BY Zenon, <1>5 DEF SeedNext
  <2>2. PICK d : d = [c EXCEPT !.about = @ \ {a}]
    OBVIOUS
  <2>3. DOMAIN d = DOMAIN c /\ d.about = c.about \ {a}
    BY Zenon, <1>1, <2>2 DEF SeedInv
  <2>4. Owned'
    <3>1. d = [c EXCEPT !["about"] = c.about \ {a}]
      BY Zenon, <1>1, <2>2 DEF SeedInv
    <3> QED BY Zenon, <2>1, <2>2, <3>1, GoesOnOwned
  <2>5. /\ DOMAIN ui' = SeedFields /\ ui'.roles = [ui.roles EXCEPT ![a] = @ + made]
        /\ ui'.careless = ui.careless /\ flight' = (flight \ {c}) \cup {d}
    BY Zenon, <1>1, <2>1, <2>2 DEF SeedFields
  <2>6. a \in Archetypes /\ ui.roles \in [Archetypes -> Nat]
    BY Zenon, <1>1 DEF SeedInv
  <2>7. /\ ui'.roles \in [Archetypes -> Nat]
        /\ \A b \in Archetypes : ui'.roles[b] = IF b = a THEN ui.roles[a] + made ELSE ui.roles[b]
    BY SMT, <2>5, <2>6
  <2>8. \A e \in flight' : {"do", "here", "about"} \subseteq DOMAIN e /\ e.about \subseteq Archetypes
    BY Zenon, <1>1, <2>3, <2>5 DEF SeedInv
  <2>9. ASSUME ~ui.careless
        PROVE  /\ \A e, g \in flight' : e = g
               /\ \A e \in flight' : \A b \in e.about : ui'.roles[b] = 0
               /\ \A b \in Archetypes : ui'.roles[b] <= 1
    <3>1. flight' = {d}
      BY Zenon, <1>1, <2>5, <2>9 DEF SeedInv
    <3>2. (\A b \in c.about : b \in Archetypes /\ ui.roles[b] = 0) /\ \A b \in Archetypes : ui.roles[b] <= 1
      BY Zenon, <1>1, <2>9 DEF SeedInv
    <3>3. \A b \in d.about : ui'.roles[b] = 0
      BY Zenon, <2>3, <2>7, <3>2
    <3>4. \A b \in Archetypes : ui'.roles[b] <= 1
      BY SMT, <2>7, <3>2
    <3> QED BY Zenon, <3>1, <3>3, <3>4
  <2> QED BY Zenon, <2>1, <2>4, <2>5, <2>7, <2>8, <2>9 DEF SeedInv
<1>6. ASSUME NEW c \in flight, SeedDone(c) PROVE page' = page /\ Owned' /\ SeedInv'
  <2>1. page' = page /\ Owned'
    BY Zenon, <1>6, TakeOwns DEF SeedDone
  <2>2. DOMAIN ui' = SeedFields /\ ui'.roles = ui.roles /\ ui'.careless = ui.careless
          /\ flight' = flight \ {c}
    BY Zenon, <1>1, <1>6 DEF SeedDone, Take, SeedFields
  <2> QED BY Zenon, <1>1, <2>1, <2>2 DEF SeedInv
<1> QED BY Zenon, <1>1, <1>3, <1>4, <1>5, <1>6 DEF SeedUser, SeedStep

\* The page opens with one role at most.
LEMMA SeedOpens ==
  ASSUME OpenSeed PROVE page' = "seedRoles" /\ Owned' /\ SeedInv'
<1>1. PICK a : Open("seedRoles", [SeedInit EXCEPT !.roles = [b \in Archetypes |-> IF b = a THEN 1 ELSE 0]])
  BY Zenon DEF OpenSeed
<1>a. PICK u : u = [SeedInit EXCEPT !.roles = [b \in Archetypes |-> IF b = a THEN 1 ELSE 0]]
  OBVIOUS
<1>2. page' = "seedRoles" /\ Owned' /\ flight' = {} /\ ui' = u
  BY SMT, <1>1, <1>a, OpensCleanly DEF Elsewhere
<1>3. DOMAIN ui' = SeedFields /\ ui'.roles = [b \in Archetypes |-> IF b = a THEN 1 ELSE 0]
  BY SMT, <1>2, <1>a DEF SeedInit, SeedFields
<1>4. ui'.roles \in [Archetypes -> Nat] /\ \A b \in Archetypes : ui'.roles[b] <= 1
  BY SMT, <1>3
<1> QED BY Zenon, <1>2, <1>3, <1>4 DEF SeedInv

\* So each role is seeded once.
LEMMA SeedShows == ASSUME page = "seedRoles" => SeedInv PROVE SeededOnce
  BY Zenon DEF SeedInv, SeededOnce, OnSeed

-----------------------------------------------------------------------------
\* The search page.
\* The results that are shown can be counted, and depend on the kind, the query that was
\* debounced and the servers only.
LEMMA FlatIsNat == ASSUME NEW u, u.listed \in Nat PROVE FlatResults(u) \in Nat
<1>1. ChosenCap \in Nat /\ GroupCap \in Nat
  BY Zenon, SearchAssumption
<1>2. ASSUME NEW k PROVE Shown(u, k) \in Nat
  <2>1. PICK all : all = AllResults(u, k)
    OBVIOUS
  <2>2. all \in Nat
    <3>1. 0 \in Nat /\ 2 \in Nat
      BY SMT
    <3> QED BY Zenon, <2>1, <3>1 DEF AllResults
  <2>3. PICK cap \in Nat : cap = IF u.kind = k THEN ChosenCap ELSE GroupCap
    BY Zenon, <1>1
  <2>4. Shown(u, k) = MathMin(cap, all)
    BY Zenon, <2>1, <2>3 DEF Shown
  <2> QED BY Zenon, <2>2, <2>3, <2>4 DEF MathMin
<1>3. \A m, n \in Nat : m + n \in Nat
  BY SMT
<1> QED BY Zenon, <1>2, <1>3 DEF FlatResults

\* They depend on the kind, the debounced query and the servers only.
LEMMA FlatDepends ==
  ASSUME NEW u, NEW v, u.kind = v.kind, u.debounced = v.debounced, u.listed = v.listed
  PROVE  FlatResults(u) = FlatResults(v)
  BY Zenon DEF FlatResults, Shown, AllResults

\* The address follows the debounced query, and the highlight is on a result.
SearchFields ==
  {"query", "debounced", "timer", "kind", "selected", "listed", "url", "moved"}

OnResult(u) == ~u.moved /\ FlatResults(u) > 0 => u.selected + 1 \in 1 .. FlatResults(u)

SearchSound(u) ==
  /\ DOMAIN u = SearchFields /\ u.listed \in Nat /\ u.selected \in Int
  /\ u.url = u.debounced /\ (~u.timer => u.debounced = u.query)
  /\ OnResult(u)

SearchInv == SearchSound(ui)

\* The first result is highlighted.
LEMMA FirstResult == ASSUME NEW u, u.listed \in Nat, u.selected = 0 PROVE OnResult(u) /\ u.selected \in Int
<1>1. FlatResults(u) \in Nat
  BY Zenon, FlatIsNat
<1>2. 0 \in Int /\ \A n \in Nat : n > 0 => 0 + 1 \in 1 .. n
  BY SMT
<1> QED BY Zenon, <1>1, <1>2 DEF OnResult

\* A highlight that is where it was is on a result as before.
LEMMA SameResult ==
  ASSUME NEW u, NEW v, OnResult(u), v.kind = u.kind, v.debounced = u.debounced, v.listed = u.listed,
         v.selected = u.selected, v.moved = u.moved
  PROVE  OnResult(v)
  BY Zenon, FlatDepends DEF OnResult

\* The effects on the debounced query.
LEMMA DebouncedKeeps ==
  ASSUME NEW u, SearchSound(u), NEW q
  PROVE  LET v == Debounced(u, q)
         IN  /\ DOMAIN v = SearchFields /\ v.listed = u.listed /\ v.selected \in Int
             /\ v.debounced = q /\ v.url = q /\ v.query = u.query /\ OnResult(v)
<1>1. CASE q = u.debounced
  BY Zenon, <1>1 DEF Debounced, SearchSound
<1>2. CASE q # u.debounced
  <2>1. PICK v : v = [u EXCEPT !.debounced = q, !.url = q, !.selected = 0, !.moved = FALSE]
    OBVIOUS
  <2>2. /\ DOMAIN v = SearchFields /\ v.listed = u.listed /\ v.selected = 0 /\ v.debounced = q
        /\ v.url = q /\ v.query = u.query
    BY Zenon, <2>1 DEF SearchFields, SearchSound
  <2>3. OnResult(v) /\ v.selected \in Int
    BY Zenon, <2>2, FirstResult DEF SearchSound
  <2>4. Debounced(u, q) = v
    BY Zenon, <1>2, <2>1 DEF Debounced
  <2> QED BY Zenon, <2>2, <2>3, <2>4
<1> QED BY Zenon, <1>1, <1>2

\* Typing, the timer, the filters, the keyboard, the pointer and refetches keep that.
LEMMA SearchKeeps ==
  ASSUME Owned, page = "search" => SearchInv, SearchUser \/ DebounceFires \/ SearchRefetched
  PROVE  page = "search" /\ Owned' /\ ((page' = page /\ SearchInv') \/ page' = Elsewhere)
<1>1. page = "search"
  BY Zenon
     DEF SearchUser, DebounceFires, SearchRefetched, SetSearchQuery, ChooseKind, ViewAll, ChooseAll,
         ClearSearch, SearchKey, HoverResult, OnSearch
<1>2. SearchSound(ui) /\ DOMAIN ui = SearchFields /\ ui.listed \in Nat
  BY Zenon, <1>1 DEF SearchInv, SearchSound
<1>3. ASSUME NEW u, Set(u), SearchSound(u)
      PROVE  page = "search" /\ Owned' /\ ((page' = page /\ SearchInv') \/ page' = Elsewhere)
  <2>1. page' = page /\ Owned'
    BY Zenon, <1>3, SetOwns
  <2>2. ui' = u
    BY Zenon, <1>3 DEF Set
  <2> QED BY Zenon, <1>1, <1>3, <2>1, <2>2 DEF SearchInv
<1>4. CASE \E q \in Queries : SetSearchQuery(q)
  <2>1. PICK q : Set([ui EXCEPT !.query = q, !.timer = TRUE])
    BY Zenon, <1>4 DEF SetSearchQuery
  <2>2. PICK u : u = [ui EXCEPT !.query = q, !.timer = TRUE]
    OBVIOUS
  <2>3. /\ DOMAIN u = SearchFields /\ u.listed = ui.listed /\ u.selected = ui.selected
        /\ u.url = ui.url /\ u.debounced = ui.debounced /\ u.timer = TRUE /\ u.kind = ui.kind
        /\ u.moved = ui.moved
    BY Zenon, <1>2, <2>2 DEF SearchFields
  <2>4. OnResult(u)
    BY Zenon, <1>2, <2>3, SameResult DEF SearchSound
  <2>5. SearchSound(u)
    BY Zenon, <1>2, <2>3, <2>4 DEF SearchSound
  <2> QED BY Zenon, <1>3, <2>1, <2>2, <2>5
<1>5. CASE DebounceFires \/ ClearSearch
  <2>1. PICK q, v : /\ v = Debounced(ui, q)
                    /\ \/ q = ui.query /\ Set([v EXCEPT !.timer = FALSE])
                       \/ q = 0 /\ Set([v EXCEPT !.query = 0, !.timer = TRUE])
    BY Zenon, <1>5 DEF DebounceFires, ClearSearch
  <2>2. PICK u : /\ Set(u)
                 /\ \/ q = ui.query /\ u = [v EXCEPT !.timer = FALSE]
                    \/ q = 0 /\ u = [v EXCEPT !.query = 0, !.timer = TRUE]
    BY Zenon, <2>1
  <2>3. /\ DOMAIN v = SearchFields /\ v.listed = ui.listed /\ v.selected \in Int /\ v.debounced = q
        /\ v.url = q /\ v.query = ui.query /\ OnResult(v)
    <3>1. v = Debounced(ui, q)
      BY Zenon, <2>1
    <3>2. SearchSound(ui)
      BY Zenon, <1>2
    <3> QED BY Zenon, <3>1, <3>2, DebouncedKeeps
  <2>4. /\ DOMAIN u = SearchFields /\ u.listed = v.listed /\ u.selected = v.selected
        /\ u.url = v.url /\ u.debounced = v.debounced /\ u.kind = v.kind /\ u.moved = v.moved
    BY Zenon, <2>2, <2>3 DEF SearchFields
  <2>5. ~u.timer => u.debounced = u.query
    BY Zenon, <2>2, <2>3, <2>4 DEF SearchFields
  <2>6. OnResult(u)
    BY Zenon, <2>3, <2>4, SameResult
  <2>7. SearchSound(u)
    BY Zenon, <1>2, <2>3, <2>4, <2>5, <2>6 DEF SearchSound
  <2> QED BY Zenon, <1>3, <2>2, <2>7
<1>6. CASE (\E k \in Values(Kinds) : ChooseKind(k) \/ ViewAll(k)) \/ ChooseAll
  <2>1. PICK k : Set([ui EXCEPT !.kind = k, !.selected = 0, !.moved = FALSE])
    BY Zenon, <1>6 DEF ChooseKind, ViewAll, ChooseAll
  <2>2. PICK u : u = [ui EXCEPT !.kind = k, !.selected = 0, !.moved = FALSE]
    OBVIOUS
  <2>3. /\ DOMAIN u = SearchFields /\ u.listed = ui.listed /\ u.selected = 0
        /\ u.url = ui.url /\ u.debounced = ui.debounced /\ u.timer = ui.timer /\ u.query = ui.query
    BY Zenon, <1>2, <2>2 DEF SearchFields
  <2>4. OnResult(u) /\ u.selected \in Int
    BY Zenon, <1>2, <2>3, FirstResult
  <2>5. SearchSound(u)
    BY Zenon, <1>2, <2>3, <2>4 DEF SearchSound
  <2> QED BY Zenon, <1>3, <2>1, <2>2, <2>5
<1>7. ASSUME NEW s \in Int, Set([ui EXCEPT !.selected = s]),
             ~ui.moved /\ FlatResults(ui) > 0 => s + 1 \in 1 .. FlatResults(ui)
      PROVE  page = "search" /\ Owned' /\ ((page' = page /\ SearchInv') \/ page' = Elsewhere)
  <2>1. PICK u : u = [ui EXCEPT !.selected = s]
    OBVIOUS
  <2>2. /\ DOMAIN u = SearchFields /\ u.listed = ui.listed /\ u.selected = s
        /\ u.url = ui.url /\ u.debounced = ui.debounced /\ u.timer = ui.timer /\ u.query = ui.query
        /\ u.kind = ui.kind /\ u.moved = ui.moved
    BY Zenon, <1>2, <2>1 DEF SearchFields
  <2>3. OnResult(u)
    BY Zenon, <1>7, <2>2, FlatDepends DEF OnResult
  <2>4. SearchSound(u)
    BY Zenon, <1>2, <1>7, <2>2, <2>3 DEF SearchSound
  <2> QED BY Zenon, <1>3, <1>7, <2>1, <2>4
<1>8. FlatResults(ui) \in Nat /\ ui.selected \in Int
  BY Zenon, <1>2, FlatIsNat DEF SearchSound
<1>9. CASE HoverResult
  <2>1. PICK i \in 1 .. FlatResults(ui) : Set([ui EXCEPT !.selected = i - 1])
    BY Zenon, <1>9 DEF HoverResult
  <2>2. i - 1 \in Int /\ i - 1 + 1 \in 1 .. FlatResults(ui)
    BY SMT, <1>8, <2>1
  <2> QED BY Zenon, <1>7, <2>1, <2>2
<1>10. CASE SearchKey
  <2>1. CASE Set([ui EXCEPT !.selected = ArrowDown(ui, FlatResults(ui))])
    <3>1. PICK s : s = ArrowDown(ui, FlatResults(ui))
      OBVIOUS
    <3>2. ui.selected + 1 \in Int /\ FlatResults(ui) - 1 \in Int
      BY SMT, <1>8
    <3>3. s = IF ui.selected + 1 <= FlatResults(ui) - 1 THEN ui.selected + 1 ELSE FlatResults(ui) - 1
      BY Zenon, <3>1 DEF ArrowDown, MathMin
    <3>4. s \in Int
      BY Zenon, <3>2, <3>3
    <3>5. ui.selected + 1 \in 1 .. FlatResults(ui) => s + 1 \in 1 .. FlatResults(ui)
      BY SMT, <1>8, <3>3
    <3>6. ~ui.moved /\ FlatResults(ui) > 0 => s + 1 \in 1 .. FlatResults(ui)
      BY Zenon, <1>2, <3>5 DEF SearchSound, OnResult
    <3> QED BY Zenon, <1>7, <2>1, <3>1, <3>4, <3>6
  <2>2. CASE Set([ui EXCEPT !.selected = ArrowUp(ui)])
    <3>1. PICK s : s = ArrowUp(ui)
      OBVIOUS
    <3>2. ui.selected - 1 \in Int /\ 0 \in Int
      BY SMT, <1>8
    <3>3. s = IF ui.selected - 1 >= 0 THEN ui.selected - 1 ELSE 0
      BY Zenon, <3>1 DEF ArrowUp, MathMax
    <3>4. s \in Int
      BY Zenon, <3>2, <3>3
    <3>5. ui.selected + 1 \in 1 .. FlatResults(ui) => s + 1 \in 1 .. FlatResults(ui)
      BY SMT, <1>8, <3>3
    <3>6. ~ui.moved /\ FlatResults(ui) > 0 => s + 1 \in 1 .. FlatResults(ui)
      BY Zenon, <1>2, <3>5 DEF SearchSound, OnResult
    <3> QED BY Zenon, <1>7, <2>2, <3>1, <3>4, <3>6
  <2>3. CASE Open(Elsewhere, [none |-> TRUE])
    BY Zenon, <1>1, <2>3, OpenOwns
  <2> QED BY Zenon, <1>10, <2>1, <2>2, <2>3 DEF SearchKey
<1>11. CASE SearchRefetched
  <2>1. PICK n \in 0 .. MaxListed : Set([ui EXCEPT !.listed = n, !.moved = TRUE])
    BY Zenon, <1>11 DEF SearchRefetched
  <2>2. PICK u : u = [ui EXCEPT !.listed = n, !.moved = TRUE]
    OBVIOUS
  <2>3. /\ DOMAIN u = SearchFields /\ u.listed = n /\ u.selected = ui.selected /\ u.moved = TRUE
        /\ u.url = ui.url /\ u.debounced = ui.debounced /\ u.timer = ui.timer /\ u.query = ui.query
    BY Zenon, <1>2, <2>2 DEF SearchFields
  <2>4. n \in Nat
    BY SMT, <2>1
  <2>5. SearchSound(u)
    BY Zenon, <1>2, <2>3, <2>4 DEF SearchSound, OnResult
  <2> QED BY Zenon, <1>3, <2>1, <2>2, <2>5
<1> QED BY Zenon, <1>4, <1>5, <1>6, <1>9, <1>10, <1>11 DEF SearchUser

\* The page opens on the query of its address, with the first result highlighted.
LEMMA SearchOpens == ASSUME OpenSearch PROVE page' = "search" /\ Owned' /\ SearchInv'
<1>1. PICK q, u : /\ u = [SearchInit EXCEPT !.query = q, !.debounced = q, !.url = q]
                              /\ Open("search", u)
  BY Zenon DEF OpenSearch
<1>2. page' = "search" /\ ui' = u /\ Owned'
  BY SMT, <1>1, OpensCleanly DEF Elsewhere
<1>3. DOMAIN SearchInit = SearchFields /\ SearchInit.listed = 0 /\ SearchInit.selected = 0
  BY Zenon DEF SearchInit, SearchFields
<1>4. /\ DOMAIN u = SearchFields /\ u.listed = 0 /\ u.selected = 0 /\ u.url = q /\ u.debounced = q
      /\ u.query = q
  BY Zenon, <1>1, <1>3 DEF SearchFields
<1>5. 0 \in Nat
  BY SMT
<1>6. SearchSound(u)
  BY Zenon, <1>4, <1>5, FirstResult DEF SearchSound
<1> QED BY Zenon, <1>2, <1>6 DEF SearchInv

\* So once the user stops typing the page is settled.
LEMMA SearchShows == ASSUME page = "search" => SearchInv PROVE SearchSettles
  BY Zenon DEF SearchInv, SearchSound, OnResult, SearchSettles, OnSearch

-----------------------------------------------------------------------------
\* Saved searches (dashboard/audit): each holds the filters that it was saved with, and no id
\* is used twice.
SearchesFields ==
  {"filters", "page", "saved", "menu", "naming", "made", "meant", "chosen", "leafed"}

SearchesInv ==
  /\ DOMAIN ui = SearchesFields /\ ui.made \in 0 .. MaxSaved /\ DOMAIN ui.meant = 1 .. MaxSaved
  /\ \A s \in ui.saved : s.filters = ui.meant[s.id] /\ s.id \in 1 .. ui.made
  /\ ui.chosen \in 0 .. ui.made
  /\ ui.chosen # 0 => ui.filters = ui.meant[ui.chosen]
  /\ ui.page # 0 => ui.filters = ui.leafed

\* What a step leaves alone.
SavedAlone(u) ==
  /\ DOMAIN u = SearchesFields /\ u.made = ui.made /\ u.meant = ui.meant /\ u.saved \subseteq ui.saved

\* Filtering, leafing, saving, using and deleting searches, in any order, keep that.
LEMMA SearchesKeep ==
  ASSUME Owned, page = "searches" => SearchesInv, SearchesUser
  PROVE  page = "searches" /\ page' = page /\ Owned' /\ SearchesInv'
<1>1. page = "searches" /\ page' = page /\ Owned'
  BY Zenon, SetOwns
     DEF SearchesUser, SetFilter, ClearAll, TurnPage, ToggleMenu, AskName, SaveSearch, ApplySearch,
         DeleteSearch, OnSearches
<1>2. SearchesInv /\ DOMAIN ui = SearchesFields
  BY Zenon, <1>1 DEF SearchesInv
<1>3. ASSUME SavedAlone(ui'), ui'.chosen \in {0, ui.chosen} \cup {s.id : s \in ui.saved},
             ui'.chosen # 0 => ui'.filters = ui.meant[ui'.chosen],
             ui'.page # 0 => ui'.filters = ui'.leafed
      PROVE  SearchesInv'
  <2>1. 0 \in 0 .. ui.made /\ \A i \in 1 .. ui.made : i \in 0 .. ui.made
    BY SMT, <1>2 DEF SearchesInv
  <2>2. ui'.chosen \in 0 .. ui.made
    BY Zenon, <1>2, <1>3, <2>1 DEF SearchesInv
  <2> QED BY Zenon, <1>2, <1>3, <2>2 DEF SearchesInv, SavedAlone
<1>4. CASE SetFilter
  <2>1. PICK f, v : ui' = [ui EXCEPT !.filters[f] = v, !.page = 0, !.chosen = 0]
    BY Zenon, <1>4 DEF SetFilter, Set
  <2>2. /\ DOMAIN ui' = SearchesFields /\ ui'.made = ui.made /\ ui'.meant = ui.meant
        /\ ui'.saved = ui.saved /\ ui'.chosen = 0 /\ ui'.page = 0
    BY Zenon, <1>2, <2>1 DEF SearchesFields
  <2> QED BY Zenon, <1>1, <1>3, <2>2 DEF SavedAlone
<1>5. CASE ClearAll
  <2>1. ui' = [ui EXCEPT !.filters = EmptyFilters, !.page = 0, !.chosen = 0]
    BY Zenon, <1>5 DEF ClearAll, Set
  <2>2. /\ DOMAIN ui' = SearchesFields /\ ui'.made = ui.made /\ ui'.meant = ui.meant
        /\ ui'.saved = ui.saved /\ ui'.chosen = 0 /\ ui'.page = 0
    BY Zenon, <1>2, <2>1 DEF SearchesFields
  <2> QED BY Zenon, <1>1, <1>3, <2>2 DEF SavedAlone
<1>6. CASE TurnPage
  <2>1. PICK p : ui' = [ui EXCEPT !.page = p, !.leafed = ui.filters]
    BY Zenon, <1>6 DEF TurnPage, Set
  <2>2. /\ DOMAIN ui' = SearchesFields /\ ui'.made = ui.made /\ ui'.meant = ui.meant
        /\ ui'.saved = ui.saved /\ ui'.chosen = ui.chosen /\ ui'.filters = ui.filters
        /\ ui'.leafed = ui.filters
    BY Zenon, <1>2, <2>1 DEF SearchesFields
  <2> QED BY Zenon, <1>1, <1>2, <1>3, <2>2 DEF SavedAlone, SearchesInv
<1>7. CASE ToggleMenu \/ AskName \/ DeleteSearch
  <2>1. PICK s : ui' \in {[ui EXCEPT !.menu = ~@], [ui EXCEPT !.naming = TRUE],
                          [ui EXCEPT !.saved = {x \in @ : x.id # s.id}]}
    BY Zenon, <1>7 DEF ToggleMenu, AskName, DeleteSearch, Set
  <2>2. /\ DOMAIN ui' = SearchesFields /\ ui'.made = ui.made /\ ui'.meant = ui.meant
        /\ ui'.chosen = ui.chosen /\ ui'.filters = ui.filters
        /\ ui'.leafed = ui.leafed /\ ui'.page = ui.page
    BY Zenon, <1>2, <2>1 DEF SearchesFields
  <2>3. ui'.saved \subseteq ui.saved
    BY Zenon, <1>2, <2>1 DEF SearchesFields
  <2> QED BY Zenon, <1>1, <1>2, <1>3, <2>2, <2>3 DEF SavedAlone, SearchesInv
<1>8. CASE SaveSearch
  <2>1. PICK id, now : id = ui.made + 1 /\ now = [id |-> id, filters |-> ui.filters]
    BY Zenon
  <2>2. /\ ui' = [ui EXCEPT !.saved = @ \cup {now}, !.naming = FALSE, !.made = id,
                            !.meant[id] = ui.filters]
        /\ ui.made < MaxSaved
    BY Zenon, <1>8, <2>1 DEF SaveSearch, Set
  <2>3. /\ DOMAIN ui' = SearchesFields /\ ui'.made = id
        /\ ui'.meant = [ui.meant EXCEPT ![id] = ui.filters]
        /\ ui'.saved = ui.saved \cup {now} /\ ui'.chosen = ui.chosen /\ ui'.filters = ui.filters
        /\ ui'.leafed = ui.leafed /\ ui'.page = ui.page
    BY Zenon, <1>2, <2>2 DEF SearchesFields
  <2>4. ui.made \in 0 .. MaxSaved /\ MaxSaved \in Nat
    BY Zenon, <1>2, AuditAssumption DEF SearchesInv
  <2>5. /\ id \in 0 .. MaxSaved /\ id \in 1 .. MaxSaved /\ id \in 1 .. id /\ id # 0
        /\ \A i \in 1 .. ui.made : i \in 1 .. id /\ i # id
        /\ \A i \in 0 .. ui.made : i \in 0 .. id /\ i # id
    BY SMT, <2>1, <2>2, <2>4
  <2>6. DOMAIN ui.meant = 1 .. MaxSaved
    BY Zenon, <1>2 DEF SearchesInv
  <2>7. /\ DOMAIN ui'.meant = 1 .. MaxSaved /\ ui'.meant[id] = ui.filters
        /\ \A i \in 1 .. ui.made : ui'.meant[i] = ui.meant[i]
    <3>1. \A i \in 1 .. ui.made : i \in 1 .. MaxSaved
      BY SMT, <2>4
    <3> QED BY Zenon, <2>3, <2>5, <2>6, <3>1
  <2>8. now.id = id /\ now.filters = ui.filters
    BY Zenon, <2>1
  <2>9. \A s \in ui'.saved : s.filters = ui'.meant[s.id] /\ s.id \in 1 .. ui'.made
    BY Zenon, <1>2, <2>3, <2>5, <2>7, <2>8 DEF SearchesInv
  <2>10. ui'.chosen # 0 => ui'.chosen \in 1 .. ui.made
    <3>1. ui.chosen \in 0 .. ui.made
      BY Zenon, <1>2 DEF SearchesInv
    <3> QED BY SMT, <2>3, <2>4, <3>1
  <2>11. /\ ui'.chosen \in 0 .. ui'.made
         /\ ui'.chosen # 0 => ui'.filters = ui'.meant[ui'.chosen]
    BY Zenon, <1>2, <2>3, <2>5, <2>7, <2>10 DEF SearchesInv
  <2>12. ui'.page # 0 => ui'.filters = ui'.leafed
    BY Zenon, <1>2, <2>3 DEF SearchesInv
  <2> QED BY Zenon, <1>1, <2>3, <2>5, <2>7, <2>9, <2>11, <2>12 DEF SearchesInv
<1>9. CASE ApplySearch
  <2>1. PICK s \in ui.saved : ui' = [SearchApplied(ui, s) EXCEPT !.chosen = s.id]
    BY Zenon, <1>9 DEF ApplySearch, Set
  <2>2. PICK u : u = SearchApplied(ui, s)
    OBVIOUS
  <2>3. /\ DOMAIN u = SearchesFields /\ u.made = ui.made /\ u.meant = ui.meant
        /\ u.saved = ui.saved /\ u.filters = s.filters /\ u.page = 0
    BY Zenon, <1>2, <2>2 DEF SearchApplied, SearchesFields
  <2>4. /\ DOMAIN ui' = SearchesFields /\ ui'.made = ui.made /\ ui'.meant = ui.meant
        /\ ui'.saved = ui.saved /\ ui'.filters = s.filters /\ ui'.page = 0 /\ ui'.chosen = s.id
    BY Zenon, <2>1, <2>2, <2>3 DEF SearchesFields
  <2>5. s.filters = ui.meant[s.id]
    BY Zenon, <1>2, <2>1 DEF SearchesInv
  <2> QED BY Zenon, <1>1, <1>3, <2>4, <2>5 DEF SavedAlone
<1> QED BY Zenon, <1>4, <1>5, <1>6, <1>7, <1>8, <1>9 DEF SearchesUser

\* The page opens with no search saved.
LEMMA SearchesOpens == ASSUME OpenSearches PROVE page' = "searches" /\ Owned' /\ SearchesInv'
<1>1. page' = "searches" /\ ui' = SearchesInit /\ Owned'
  BY SMT, OpensCleanly DEF OpenSearches, Elsewhere
<1>2. PICK meant : meant = [s \in 1 .. MaxSaved |-> EmptyFilters]
  OBVIOUS
<1>3. PICK u : u = [filters |-> EmptyFilters, page |-> 0, saved |-> {}, menu |-> FALSE, naming |-> FALSE,
                    made |-> 0, meant |-> meant, chosen |-> 0, leafed |-> EmptyFilters]
  OBVIOUS
<1>4. ui' = u
  BY Zenon, <1>1, <1>2, <1>3 DEF SearchesInit
<1>5. /\ DOMAIN u = SearchesFields /\ u.page = 0 /\ u.saved = {} /\ u.made = 0 /\ u.meant = meant
      /\ u.chosen = 0 /\ DOMAIN meant = 1 .. MaxSaved
  BY Zenon, <1>2, <1>3 DEF SearchesFields
<1>6. 0 \in 0 .. MaxSaved /\ 0 \in 0 .. 0
  BY SMT, AuditAssumption
<1> QED BY Zenon, <1>1, <1>4, <1>5, <1>6 DEF SearchesInv

\* So a saved search brings back its filters.
LEMMA SearchesShow == ASSUME page = "searches" => SearchesInv PROVE SearchesRestore
  BY Zenon DEF SearchesInv, SearchesRestore, OnSearches

\* Compliance mode (dashboard/audit).
RecordsFields == {"event", "compliance", "open", "exported"}

RecordsInv ==
  /\ DOMAIN ui = RecordsFields /\ ui.event \in OrgEvents
  /\ \A x \in ui.exported : x.compliance => {x.row.actor, x.row.ip} \subseteq Hidden

\* In compliance mode an event's actor and address are hidden in any row and drawer.
LEMMA RedactsAll ==
  ASSUME NEW u, u.event \in OrgEvents, u.compliance
  PROVE  /\ TableActor(u) \in Hidden /\ DrawerFields(u).actor \in Hidden /\ DrawerFields(u).ip \in Hidden
         /\ CsvRow(u).actor \in Hidden /\ CsvRow(u).ip \in Hidden
<1>1. /\ u.event.actor \in {"short", "long"} /\ u.event.ip \in {"none", "short", "long"}
      /\ u.event.actorType = "api_key"
  BY Zenon DEF OrgEvents
<1>2. /\ Redact(u.event.actor, u.compliance /\ u.event.actorType = "api_key") \in Hidden
      /\ Redact(u.event.ip, u.compliance) \in Hidden
  BY Zenon, <1>1 DEF Redact, Hidden
<1> QED BY Zenon, <1>2 DEF TableActor, DrawerFields, CsvRow

\* Switching the mode, opening and closing the drawer and exporting keep that.
LEMMA RecordsKeep ==
  ASSUME Owned, page = "records" => RecordsInv, RecordsUser
  PROVE  page = "records" /\ page' = page /\ Owned' /\ RecordsInv'
<1>1. page = "records" /\ page' = page /\ Owned'
  BY Zenon, SetOwns DEF RecordsUser, ToggleCompliance, SelectEvent, CloseDrawer, ExportCsv, OnRecords
<1>2. RecordsInv /\ DOMAIN ui = RecordsFields
  BY Zenon, <1>1 DEF RecordsInv
<1>3. CASE ToggleCompliance \/ SelectEvent \/ CloseDrawer
  <2>1. ui' \in {[ui EXCEPT !.compliance = ~@], [ui EXCEPT !.open = TRUE], [ui EXCEPT !.open = FALSE]}
    BY Zenon, <1>3 DEF ToggleCompliance, SelectEvent, CloseDrawer, Set
  <2>2. DOMAIN ui' = RecordsFields /\ ui'.event = ui.event /\ ui'.exported = ui.exported
    BY Zenon, <1>2, <2>1 DEF RecordsFields
  <2> QED BY Zenon, <1>1, <1>2, <2>2 DEF RecordsInv
<1>4. CASE ExportCsv
  <2>1. PICK x : x = [compliance |-> ui.compliance, row |-> CsvRow(ui)]
    OBVIOUS
  <2>2. ui' = [ui EXCEPT !.exported = @ \cup {x}]
    BY Zenon, <1>4, <2>1 DEF ExportCsv, Set
  <2>3. DOMAIN ui' = RecordsFields /\ ui'.event = ui.event /\ ui'.exported = ui.exported \cup {x}
    BY Zenon, <1>2, <2>2 DEF RecordsFields
  <2>4. x.compliance = ui.compliance /\ x.row = CsvRow(ui)
    BY Zenon, <2>1
  <2>5. x.compliance => {x.row.actor, x.row.ip} \subseteq Hidden
    BY Zenon, <1>2, <2>4, RedactsAll DEF RecordsInv
  <2> QED BY Zenon, <1>1, <1>2, <2>3, <2>5 DEF RecordsInv
<1> QED BY Zenon, <1>3, <1>4 DEF RecordsUser

\* The page opens with compliance mode off and nothing exported.
LEMMA RecordsOpens == ASSUME OpenRecords PROVE page' = "records" /\ Owned' /\ RecordsInv'
<1>1. PICK e \in OrgEvents : Open("records", RecordsInit(e))
  BY Zenon DEF OpenRecords
<1>2. page' = "records" /\ ui' = RecordsInit(e) /\ Owned'
  BY SMT, <1>1, OpensCleanly DEF Elsewhere
<1>3. DOMAIN RecordsInit(e) = RecordsFields /\ RecordsInit(e).event = e /\ RecordsInit(e).exported = {}
  BY Zenon DEF RecordsInit, RecordsFields
<1> QED BY Zenon, <1>1, <1>2, <1>3 DEF RecordsInv

\* So in compliance mode nothing is shown or exported in full.
LEMMA RecordsShow == ASSUME page = "records" => RecordsInv PROVE ComplianceHides
<1> SUFFICES ASSUME page = "records" PROVE ComplianceHides
  BY Zenon DEF ComplianceHides, OnRecords
<1>1. RecordsInv
  OBVIOUS
<1>2. ui.compliance => /\ TableActor(ui) \in Hidden
                       /\ {DrawerFields(ui).actor, DrawerFields(ui).ip} \subseteq Hidden
  BY Zenon, <1>1, RedactsAll DEF RecordsInv
<1> QED BY Zenon, <1>1, <1>2 DEF RecordsInv, ComplianceHides

-----------------------------------------------------------------------------
\* The invariant of the page that is mounted holds, if it is one of these.
HandlersInv ==
  /\ page \in DialogPages => DialogInv
  /\ page = "keys" => KeysInv
  /\ page = "config" => ConfigInv
  /\ page = "tester" => TesterInv
  /\ page = "manageServers" => ManageInv
  /\ page = "seedRoles" => SeedInv
  /\ page = "search" => SearchInv
  /\ page = "searches" => SearchesInv
  /\ page = "records" => RecordsInv

\* The pages of this module.
HandlerPages ==
  DialogPages \cup
  {"keys", "config", "tester", "register", "manageServers", "seedRoles", "search", "searches"
   , "records"}

\* What their users do and the answers that come to them.
HandlerStep ==
  \/ DialogUser \/ DialogStep \/ KeysUser \/ KeysStep \/ ConfigUser \/ ConfigStep \/ TesterUser
  \/ TesterStep \/ RegisterUser \/ RegisterStep \/ ManageUser \/ ManageStep \/ SeedUser
  \/ SeedStep \/ SearchUser \/ DebounceFires \/ SearchRefetched \/ SearchesUser \/ RecordsUser

\* How they are opened.
OpenHandler ==
  \/ OpenKeys \/ OpenConfig \/ OpenTester \/ OpenRegister \/ OpenManagePage \/ OpenSeed
  \/ OpenSearch \/ OpenSearches \/ OpenRecords \/ (\E p \in DOMAIN Dialogs : OpenDialogPage(p))

\* The dialogs are none of the other pages, and no page is away.
LEMMA DialogsApart ==
  /\ DialogPages \cap ({"keys", "config", "tester", "register", "manageServers", "seedRoles", "search",
                        "searches", "records"} \cup Away) = {}
  /\ HandlerPages \cap Away = {}
  BY SMT DEF DialogPages, HandlerPages, Away, Elsewhere

\* The invariant of the page that is mounted next is all that HandlersInv asks for then.
LEMMA OneHandler ==
  /\ page' \notin HandlerPages => HandlersInv'
  /\ page' \in Away => HandlersInv'
  /\ page' \in DialogPages /\ DialogInv' => HandlersInv'
  /\ page' = "keys" /\ KeysInv' => HandlersInv'
  /\ page' = "config" /\ ConfigInv' => HandlersInv'
  /\ page' = "tester" /\ TesterInv' => HandlersInv'
  /\ page' = "register" => HandlersInv'
  /\ page' = "manageServers" /\ ManageInv' => HandlersInv'
  /\ page' = "seedRoles" /\ SeedInv' => HandlersInv'
  /\ page' = "search" /\ SearchInv' => HandlersInv'
  /\ page' = "searches" /\ SearchesInv' => HandlersInv'
  /\ page' = "records" /\ RecordsInv' => HandlersInv'
<1>1. page' \in DialogPages =>
        page' \notin {"keys", "config", "tester", "register", "manageServers", "seedRoles", "search",
                      "searches", "records"} \cup Away
  BY Zenon, DialogsApart
<1>2. page' \notin HandlerPages => HandlersInv'
  BY SMT DEF HandlersInv, HandlerPages
<1>3. page' \in Away => HandlersInv'
  BY Zenon, <1>2, DialogsApart
<1>4. page' \in DialogPages /\ DialogInv' => HandlersInv'
  BY SMT, <1>1 DEF HandlersInv
<1>5. page' = "keys" /\ KeysInv' => HandlersInv'
  BY SMT, <1>1 DEF HandlersInv
<1>6. page' = "config" /\ ConfigInv' => HandlersInv'
  BY SMT, <1>1 DEF HandlersInv
<1>7. page' = "tester" /\ TesterInv' => HandlersInv'
  BY SMT, <1>1 DEF HandlersInv
<1>8. page' = "register" => HandlersInv'
  BY SMT, <1>1 DEF HandlersInv
<1>9. page' = "manageServers" /\ ManageInv' => HandlersInv'
  BY SMT, <1>1 DEF HandlersInv
<1>10. page' = "seedRoles" /\ SeedInv' => HandlersInv'
  BY SMT, <1>1 DEF HandlersInv
<1>11. page' = "search" /\ SearchInv' => HandlersInv'
  BY SMT, <1>1 DEF HandlersInv
<1>12. page' = "searches" /\ SearchesInv' => HandlersInv'
  BY SMT, <1>1 DEF HandlersInv
<1>13. page' = "records" /\ RecordsInv' => HandlersInv'
  BY SMT, <1>1 DEF HandlersInv
<1> QED BY Zenon, <1>2, <1>3, <1>4, <1>5, <1>6, <1>7, <1>8, <1>9, <1>10, <1>11, <1>12, <1>13

\* Every step of these pages keeps the invariant, and leads to the page of a server only if
\* that server exists.
LEMMA HandlersKeep ==
  ASSUME Owned, HandlersInv, page = "landing" => Landed, HandlerStep
  PROVE  Owned' /\ HandlersInv' /\ page' \in HandlerPages \cup Away /\ (page' = "landing" => Landed')
<1> DEFINE Goal == Owned' /\ HandlersInv' /\ page' \in HandlerPages \cup Away /\ (page' = "landing" => Landed')
<1>1. "landing" \in Away /\ HandlerPages \cap Away = {}
  BY Zenon, DialogsApart DEF Away
<1>2. ASSUME DialogUser \/ DialogStep PROVE Goal
  BY Zenon, <1>1, <1>2, DialogKeeps, OneHandler DEF HandlersInv, HandlerPages
<1>3. ASSUME KeysUser \/ KeysStep PROVE Goal
  <2>1. Owned' /\ page' = "keys" /\ KeysInv'
    BY Zenon, <1>3, KeysKeep DEF HandlersInv
  <2>2. page' \in HandlerPages /\ HandlersInv'
    BY Zenon, <2>1, OneHandler DEF HandlerPages
  <2> QED BY Zenon, <1>1, <2>1, <2>2
<1>4. ASSUME ConfigUser \/ ConfigStep PROVE Goal
  <2>1. Owned' /\ page' = "config" /\ ConfigInv'
    BY Zenon, <1>4, ConfigKeeps DEF HandlersInv
  <2>2. page' \in HandlerPages /\ HandlersInv'
    BY Zenon, <2>1, OneHandler DEF HandlerPages
  <2> QED BY Zenon, <1>1, <2>1, <2>2
<1>5. ASSUME TesterUser \/ TesterStep PROVE Goal
  <2>1. Owned' /\ page' = "tester" /\ TesterInv'
    BY Zenon, <1>5, TesterKeeps DEF HandlersInv
  <2>2. page' \in HandlerPages /\ HandlersInv'
    BY Zenon, <2>1, OneHandler DEF HandlerPages
  <2> QED BY Zenon, <1>1, <2>1, <2>2
<1>6. ASSUME RegisterUser \/ RegisterStep PROVE Goal
  <2>1. page' \in {"register"} \cup Away /\ Owned' /\ (page' = "landing" => Landed')
    BY Zenon, <1>6, RegisterKeeps DEF HandlersInv
  <2>2. page' \in HandlerPages \cup Away
    BY SMT, <2>1 DEF HandlerPages, Away
  <2> QED BY Zenon, <1>1, <2>1, <2>2, OneHandler DEF Away, Elsewhere
<1>7. ASSUME ManageUser \/ ManageStep PROVE Goal
  <2>1. Owned' /\ page' = "manageServers" /\ ManageInv'
    BY Zenon, <1>7, ManageKeeps DEF HandlersInv
  <2>2. page' \in HandlerPages /\ HandlersInv'
    BY Zenon, <2>1, OneHandler DEF HandlerPages
  <2> QED BY Zenon, <1>1, <2>1, <2>2
<1>8. ASSUME SeedUser \/ SeedStep PROVE Goal
  <2>1. Owned' /\ page' = "seedRoles" /\ SeedInv'
    BY Zenon, <1>8, SeedKeeps DEF HandlersInv
  <2>2. page' \in HandlerPages /\ HandlersInv'
    BY Zenon, <2>1, OneHandler DEF HandlerPages
  <2> QED BY Zenon, <1>1, <2>1, <2>2
<1>9. ASSUME SearchUser \/ DebounceFires \/ SearchRefetched PROVE Goal
  <2>1. page' \in {"search", Elsewhere} /\ Owned' /\ (page' = "search" => SearchInv')
    BY Zenon, <1>9, SearchKeeps DEF HandlersInv, Elsewhere
  <2>2. page' \in HandlerPages \cup Away
    BY SMT, <2>1 DEF HandlerPages, Away
  <2> QED BY Zenon, <1>1, <2>1, <2>2, OneHandler DEF Away, Elsewhere
<1>10. ASSUME SearchesUser PROVE Goal
  <2>1. Owned' /\ page' = "searches" /\ SearchesInv'
    BY Zenon, <1>10, SearchesKeep DEF HandlersInv
  <2>2. page' \in HandlerPages /\ HandlersInv'
    BY Zenon, <2>1, OneHandler DEF HandlerPages
  <2> QED BY Zenon, <1>1, <2>1, <2>2
<1>11. ASSUME RecordsUser PROVE Goal
  <2>1. Owned' /\ page' = "records" /\ RecordsInv'
    BY Zenon, <1>11, RecordsKeep DEF HandlersInv
  <2>2. page' \in HandlerPages /\ HandlersInv'
    BY Zenon, <2>1, OneHandler DEF HandlerPages
  <2> QED BY Zenon, <1>1, <2>1, <2>2
<1> QED BY Zenon, <1>2, <1>3, <1>4, <1>5, <1>6, <1>7, <1>8, <1>9, <1>10, <1>11 DEF HandlerStep

\* Opening one of them establishes it.
LEMMA HandlersOpen ==
  ASSUME OpenHandler PROVE Owned' /\ HandlersInv' /\ page' \in HandlerPages
<1> DEFINE Goal == Owned' /\ HandlersInv' /\ page' \in HandlerPages
<1>1. ASSUME NEW p \in DOMAIN Dialogs, OpenDialogPage(p) PROVE Goal
  BY Zenon, <1>1, DialogNames, DialogOpens, OneHandler DEF HandlerPages
<1>2. ASSUME OpenKeys PROVE Goal
  BY Zenon, <1>2, KeysOpen, OneHandler DEF HandlerPages
<1>3. ASSUME OpenConfig PROVE Goal
  BY Zenon, <1>3, ConfigOpens, OneHandler DEF HandlerPages
<1>4. ASSUME OpenTester PROVE Goal
  BY Zenon, <1>4, TesterOpens, OneHandler DEF HandlerPages
<1>5. ASSUME OpenRegister PROVE Goal
  BY Zenon, <1>5, OpenOwns, OneHandler DEF HandlerPages, OpenRegister
<1>6. ASSUME OpenManagePage PROVE Goal
  BY Zenon, <1>6, ManageOpens, OneHandler DEF HandlerPages
<1>7. ASSUME OpenSeed PROVE Goal
  BY Zenon, <1>7, SeedOpens, OneHandler DEF HandlerPages
<1>8. ASSUME OpenSearch PROVE Goal
  BY Zenon, <1>8, SearchOpens, OneHandler DEF HandlerPages
<1>9. ASSUME OpenSearches PROVE Goal
  BY Zenon, <1>9, SearchesOpens, OneHandler DEF HandlerPages
<1>10. ASSUME OpenRecords PROVE Goal
  BY Zenon, <1>10, RecordsOpens, OneHandler DEF HandlerPages
<1> QED BY Zenon, <1>1, <1>2, <1>3, <1>4, <1>5, <1>6, <1>7, <1>8, <1>9, <1>10 DEF OpenHandler

\* A step that changes nothing keeps it.
LEMMA HandlersStay ==
  ASSUME HandlersInv, page' = page, ui' = ui, flight' = flight PROVE HandlersInv'
<1>1. DialogInv => DialogInv'
  BY Zenon DEF DialogInv, AloneInv, This, OnceInv, TypedInv, BusyInv, DialogType, ShownInv
<1>2. KeysInv => KeysInv'
  BY Zenon DEF KeysInv
<1>3. ConfigInv => ConfigInv'
  BY Zenon DEF ConfigInv
<1>4. TesterInv => TesterInv'
  BY Zenon DEF TesterInv
<1>5. ManageInv => ManageInv'
  BY Zenon DEF ManageInv
<1>6. SeedInv => SeedInv'
  BY Zenon DEF SeedInv
<1>7. SearchInv => SearchInv'
  BY Zenon DEF SearchInv
<1>8. SearchesInv => SearchesInv'
  BY Zenon DEF SearchesInv
<1>9. RecordsInv => RecordsInv'
  BY Zenon DEF RecordsInv
<1> QED BY SMT, <1>1, <1>2, <1>3, <1>4, <1>5, <1>6, <1>7, <1>8, <1>9 DEF HandlersInv

\* The invariant implies what these pages promise.
LEMMA HandlersShow ==
  ASSUME Owned, HandlersInv
  PROVE  /\ BusyHasCause /\ OneRecordEach /\ DeletionsAreTyped /\ CredentialsAreShown
         /\ SecretsAreShown /\ SavedIsStored /\ OthersEditsSurvive /\ ResultFitsTool
         /\ AssignmentsShown /\ SeededOnce /\ SearchSettles /\ SearchesRestore
         /\ ComplianceHides
<1>1. BusyHasCause /\ OneRecordEach /\ DeletionsAreTyped /\ CredentialsAreShown
  BY Zenon, DialogShows DEF HandlersInv
<1>2. SecretsAreShown /\ SavedIsStored /\ OthersEditsSurvive
  BY Zenon, KeysShow, ConfigShows DEF HandlersInv
<1>3. ResultFitsTool /\ AssignmentsShown /\ SeededOnce
  BY Zenon, TesterShows, ManageShows, SeedShows DEF HandlersInv
<1>4. SearchSettles
  BY Zenon, SearchShows DEF HandlersInv
<1>5. SearchesRestore /\ ComplianceHides
  BY Zenon, SearchesShow, RecordsShow DEF HandlersInv
<1> QED BY <1>1, <1>2, <1>3, <1>4, <1>5
=============================================================================
