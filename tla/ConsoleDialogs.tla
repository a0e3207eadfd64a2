--------------------------- MODULE ConsoleDialogs ---------------------------
(***************************************************************************)
(* The console's forms and confirmations. They are written one by one, but *)
(* each is the same small machine: something opens it, the user fills it   *)
(* in and submits it, may close and reopen it while the call is in flight, *)
(* and the answer then meets whatever is on the screen. A dialog is        *)
(* described by the choices that its code makes.                           *)
(***************************************************************************)
EXTENDS Console

CONSTANTS
  MaxTurns,  \* bound: openings of a dialog, and fillings of it
  MaxSent    \* bound: calls that one dialog sends

ASSUME DialogsAssumption == MaxTurns \in Nat /\ MaxSent \in Nat

(* asks:    what stands between the click and the call: "nothing", the     *)
(*          browser's "confirm" or the "typed" name                        *)
(* rows:    what the dialog can be opened for (1 where there is no choice) *)
(* needs:   a field must be filled in                                      *)
(* guard:   what disables the button: "busy" while a call is in flight,    *)
(*          "row" for the row of the latest call, "none"                   *)
(* keeps:   the component stays mounted when the dialog closes             *)
(* closes, clears, shows: on success it closes, empties the form, shows    *)
(*          what was created in place of the form                          *)
(* wipes:   closing empties the form and what it shows                     *)

FormOf(needs, keeps) ==
  [asks |-> "nothing", rows |-> 1, needs |-> needs, guard |-> "busy", keeps |-> keeps,
   closes |-> TRUE, clears |-> TRUE, shows |-> FALSE, wipes |-> FALSE]

RowOf(asks, guard) ==
  [asks |-> asks, rows |-> 2, needs |-> FALSE, guard |-> guard, keeps |-> TRUE,
   closes |-> FALSE, clears |-> FALSE, shows |-> FALSE, wipes |-> FALSE]

InviteMemberDialog == FormOf(TRUE, TRUE)
CreateTeamDialog == FormOf(TRUE, TRUE)
AccessRoleDialog == FormOf(TRUE, TRUE)
RolesRoleDialog == FormOf(TRUE, TRUE)
RateLimitDialog == FormOf(FALSE, TRUE)
AddPermissionDialog == [FormOf(FALSE, TRUE) EXCEPT !.clears = FALSE]
AssignMemberDialog == [FormOf(TRUE, TRUE) EXCEPT !.clears = FALSE]
\* keyed by the member that is edited, so that closing it unmounts it
EditMemberDialog == [FormOf(FALSE, FALSE) EXCEPT !.rows = 2, !.clears = FALSE]
\* part of a tab, always open
BindingsPanel == [FormOf(TRUE, TRUE) EXCEPT !.closes = FALSE]
\* they show a secret that the backend gives out once
ProvisionDialog ==
  [FormOf(TRUE, TRUE) EXCEPT !.closes = FALSE, !.clears = FALSE, !.shows = TRUE, !.wipes = TRUE]
DeveloperKeyDialog == [ProvisionDialog EXCEPT !.clears = TRUE]

TypedOf == [RowOf("typed", "busy") EXCEPT !.closes = TRUE]
DeleteTeamDialog == TypedOf
DeleteMemberDialog == TypedOf

ServerRowDelete == RowOf("confirm", "none")
ServerRowProbe == RowOf("nothing", "none")
KeyRowRevoke == RowOf("confirm", "none")
DeveloperKeyRevoke == RowOf("confirm", "none")
PolicyRowDelete == RowOf("confirm", "none")
LimitRowDelete == RowOf("confirm", "none")
PermissionRemove == RowOf("nothing", "none")
AdminServerDelete == RowOf("confirm", "busy")
AdminServerDisable == RowOf("nothing", "busy")
AdminKeyRevoke == RowOf("confirm", "row")
SecurityKeyRevoke == RowOf("nothing", "row")
\* on the tab Configuration of a server's page
ServerToggle == [RowOf("nothing", "busy") EXCEPT !.rows = 1]

Dialogs ==
  [inviteMember |-> InviteMemberDialog, createTeam |-> CreateTeamDialog,
   accessRole |-> AccessRoleDialog, rolesRole |-> RolesRoleDialog,
   rateLimit |-> RateLimitDialog, addPermission |-> AddPermissionDialog,
   assignMember |-> AssignMemberDialog, editMember |-> EditMemberDialog,
   bindings |-> BindingsPanel, provision |-> ProvisionDialog,
   developerKey |-> DeveloperKeyDialog, deleteTeam |-> DeleteTeamDialog,
   deleteMember |-> DeleteMemberDialog, serverRowDelete |-> ServerRowDelete,
   serverRowProbe |-> ServerRowProbe, keyRowRevoke |-> KeyRowRevoke,
   developerKeyRevoke |-> DeveloperKeyRevoke, policyRowDelete |-> PolicyRowDelete,
   limitRowDelete |-> LimitRowDelete, permissionRemove |-> PermissionRemove,
   adminServerDelete |-> AdminServerDelete, adminServerDisable |-> AdminServerDisable,
   adminKeyRevoke |-> AdminKeyRevoke, securityKeyRevoke |-> SecurityKeyRevoke,
   serverToggle |-> ServerToggle]

OnDialog == page \in DOMAIN Dialogs
This == Dialogs[page]

\* A row's button is always there, and so is the form of BindingsPanel.
Inline(d) == d.asks \in {"nothing", "confirm"} /\ ~d.closes /\ ~d.shows

-----------------------------------------------------------------------------
(* open is the row that the dialog is open for, 0 if it is closed; busy    *)
(* the row of the call that disables the button. opened, filled and typed  *)
(* count or note what the user did; made counts what the backend did, lost *)
(* what it did although the call failed, seen the results on the screen.   *)

DialogInit(d) ==
  [open |-> IF Inline(d) THEN 1 ELSE 0, ready |-> ~d.needs, typed |-> 0, busy |-> 0, shown |-> 0,
   mount |-> 0, opened |-> 0, filled |-> 0, retyped |-> FALSE, sent |-> 0, made |-> 0,
   lost |-> 0, seen |-> {}]

OpenDialogPage(p) == Open(p, DialogInit(Dialogs[p]))

\* What the screen shows after the component's state has become u.
Looked(u) ==
  [u EXCEPT !.seen = IF u.open # 0 /\ u.shown # 0 THEN @ \cup {u.shown} ELSE @]

OpenDialog(r) ==
  /\ OnDialog /\ ~Inline(This) /\ ui.open = 0 /\ r <= This.rows /\ ui.opened < MaxTurns
  /\ Set(Looked([ui EXCEPT !.open = r, !.opened = @ + 1, !.typed = 0, !.retyped = FALSE]))

\* The component of a dialog that is not kept is gone, with the state of its button.
Closed(u) ==
  IF This.keeps
  THEN [u EXCEPT !.open = IF Inline(This) THEN @ ELSE 0]
  ELSE [u EXCEPT !.open = 0, !.busy = 0, !.ready = ~This.needs, !.mount = @ + 1]

\* Cancel, Escape, the backdrop: possible while a call is in flight.
CloseDialog ==
  /\ OnDialog /\ ~Inline(This) /\ ui.open # 0
  /\ LET u == Closed(ui)
     IN  Set(IF This.wipes THEN [u EXCEPT !.ready = ~This.needs, !.shown = 0] ELSE u)

\* The user fills in what is asked for.
Fill ==
  /\ OnDialog /\ This.needs /\ ui.open # 0 /\ ui.shown = 0 /\ ~ui.ready /\ ui.filled < MaxTurns
  /\ Set([ui EXCEPT !.ready = TRUE, !.filled = @ + 1])

TypeName ==
  /\ OnDialog /\ This.asks = "typed" /\ ui.open # 0 /\ ui.typed # ui.open
  /\ Set([ui EXCEPT !.typed = ui.open, !.retyped = TRUE])

Enabled(r) ==
  CASE This.guard = "busy" -> ui.busy = 0
    [] This.guard = "row" -> ui.busy # r
    [] This.guard = "none" -> TRUE

\* The handler up to its call. One that asks with confirm() stops there unless the user agrees.
Submit(r) ==
  /\ OnDialog /\ ui.open # 0 /\ ui.shown = 0 /\ ui.ready /\ ui.sent < MaxSent
  /\ r = (IF Inline(This) THEN r ELSE ui.open) /\ r <= This.rows
  /\ This.asks = "typed" => ui.typed = ui.open
  /\ Enabled(r)
  /\ Send([do |-> "submit", about |-> r, here |-> TRUE, mount |-> ui.mount, n |-> ui.sent + 1,
           retyped |-> ui.retyped],
          [ui EXCEPT !.sent = @ + 1, !.busy = IF This.guard = "none" THEN 0 ELSE r])

\* mutant: without the finally
SettledOnce(c, u) == IF c.mount = u.mount /\ u.made > 0 THEN [u EXCEPT !.busy = 0] ELSE u

\* finally, or the end of the mutation: the button is enabled again.
Settled(c, u) == IF c.mount = u.mount THEN [u EXCEPT !.busy = 0] ELSE u

\* The parent's onClose works for whatever is open now.
Succeeds(c) ==
  /\ OnDialog /\ c.do = "submit"
  /\ LET u == Settled(c, [ui EXCEPT !.made = @ + 1])
         v == IF c.mount = u.mount
              THEN [u EXCEPT !.ready = IF This.clears THEN ~This.needs ELSE @,
                             !.shown = IF This.shows THEN c.n ELSE @]
              ELSE u
     IN  Take(c, Looked(IF This.closes THEN Closed(v) ELSE v))

\* The call fails; the backend may have done its work all the same.
Fails(c) ==
  /\ OnDialog /\ c.do = "submit"
  /\ \E done \in {0, 1} :
       Take(c, Settled(c, [ui EXCEPT !.made = @ + done, !.lost = @ + done]))

DialogUser ==
  \/ \E r \in 1 .. 2 : OpenDialog(r) \/ Submit(r)
  \/ CloseDialog \/ Fill \/ TypeName

DialogStep == \E c \in flight : Succeeds(c) \/ Fails(c)

-----------------------------------------------------------------------------

\* A disabled button comes back. While a button is disabled a call of the same component is in
\* flight: no path through a handler leaves busy, deleting, revoking or isPending behind, and
\* an answer never enables the button of a newer call than its own, unless that is the other
\* row's.
BusyHasCause ==
  OnDialog /\ ui.busy # 0 => \E c \in flight : c.mount = ui.mount /\ c.about = ui.busy

\* A form that was filled in or opened once creates one record, however often its button is
\* pressed and whatever closing, reopening and late answers come in between. An answer that
\* was lost leads to a second record.
OneRecordEach ==
  OnDialog /\ This.guard = "busy" /\ This.asks = "nothing" /\ This.rows = 1
    /\ (This.closes \/ This.shows \/ This.needs) =>
    ui.made <= ui.lost + (IF This.needs /\ (This.clears \/ This.wipes) THEN ui.filled ELSE ui.opened)

\* What has to be typed is typed for every deletion: a deletion in flight was confirmed by
\* typing the name into the dialog as it was then open, not in an earlier opening.
DeletionsAreTyped ==
  OnDialog /\ This.asks = "typed" => \A c \in flight : c.retyped

\* One-time credentials reach the screen: what a call created is on the screen, has been, or
\* comes up when the dialog is opened again.
CredentialsAreShown ==
  OnDialog /\ This.shows => ui.made - ui.lost <= Cardinality(ui.seen \cup ({ui.shown} \ {0}))

-----------------------------------------------------------------------------
(***************************************************************************)
(* The key wizard, app/dashboard/api-keys/page.tsx: four steps, and the    *)
(* secret that is shown once.                                              *)
(***************************************************************************)

CONSTANT MaxKeys  \* bound: keys created while the page is open

ASSUME KeysAssumption == MaxKeys \in Nat

Keys == 1 .. MaxKeys

\* step is 0 to 3 in the wizard and 4 at the secret; resets counts the timers of handleClose
\* that are still to fire. made, seen and excused are histories: keys created, secrets that
\* were on the screen, and secrets whose dialog the user closed before the answer came.
KeysInit == [open |-> FALSE, step |-> 0, named |-> FALSE, pending |-> FALSE, resets |-> 0,
             revealed |-> 0, made |-> 0, seen |-> {}, left |-> FALSE, excused |-> {}]

OnKeys == page = "keys"

\* KeyRevealScreen is rendered.
Reveals(u) == u.open /\ u.step = 4 /\ u.revealed # 0

SetKeys(u) == Set([u EXCEPT !.seen = IF Reveals(u) THEN @ \cup {u.revealed} ELSE @])

OpenKeys == Open("keys", KeysInit)

OpenWizard == OnKeys /\ ~ui.open /\ SetKeys([ui EXCEPT !.open = TRUE])

\* StepIdentity: the only field that a step asks for.
SetName(named) ==
  OnKeys /\ ui.open /\ ui.step = 0 /\ named # ui.named /\ SetKeys([ui EXCEPT !.named = named])

CanAdvance(u) == u.step = 0 => u.named

Continue ==
  OnKeys /\ ui.open /\ ui.step < 3 /\ CanAdvance(ui) /\ SetKeys([ui EXCEPT !.step = @ + 1])

Back == OnKeys /\ ui.open /\ ui.step \in 1 .. 3 /\ SetKeys([ui EXCEPT !.step = @ - 1])

\* handleSubmit; the button of the last step is disabled while the mutation is pending.
SubmitKey ==
  /\ OnKeys /\ ui.open /\ ui.step = 3 /\ ~ui.pending /\ ui.made < MaxKeys
  /\ Send(Call("createKey", ui.made + 1), [ui EXCEPT !.pending = TRUE, !.left = FALSE])

\* mutant: the dialog does not turn to the secret
KeyCreatedStays(c) ==
  /\ c.do = "createKey"
  /\ Take(c, [ui EXCEPT !.pending = FALSE, !.revealed = c.about, !.made = c.about,
                        !.excused = IF ui.left THEN @ \cup {c.about} ELSE @])

\* The backend has created the key. The dialog turns to the secret, open or not.
KeyCreated(c) ==
  /\ c.do = "createKey"
  /\ LET u == [ui EXCEPT !.pending = FALSE, !.revealed = c.about, !.step = 4, !.made = c.about,
                         !.excused = IF ui.left THEN @ \cup {c.about} ELSE @]
     IN  Take(c, [u EXCEPT !.seen = IF Reveals(u) THEN @ \cup {u.revealed} ELSE @])

KeyFailed(c) == c.do = "createKey" /\ Take(c, [ui EXCEPT !.pending = FALSE])

\* handleClose: Cancel, Done, Escape, the backdrop. What the dialog holds is reset later.
CloseWizard ==
  /\ OnKeys /\ ui.open /\ ui.resets < 2
  /\ Set([ui EXCEPT !.open = FALSE, !.resets = @ + 1, !.left = @ \/ ui.pending])

ResetFires ==
  /\ OnKeys /\ ui.resets > 0
  /\ SetKeys([ui EXCEPT !.resets = @ - 1, !.step = 0, !.named = FALSE, !.revealed = 0])

\* handleRevoke; the answer has nothing to set.
Revoke == OnKeys /\ InFlight("revokeKey") = {} /\ Send(Call("revokeKey", 0), ui)
Revoked(c) == c.do = "revokeKey" /\ Take(c, ui)

KeysUser == OpenWizard \/ (\E b \in BOOLEAN : SetName(b)) \/ Continue \/ Back \/ SubmitKey
            \/ CloseWizard \/ Revoke
KeysStep == ResetFires \/ \E c \in flight : KeyCreated(c) \/ KeyFailed(c) \/ Revoked(c)

-----------------------------------------------------------------------------

\* A secret that was created is on the screen, has been, or waits in the dialog for its next
\* opening. Only a user who closed the dialog before the answer may never see it: the timer
\* of handleClose clears what came in between.
SecretsAreShown ==
  page = "keys" => 1 .. ui.made \subseteq ui.seen \cup ui.excused \cup {ui.revealed}

=============================================================================
