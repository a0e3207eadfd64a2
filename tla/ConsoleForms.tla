---------------------------- MODULE ConsoleForms ----------------------------
(***************************************************************************)
(* The forms in front of the console: registration (register/legacy-form,  *)
(* what it sends; ConsoleSession has what the answer does to the session)  *)
(* the reset of a password (auth/forgot-password) and the second factor    *)
(* (auth/mfa), which send nothing.                                         *)
(***************************************************************************)
EXTENDS Console

-----------------------------------------------------------------------------
(* Registration. A text is empty, blank or a name; the fields that all the *)
(* flows have are one, filled. sent is a history: what was posted.         *)

Flows == {"create", "join", "invitation"}
Texts == {"", " ", "x"}
Null == "null"

SignUpInit == [flow |-> "create", orgName |-> "", inviteCode |-> "", terms |-> FALSE, loading |-> FALSE, sent |-> {}]

OnSignUp == page = "signUp"

OpenSignUp == Open("signUp", SignUpInit)

SetFlow == OnSignUp /\ \E f \in Flows \ {ui.flow} : Set([ui EXCEPT !.flow = f])
SetOrgName == OnSignUp /\ ui.flow \in {"create", "join"} /\ \E t \in Texts \ {ui.orgName} : Set([ui EXCEPT !.orgName = t])
SetInviteCode == OnSignUp /\ ui.flow = "invitation" /\ \E t \in Texts \ {ui.inviteCode} : Set([ui EXCEPT !.inviteCode = t])
SetTerms == OnSignUp /\ Set([ui EXCEPT !.terms = ~@])

\* trim, and null for nothing
Trimmed(t) == IF t = "x" THEN t ELSE Null

\* The body of POST /auth/register.
Registration(u) ==
  [flow |-> u.flow,
   orgName |-> IF u.flow \in {"create", "join"} THEN Trimmed(u.orgName) ELSE Null,
   inviteCode |-> IF u.flow = "invitation" THEN Trimmed(u.inviteCode) ELSE Null]

\* required, which a blank satisfies, holds for the fields of the chosen flow only.
Filled(u) == (IF u.flow = "invitation" THEN u.inviteCode ELSE u.orgName) # ""

\* handleSubmit; the form can be edited while the call is under way.
SubmitSignUp ==
  /\ OnSignUp /\ ui.terms /\ ~ui.loading /\ Filled(ui)
  /\ Send(Call("signUp", ui.flow), [ui EXCEPT !.loading = TRUE, !.sent = @ \cup {Registration(ui)}])

\* The answer is an error: the form is there again as it is.
SignUpFails == OnSignUp /\ \E c \in InFlight("signUp") : Take(c, [ui EXCEPT !.loading = FALSE])

SignUpUser == SetFlow \/ SetOrgName \/ SetInviteCode \/ SetTerms \/ SubmitSignUp

\* A registration has what its flow asks for and nothing that was typed for another one: no
\* invitation with an organisation, no organisation with a code, and no blank names.
RegistrationFitsFlow ==
  OnSignUp => \A r \in ui.sent :
    /\ r.orgName # Null => r.flow \in {"create", "join"}
    /\ r.inviteCode # Null => r.flow = "invitation"
    /\ {r.orgName, r.inviteCode} \cap {"", " "} = {}

-----------------------------------------------------------------------------
(* The reset. A password is the set of the strength rules that it meets    *)
(* and a number, for two passwords may meet the same rules.                *)

Rules == {"length", "uppercase", "number", "special"}
Empty == <<{}, 0>>
Passwords == (SUBSET Rules) \X {0, 1}
Score(pw) == Cardinality(pw[1])

ResetInit == [step |-> "request", newPw |-> Empty, confirmPw |-> Empty, mismatch |-> FALSE]

OnReset == page = "reset"

OpenReset == Open("reset", ResetInit)

ResetStep(from, to) == OnReset /\ ui.step = from /\ Set([ui EXCEPT !.step = to])
RequestReset == ResetStep("request", "sent")
TryAnother == ResetStep("sent", "request")
OpenLink == ResetStep("sent", "reset")

TypeNewPw == OnReset /\ ui.step = "reset" /\ \E pw \in Passwords \ {ui.newPw} : Set([ui EXCEPT !.newPw = pw])
TypeConfirmPw ==
  OnReset /\ ui.step = "reset" /\ \E pw \in Passwords \ {ui.confirmPw} :
    Set([ui EXCEPT !.confirmPw = pw, !.mismatch = FALSE])

\* submitReset; the message about a mismatch stays until the confirmation is typed again.
Submitted(u) ==
  IF u.newPw # u.confirmPw THEN [u EXCEPT !.mismatch = TRUE]
  ELSE [u EXCEPT !.mismatch = FALSE, !.step = "success"]

SubmitReset ==
  /\ OnReset /\ ui.step = "reset" /\ Score(ui.newPw) >= 2 /\ ui.confirmPw # Empty
  /\ Set(Submitted(ui))

ResetUser == RequestReset \/ TryAnother \/ OpenLink \/ TypeNewPw \/ TypeConfirmPw \/ SubmitReset

\* The reset ends only with a password that was typed twice and meets two rules, in whatever
\* order the two fields were filled in and corrected.
ResetIsAgreed == OnReset /\ ui.step = "success" => ui.newPw = ui.confirmPw /\ Score(ui.newPw) >= 2

-----------------------------------------------------------------------------
(* The second factor (auth/mfa), of which no request is made. A code is    *)
(* the number of its digits; copied is what the label "Copied" stands at,  *)
(* timers the timeouts that take it back.                                  *)

MaxTimers == 2  \* bound: copies whose two seconds are not over

MfaInit ==
  [step |-> "setup", showKey |-> FALSE, code |-> 0, codeError |-> FALSE, copied |-> "", timers |-> 0,
   downloaded |-> FALSE]

OnMfa == page = "mfa"

OpenMfa == Open("mfa", MfaInit)

ShowKey == OnMfa /\ ui.step = "setup" /\ Set([ui EXCEPT !.showKey = ~@])
ScanDone == OnMfa /\ ui.step = "setup" /\ Set([ui EXCEPT !.step = "verify"])

\* What is not a digit is dropped.
TypeCode ==
  OnMfa /\ ui.step = "verify" /\ \E n \in {0, 5, 6} : Set([ui EXCEPT !.code = n, !.codeError = FALSE])

\* verifyCode: any six digits.
VerifyCode(u) == IF u.code = 6 THEN [u EXCEPT !.step = "recovery"] ELSE [u EXCEPT !.codeError = TRUE]

\* The button is disabled for other codes, so the message about a wrong one never shows.
ClickVerify == OnMfa /\ ui.step = "verify" /\ ui.code = 6 /\ Set(VerifyCode(ui))
BackToSetup == OnMfa /\ ui.step = "verify" /\ Set([ui EXCEPT !.step = "setup", !.code = 0, !.codeError = FALSE])
DownloadCodes == OnMfa /\ ui.step = "recovery" /\ ~ui.downloaded /\ Set([ui EXCEPT !.downloaded = TRUE])
CodesSaved == OnMfa /\ ui.step = "recovery" /\ Set([ui EXCEPT !.step = "done"])

\* handleCopy: the label changes when the clipboard has taken the text; a refusal changes
\* nothing. Each copy has a timeout of its own, and the first one takes back any label.
CopyHere == [setup |-> "key", recovery |-> "codes"]
Copy ==
  /\ OnMfa /\ ui.step \in DOMAIN CopyHere /\ ui.timers < MaxTimers
  /\ ui.step = "setup" => ui.showKey
  /\ Send(Call("copy", CopyHere[ui.step]), ui)

Copied(c) ==
  OnMfa /\ ui.timers < MaxTimers /\ Take(c, [ui EXCEPT !.copied = c.about, !.timers = @ + 1])
CopyRefused(c) == OnMfa /\ Take(c, ui)
CopyTimer == OnMfa /\ ui.timers > 0 /\ Set([ui EXCEPT !.copied = "", !.timers = @ - 1])

MfaUser == ShowKey \/ ScanDone \/ TypeCode \/ ClickVerify \/ BackToSetup \/ DownloadCodes \/ CodesSaved \/ Copy
MfaStep == CopyTimer \/ \E c \in InFlight("copy") : Copied(c) \/ CopyRefused(c)

\* The recovery codes are shown, saved and left behind only after six digits were verified, by
\* whatever way back and forth the user came; and "Copied" does not stay: a timeout is under
\* way that takes it back, whichever copy started it.
MfaSettles ==
  OnMfa =>
    /\ ui.step \in {"recovery", "done"} \/ ui.downloaded => ui.code = 6 /\ ~ui.codeError
    /\ ui.copied # "" => ui.timers > 0

-----------------------------------------------------------------------------
(* PlanLimitsTable of admin/billing: rows that are edited in place, one at *)
(* a time and in the browser only. wanted is a history: what the input of  *)
(* a row held when it was saved, typed what was typed since it was opened. *)

LimitRows == 1 .. 2
LimitValues == 0 .. 1

LimitsInit ==
  [limits |-> [r \in LimitRows |-> 0], editing |-> 0, editValue |-> 0,
   wanted |-> [r \in LimitRows |-> 0], typed |-> 0]

OnLimits == page = "limits"

OpenLimits == Open("limits", LimitsInit)

\* startEdit; the row that was being edited is left as it is.
StartEdit(u, r) == [u EXCEPT !.editing = r, !.editValue = u.limits[r], !.typed = u.limits[r]]

ClickEdit(r) == OnLimits /\ r # ui.editing /\ Set(StartEdit(ui, r))
TypeLimit(v) == OnLimits /\ ui.editing # 0 /\ Set([ui EXCEPT !.editValue = v, !.typed = v])

SaveEdit ==
  /\ OnLimits /\ ui.editing # 0
  /\ Set([ui EXCEPT !.limits[ui.editing] = ui.editValue, !.wanted[ui.editing] = ui.typed, !.editing = 0])

CancelEdit == OnLimits /\ ui.editing # 0 /\ Set([ui EXCEPT !.editing = 0, !.editValue = 0])

LimitsUser ==
  (\E r \in LimitRows : ClickEdit(r)) \/ (\E v \in LimitValues : TypeLimit(v)) \/ SaveEdit \/ CancelEdit

\* A limit is what its own input held when it was saved: a draft that was cancelled, or left
\* for another row, reaches neither its row nor the other one.
LimitsAreAsSaved == OnLimits => ui.limits = ui.wanted

=============================================================================
