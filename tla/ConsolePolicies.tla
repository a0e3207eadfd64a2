-------------------------- MODULE ConsolePolicies --------------------------
(***************************************************************************)
(* Policies in the console: the wizard of                                  *)
(* app/dashboard/policies/new/page.tsx, the tabs Rules, Coverage and Test  *)
(* of app/dashboard/policies/[id]/page.tsx, and the policies that a tool's *)
(* page lists (app/dashboard/tools/[server]/[tool]/page.tsx).              *)
(***************************************************************************)
EXTENDS Console

CONSTANTS
  MaxSaves,      \* bound: saves of a policy while its page is open
  MaxPublishing  \* bound: publications in flight, the redirect at the end included

ASSUME PoliciesAssumption == MaxSaves \in Nat /\ MaxPublishing \in Nat

-----------------------------------------------------------------------------
(* NewPolicyPage. The policy's name, its subject and its role are filled   *)
(* in or not; what a step leaves in the other steps' fields stays there.   *)

Modes == {"all", "role", "api_key", "oauth_subject"}
PolicyActions == {"rate_limit", "allow", "deny", "log"}

WizardInit ==
  [step |-> 1, named |-> FALSE, mode |-> "all", role |-> FALSE, subject |-> FALSE,
   scope |-> "everything", action |-> "rate_limit", publishing |-> FALSE]

OnWizard == page = "newPolicy"

OpenNewPolicy == Open("newPolicy", WizardInit)

\* The steps that have an input, and the inputs of each. Steps 5 and 6 ask for conditions
\* and numbers that no other step depends on.
SetWizard(k, v) ==
  /\ OnWizard /\ ui[k] # v
  /\ CASE k = "named" -> ui.step = 1
       [] k = "mode" -> ui.step = 2
       [] k = "role" -> ui.step = 2 /\ ui.mode = "role"
       [] k = "subject" -> ui.step = 2 /\ ui.mode \in {"api_key", "oauth_subject"}
       [] k = "scope" -> ui.step = 3
       [] k = "action" -> ui.step = 4
  /\ Set([ui EXCEPT ![k] = v])

CanProceed(u) == (u.step = 1 => u.named) /\ (u.step = 2 /\ u.mode = "role" => u.role)

ContinueWizard == OnWizard /\ ui.step < 8 /\ CanProceed(ui) /\ Set([ui EXCEPT !.step = @ + 1])

\* Previous, or one of the buttons of the steps that are done.
ReturnTo(s) == OnWizard /\ s < ui.step /\ Set([ui EXCEPT !.step = s])

\* buildExplanation: whom the policy is about, in the words of the review.
Explained(s) ==
  [who |-> CASE s.mode = "all" -> "everyone"
             [] s.mode = "role" -> "the role"
             [] OTHER -> IF s.subject THEN "the subject" ELSE "unset",
   scope |-> s.scope, action |-> s.action]

\* The subject_id of a new limit; without one it is for everyone.
SubjectSent(s) == IF s.mode # "all" /\ s.subject THEN "the subject" ELSE "everyone"

\* publish, up to its first await; said is what the review says at that moment. A policy that
\* only logs is not sent at all.
Publish ==
  /\ OnWizard /\ ui.step = 8 /\ ~ui.publishing
  /\ Cardinality(InFlight("publish")) < MaxPublishing
  /\ LET at == CASE ui.action = "rate_limit" -> "limit"
                 [] ui.action = "log" -> "push"
                 [] OTHER -> IF ui.role THEN "permission" ELSE "role"
         stored == [who |-> IF at = "limit" THEN SubjectSent(ui)
                            ELSE IF ui.role THEN "the role" ELSE "nobody yet",
                    scope |-> ui.scope, action |-> ui.action]
     IN  Send([do |-> "publish", about |-> stored, here |-> TRUE, at |-> at,
               said |-> Explained(ui)],
              [ui EXCEPT !.publishing = (at # "push")])

PublishGoesOn(c, u, d) ==
  /\ ui' = u
  /\ flight' = (flight \ {c}) \cup {d}
  /\ UNCHANGED page

\* mutant: the second call reads the wizard as it is by then
RoleMadeLate(c) ==
  /\ c.do = "publish" /\ c.here /\ c.at = "role"
  /\ PublishGoesOn(c, ui, [c EXCEPT !.at = "permission", !.about.scope = ui.scope])

\* A role named after the policy is there, without bindings; the permission comes next.
RoleMade(c) ==
  /\ c.do = "publish" /\ c.here /\ c.at = "role"
  /\ PublishGoesOn(c, ui, [c EXCEPT !.at = "permission"])

PolicyMade(c) ==
  /\ c.do = "publish" /\ c.here /\ c.at \in {"limit", "permission"}
  /\ PublishGoesOn(c, [ui EXCEPT !.publishing = FALSE], [c EXCEPT !.at = "push"])

PublishFails(c) ==
  /\ c.do = "publish" /\ c.here /\ c.at # "push"
  /\ Take(c, [ui EXCEPT !.publishing = FALSE])

\* The router arrives at the list, wherever the user is by now.
PublishPushes(c) ==
  /\ c.do = "publish" /\ (c.here => c.at = "push")
  /\ Redirect(c, Elsewhere, [none |-> TRUE])

WizardUser ==
  \/ \E k \in {"named", "role", "subject"}, b \in BOOLEAN : SetWizard(k, b)
  \/ \E m \in Modes : SetWizard("mode", m)
  \/ \E s \in {"everything", "pattern"} : SetWizard("scope", s)
  \/ \E a \in PolicyActions : SetWizard("action", a)
  \/ ContinueWizard \/ Publish
  \/ \E s \in 1 .. 7 : ReturnTo(s)
WizardStep ==
  \E c \in flight : RoleMade(c) \/ PolicyMade(c) \/ PublishFails(c) \/ PublishPushes(c)

\* No step is left incomplete behind the user, so that what is published has a name, and a
\* role if it is for one.
StepsAreComplete ==
  OnWizard => /\ ui.step > 1 => ui.named
              /\ ui.step > 2 /\ ui.mode = "role" => ui.role

\* Where the review says something else than what is stored: a limit is never for a role but
\* for everyone or for a subject entered earlier, an unset subject means everyone, and allow
\* and deny are always for a role: the one chosen earlier, or a new one that nobody has.
Misleading(said) ==
  IF said.action = "rate_limit" THEN said.who \in {"the role", "unset"} ELSE said.who # "the role"

\* A policy that is published is the one that the review described when Publish was pressed,
\* even if its second call is sent after the user has gone back and changed the wizard.
PublishedAsExplained ==
  OnWizard => \A c \in InFlight("publish") :
                c.here => /\ c.about.scope = c.said.scope /\ c.about.action = c.said.action
                          /\ c.about.who = c.said.who \/ Misleading(c.said)

-----------------------------------------------------------------------------
(* RulesTab and the buttons of PolicyDetailPage. Two of the fields stand   *)
(* for the four: limit, which falls back to the cached value when the      *)
(* input is empty or 0, and burst, which is null when the input is empty.  *)
(* row is the backend's policy, copy the cached one; the inputs are set    *)
(* when the tab is mounted, and Cancel leaves them as they are. touched is *)
(* a history: the fields that the user has edited.                         *)

Nothing == 0  \* an empty input, and a burst of null

Policy(limit, burst) == [limit |-> limit, burst |-> burst]

RulesInit ==
  [row |-> Policy(1, Nothing), copy |-> Policy(1, Nothing), input |-> Policy(1, Nothing),
   editing |-> FALSE, confirming |-> FALSE, deleting |-> FALSE, saves |-> 0, touched |-> {},
   others |-> FALSE]

OnRules == page = "policy"

OpenPolicy == Open("policy", RulesInit)

EditRules == OnRules /\ ~ui.editing /\ Set([ui EXCEPT !.editing = TRUE])
CancelRules == OnRules /\ ui.editing /\ Set([ui EXCEPT !.editing = FALSE])

SetRule(f, v) ==
  /\ OnRules /\ ui.editing /\ ui.input[f] # v
  /\ Set([ui EXCEPT !.input[f] = v, !.touched = @ \cup {f}])

\* Another tab and back.
RemountRules == OnRules /\ ui.input # ui.copy /\ Set([ui EXCEPT !.input = ui.copy])

\* handleSave: every field is sent, touched or not.
Updates(u) == Policy(IF u.input.limit = 0 THEN u.copy.limit ELSE u.input.limit, u.input.burst)

SaveRules ==
  /\ OnRules /\ ui.editing /\ ui.saves < MaxSaves
  /\ Send([do |-> "updatePolicy", about |-> Updates(ui), here |-> TRUE, done |-> FALSE,
           n |-> ui.saves],
          [ui EXCEPT !.saves = @ + 1])

RulesServed(c) ==
  /\ c.do = "updatePolicy" /\ ~c.done
  /\ ui' = [ui EXCEPT !.row = c.about]
  /\ flight' = (flight \ {c}) \cup {[c EXCEPT !.done = TRUE]}
  /\ UNCHANGED page

\* The invalidation leads to PolicyRefetched.
RulesAnswered(c) ==
  c.do = "updatePolicy" /\ c.done /\ Take(c, [ui EXCEPT !.editing = FALSE])
RulesFail(c) == c.do = "updatePolicy" /\ Take(c, ui)

PolicyRefetched == OnRules /\ ui.copy # ui.row /\ Set([ui EXCEPT !.copy = ui.row])

OthersSetLimit ==
  OnRules /\ ~ui.others /\ Set([ui EXCEPT !.row.limit = 3, !.others = TRUE])

\* The buttons "Delete", "Cancel" and "Yes, delete".
AskDelete(b) == OnRules /\ ui.confirming # b /\ Set([ui EXCEPT !.confirming = b])
DeletePolicy ==
  /\ OnRules /\ ui.confirming /\ ~ui.deleting
  /\ Send(Call("deletePolicy", 0), [ui EXCEPT !.deleting = TRUE])
PolicyDeleted(c) == c.do = "deletePolicy" /\ Redirect(c, Elsewhere, [none |-> TRUE])
DeleteFails(c) ==
  c.do = "deletePolicy" /\ Take(c, IF OnRules /\ c.here THEN [ui EXCEPT !.deleting = FALSE] ELSE ui)

RulesUser ==
  \/ EditRules \/ CancelRules \/ RemountRules \/ SaveRules \/ OthersSetLimit \/ DeletePolicy
  \/ \E v \in 0 .. 2 : SetRule("limit", v)
  \/ \E v \in 0 .. 1 : SetRule("burst", v)
  \/ \E b \in BOOLEAN : AskDelete(b)
RulesStep ==
  \/ PolicyRefetched
  \/ \E c \in flight : RulesServed(c) \/ RulesAnswered(c) \/ RulesFail(c)
                       \/ PolicyDeleted(c) \/ DeleteFails(c)

\* A save changes only what the user edited and never stores an empty limit, however many saves
\* are in flight. It puts back another admin's change to a field that was not touched.
SavesWhatWasEdited ==
  OnRules => /\ ui.row.limit > 0
             /\ ui.row.limit # 1 /\ ~ui.others => "limit" \in ui.touched
             /\ ui.row.burst # Nothing => "burst" \in ui.touched

=============================================================================
