------------------------- MODULE ConsoleOnboarding -------------------------
(***************************************************************************)
(* The onboarding wizard (app/onboarding/page.tsx). Its steps are          *)
(* components that are defined inside the page's component, so whenever    *)
(* the page is rendered again they are mounted anew and lose what they     *)
(* hold, the flag that keeps a form from being submitted twice included:   *)
(* a mutation renders the page as soon as it is pending. Handlers close    *)
(* over ob, the wizard's state, and write all of it back when they are     *)
(* answered. A copy is in sessionStorage, which outlives the page.         *)
(***************************************************************************)
EXTENDS Console

CONSTANT MaxSubmits  \* bound: forms submitted, and visits to the page

ASSUME OnboardingAssumption == MaxSubmits \in Nat

NoKey == 0
InitialState == [role |-> FALSE, org |-> FALSE, server |-> FALSE, policy |-> FALSE, key |-> NoKey]
StepOrder == <<"welcome", "org", "server", "policy", "apikey", "done">>
Blank == [step |-> "welcome", ob |-> InitialState]

\* stored is what a new mount restores; it is Blank when the storage is empty. made counts the
\* API keys that were created, and last is the one that was answered last. Histories: overtaken
\* (an answer was applied that had closed over another ob), ahead (the page is ahead of the
\* copy: a role was chosen, or a key was answered when its step had been left).
OnboardingInit ==
  [step |-> "welcome", ob |-> InitialState, stored |-> Blank, submits |-> 0, visits |-> 0,
   made |-> 0, last |-> NoKey, overtaken |-> FALSE, ahead |-> FALSE]

OnOnboarding == page = "onboarding"

OpenOnboarding == Open("onboarding", OnboardingInit)

At(step) == OnOnboarding /\ ui.step = step

\* mutant: only the page's own state
GoUnsaved(u, step, ob) == [u EXCEPT !.step = step, !.ob = ob]

\* go: the step, the state and the copy of both.
GoTo(u, step, ob) ==
  [u EXCEPT !.step = step, !.ob = ob, !.stored = [step |-> step, ob |-> ob], !.ahead = FALSE]

\* updateOb
ChooseRole ==
  At("welcome") /\ ~ui.ob.role /\ Set([ui EXCEPT !.ob.role = TRUE, !.ahead = TRUE])

GetStarted == At("welcome") /\ ui.ob.role /\ Set(GoTo(ui, "org", ui.ob))

SubmitOrg == At("org") /\ Set(GoTo(ui, "server", [ui.ob EXCEPT !.org = TRUE]))

\* The arrow; the screen that shows a key has none.
GoBack ==
  \E i \in 2 .. 5 : /\ At(StepOrder[i])
                    /\ StepOrder[i] = "apikey" => ui.ob.key = NoKey
                    /\ Set(GoTo(ui, StepOrder[i - 1], ui.ob))

UseExistingServer == At("server") /\ Set(GoTo(ui, "policy", [ui.ob EXCEPT !.server = TRUE]))
SkipPolicy == At("policy") /\ Set(GoTo(ui, "apikey", [ui.ob EXCEPT !.policy = FALSE]))

\* Continue from the key, or Skip if the tenant has keys already.
ToDone == At("apikey") /\ (ui.ob.key # NoKey \/ ui.made > 0) /\ Set(GoTo(ui, "done", ui.ob))

SentBy == [server |-> "createServer", policy |-> "createPolicy", apikey |-> "createApiKey"]

\* A form of the wizard is sent; its button is not disabled for long (see above).
SubmitForm ==
  /\ OnOnboarding /\ ui.step \in DOMAIN SentBy /\ ui.submits < MaxSubmits
  /\ ui.step = "apikey" => ui.ob.key = NoKey
  /\ Send([do |-> SentBy[ui.step], about |-> ui.submits, here |-> TRUE, ob |-> ui.ob],
          [ui EXCEPT !.submits = @ + 1])

\* What a handler leaves when its page is gone: only the copy is written.
Applied(c, u) == IF c.here THEN u
                 ELSE [ui EXCEPT !.stored = u.stored, !.ahead = TRUE, !.overtaken = TRUE]

Overtaken(c) == [ui EXCEPT !.overtaken = @ \/ c.ob.key # ui.ob.key \/ ~c.here]

ServerMade(c) ==
  /\ c.do = "createServer"
  /\ Take(c, Applied(c, GoTo(Overtaken(c), "policy", [c.ob EXCEPT !.server = TRUE])))

FirstPolicyMade(c) ==
  /\ c.do = "createPolicy"
  /\ Take(c, Applied(c, GoTo(Overtaken(c), "apikey", [c.ob EXCEPT !.policy = TRUE])))

\* The key's plaintext is part of the state; the step does not change, the copy's does.
FirstKeyMade(c) ==
  /\ c.do = "createApiKey"
  /\ LET key == ui.made + 1
         ob  == [c.ob EXCEPT !.key = key]
         u   == [Overtaken(c) EXCEPT !.made = key, !.last = key,
                                     !.stored = [step |-> "apikey", ob |-> ob]]
     IN  Take(c, IF c.here THEN [u EXCEPT !.ob = ob, !.ahead = @ \/ ui.step # "apikey"]
                           ELSE [u EXCEPT !.ahead = TRUE])

FormFails(c) == c.do \in {SentBy[s] : s \in DOMAIN SentBy} /\ Take(c, ui)

\* The page is mounted with the copy: after a reload, which ends its handlers, or after a visit
\* to another page, which does not.
Restore(u) == [u EXCEPT !.step = u.stored.step, !.ob = u.stored.ob, !.visits = @ + 1, !.ahead = FALSE]

Reload ==
  /\ OnOnboarding /\ ui.visits < MaxSubmits
  /\ ui' = Restore(ui) /\ flight' = {} /\ UNCHANGED page

LeaveAndReturn ==
  /\ OnOnboarding /\ ui.visits < MaxSubmits
  /\ ui' = Restore(ui) /\ flight' = {[c EXCEPT !.here = FALSE] : c \in flight} /\ UNCHANGED page

\* Go to dashboard: the copy is removed.
FinishOnboarding ==
  /\ At("done")
  /\ Open(Elsewhere, [none |-> TRUE])

OnboardingUser ==
  \/ ChooseRole \/ GetStarted \/ SubmitOrg \/ GoBack \/ UseExistingServer \/ SkipPolicy
  \/ ToDone \/ SubmitForm \/ Reload \/ LeaveAndReturn \/ FinishOnboarding

OnboardingStep ==
  \E c \in flight : ServerMade(c) \/ FirstPolicyMade(c) \/ FirstKeyMade(c) \/ FormFails(c)

\* The key that was created last is part of the wizard's state until it is finished, across
\* steps and reloads: "you won't be able to see it again" (page.tsx:957). An answer that had
\* closed over the state from before the key removes it.
KeyIsKept == OnOnboarding /\ ~ui.overtaken => ui.ob.key = ui.last

\* "Persist step + state in sessionStorage so refresh doesn't reset" (page.tsx:180). The role
\* is not saved when it is chosen, a key's answer saves its own step, and a handler of an
\* earlier visit saves what the page does not show.
RefreshResumes ==
  OnOnboarding /\ ~ui.ahead => ui.stored = [step |-> ui.step, ob |-> ui.ob]

=============================================================================
