--------------------------- MODULE ConsoleServers ---------------------------
(***************************************************************************)
(* The console's forms for a server: registration                          *)
(* (app/dashboard/servers/new/page.tsx), and the tabs Configuration and    *)
(* Playground of app/dashboard/servers/[slug]/page.tsx.                    *)
(***************************************************************************)
EXTENDS Console

CONSTANT MaxEdits  \* bound: changes to a form

ASSUME ServersAssumption == MaxEdits \in Nat

-----------------------------------------------------------------------------
(* ConfigurationTab. Two of the server's fields stand for all of them: the *)
(* user edits mine, other admins edit theirs. row is the backend's row,    *)
(* server the cached copy that the tab is given, form what the inputs      *)
(* hold, base the copy that they started from. told is what the last toast *)
(* says; lagged, overlapped and refetched note what happened: a comparison *)
(* with a copy older than an own save, two saves in flight, another        *)
(* admin's change in the copy.                                             *)

Fields == {"mine", "theirs"}

ConfigInit ==
  LET old == [f \in Fields |-> 0]
  IN  [row |-> old, server |-> old, form |-> old, base |-> old, saving |-> FALSE, tab |-> 0,
       edits |-> 0, told |-> "nothing", others |-> FALSE, refetched |-> FALSE,
       lagged |-> FALSE, overlapped |-> FALSE]

OnConfig == page = "config"

OpenConfig == Open("config", ConfigInit)

EditField ==
  /\ OnConfig /\ ui.edits < MaxEdits
  /\ \E v \in 0 .. MaxEdits \ {ui.form["mine"]} :
       Set([ui EXCEPT !.form["mine"] = v, !.edits = @ + 1, !.told = "nothing"])

\* mutant: the form is compared with what it started from
PatchSinceMount(u) == {f \in Fields : u.form[f] # u.base[f]}

\* The fields that a save sends: those that differ from the cached copy.
Patch(u) == {f \in Fields : u.form[f] # u.server[f]}

\* handleSave
Save ==
  /\ OnConfig /\ ~ui.saving
  /\ LET u == [ui EXCEPT !.lagged = @ \/ ui.server["mine"] # ui.row["mine"],
                         !.overlapped = @ \/ InFlight("save") # {}]
     IN  IF Patch(ui) = {}
         THEN Set([u EXCEPT !.told = "nothing to save"])
         ELSE Send([do |-> "save", about |-> [f \in Patch(ui) |-> ui.form[f]], here |-> TRUE,
                    tab |-> ui.tab, done |-> FALSE],
                   [u EXCEPT !.saving = TRUE, !.told = "nothing"])

SaveServed(c) ==
  /\ c.do = "save" /\ ~c.done
  /\ ui' = [ui EXCEPT !.row = [f \in Fields |-> IF f \in DOMAIN c.about THEN c.about[f] ELSE @[f]]]
  /\ flight' = (flight \ {c}) \cup {[c EXCEPT !.done = TRUE]}
  /\ UNCHANGED page

\* Success and failure end in finally; the invalidation leads to Refetched.
SaveAnswered(c) ==
  /\ c.do = "save" /\ c.done
  /\ Take(c, IF c.tab = ui.tab
             THEN [ui EXCEPT !.saving = FALSE,
                     !.told = IF "mine" \in DOMAIN c.about /\ c.about["mine"] = ui.form["mine"]
                              THEN "saved" ELSE @]
             ELSE ui)

SaveFails(c) ==
  /\ c.do = "save"
  /\ Take(c, IF c.tab = ui.tab THEN [ui EXCEPT !.saving = FALSE] ELSE ui)

\* The query is fetched again. The inputs keep what they hold.
Refetched ==
  /\ OnConfig /\ ui.server # ui.row
  /\ Set([ui EXCEPT !.server = ui.row, !.refetched = @ \/ ui.row["theirs"] # 0])

\* Another tab and back: the component is mounted anew with the copy as it is now.
SwitchTab ==
  /\ OnConfig /\ ui.tab = 0
  /\ Set([ui EXCEPT !.tab = 1, !.form = ui.server, !.base = ui.server, !.saving = FALSE,
                    !.told = "nothing"])

OthersEdit ==
  /\ OnConfig /\ ~ui.others
  /\ Set([ui EXCEPT !.row["theirs"] = MaxEdits + 1, !.others = TRUE])

ConfigUser == EditField \/ Save \/ SwitchTab \/ OthersEdit
ConfigStep ==
  Refetched \/ \E c \in flight : SaveServed(c) \/ SaveAnswered(c) \/ SaveFails(c)

\* What the toast says is so: after "Server updated" or "No changes to save" the backend has
\* what the form shows. Exceptions: the form was compared with a copy that an earlier save had
\* already outdated, or saves overtook each other, which takes a change of tabs to get around
\* the disabled button.
SavedIsStored ==
  OnConfig /\ ui.told # "nothing" =>
    ui.row["mine"] = ui.form["mine"] \/ ui.lagged \/ ui.overlapped

\* A save sends only what differs from the copy, so that another admin's change to a field
\* that the user never touched survives. It is lost when the copy has been fetched again since:
\* then the untouched input differs from the copy.
OthersEditsSurvive ==
  OnConfig /\ ui.others /\ ~ui.refetched => ui.row["theirs"] = MaxEdits + 1

-----------------------------------------------------------------------------
(* PlaygroundTab: call a tool of the server. answer is the tool whose      *)
(* answer is on the screen, 0 if there is none.                            *)

TesterInit == [tool |-> 0, state |-> "idle", answer |-> 0, valid |-> TRUE, calls |-> 0,
               crossed |-> FALSE]

OnTester == page = "tester"

OpenTester == Open("tester", TesterInit)

HandleToolChange(t) ==
  /\ OnTester /\ t # ui.tool
  /\ Set([ui EXCEPT !.tool = t, !.state = "idle", !.answer = 0, !.valid = TRUE,
                    !.crossed = @ \/ InFlight("call") # {}])

\* A field that takes JSON is filled in, well or badly.
SetArgument(ok) == OnTester /\ ui.tool # 0 /\ ok # ui.valid /\ Set([ui EXCEPT !.valid = ok])

\* handleCall
HandleCall ==
  /\ OnTester /\ ui.tool # 0 /\ ui.state # "calling" /\ ui.calls < MaxEdits
  /\ IF ui.valid
     THEN Send([do |-> "call", about |-> ui.tool, here |-> TRUE, n |-> ui.calls],
               [ui EXCEPT !.state = "calling", !.answer = 0, !.calls = @ + 1])
     ELSE Set([ui EXCEPT !.state = "error", !.answer = 0])

ToolAnswered(c) ==
  /\ c.do = "call" /\ OnTester
  /\ Take(c, [ui EXCEPT !.state = "done", !.answer = c.about])

ToolFails(c) ==
  /\ c.do = "call" /\ OnTester
  /\ Take(c, [ui EXCEPT !.state = "error"])

TesterUser ==
  (\E t \in 0 .. 2 : HandleToolChange(t)) \/ (\E ok \in BOOLEAN : SetArgument(ok)) \/ HandleCall
TesterStep == \E c \in flight : ToolAnswered(c) \/ ToolFails(c)

\* The result on the screen is the selected tool's, and a tool is shown as being called only
\* while its call is in flight. An answer that comes after another tool was selected is shown
\* as that tool's.
ResultFitsTool ==
  OnTester /\ ~ui.crossed =>
    /\ ui.state = "done" => ui.answer = ui.tool
    /\ ui.state = "calling" => \E c \in InFlight("call") : c.about = ui.tool

-----------------------------------------------------------------------------
(* NewServerPage. A name stands for itself and for the slug that slugify   *)
(* makes of it, 0 for an empty input. test is the state of                 *)
(* ConnectionTestPanel, which a change of the URL leaves as it is.         *)
(* Another server has the slug of Taken.                                   *)

Taken == 2

Urls == {"none", "malformed", "valid"}

RegisterInit ==
  [name |-> 0, slug |-> 0, touched |-> FALSE, url |-> "none", pending |-> FALSE,
   test |-> "idle", edits |-> 0]

OnRegister == page = "register"

OpenRegister == Open("register", RegisterInit)

\* The effect makes the slug follow the name until the user edits the slug.
SetServerName(n) ==
  /\ OnRegister /\ n # ui.name /\ ui.edits < MaxEdits + 1
  /\ Set([ui EXCEPT !.name = n, !.slug = IF ui.touched THEN @ ELSE n, !.edits = @ + 1])

SetSlug(s) ==
  /\ OnRegister /\ s # ui.slug /\ ui.edits < MaxEdits + 1
  /\ Set([ui EXCEPT !.slug = s, !.touched = TRUE, !.edits = @ + 1])

SetUrl(url) ==
  /\ OnRegister /\ url # ui.url /\ ui.edits < MaxEdits + 1
  /\ Set([ui EXCEPT !.url = url, !.edits = @ + 1])

\* handleTestConnection, with its timer of five seconds.
TestConnection ==
  /\ OnRegister /\ ui.url = "valid" /\ ui.test # "testing"
  /\ Send(Call("test", ui.url), [ui EXCEPT !.test = "testing"])

\* The answer is opaque and counts as success; an error and the timer count as failure.
TestEnds(c, how) ==
  /\ c.do = "test" /\ OnRegister
  /\ Take(c, [ui EXCEPT !.test = how])

\* handleSubmit
SubmitServer ==
  /\ OnRegister /\ ui.name # 0 /\ ui.slug # 0 /\ ui.url = "valid" /\ ~ui.pending
  /\ Send(Call("newServer", ui.slug), [ui EXCEPT !.pending = TRUE])

\* The page that the handler pushes.
Landing(c) == c.about

\* The server is created and the router goes to its page, wherever the user is by now.
Registered(c) ==
  /\ c.do = "newServer" /\ c.about # Taken
  /\ Redirect(c, "landing", [slug |-> Landing(c), exists |-> {c.about}])

\* A slug that is taken, or any other error.
RegisterFails(c) ==
  /\ c.do = "newServer"
  /\ Take(c, IF OnRegister /\ c.here THEN [ui EXCEPT !.pending = FALSE] ELSE ui)

RegisterUser ==
  \/ \E n \in 0 .. 2 : SetServerName(n) \/ SetSlug(n)
  \/ \E url \in Urls : SetUrl(url)
  \/ TestConnection \/ SubmitServer

RegisterStep ==
  \E c \in flight : Registered(c) \/ RegisterFails(c) \/ \E how \in {"ok", "failed"} : TestEnds(c, how)

\* The redirect after a registration leads to the page of the server that was registered,
\* although the inputs can be edited while the call is in flight.
LandsOnServer == page = "landing" => ui.slug \in ui.exists

=============================================================================
