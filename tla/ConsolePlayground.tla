------------------------- MODULE ConsolePlayground -------------------------
(***************************************************************************)
(* The playgrounds of the console: app/dashboard/playground/page.tsx, with *)
(* typed confirmation, replay and saved examples, and the simpler one in   *)
(* app/developer/playground/page.tsx. Both let the user choose another     *)
(* server or tool while a call is running.                                 *)
(***************************************************************************)
EXTENDS Console

CONSTANTS
  MaxExamples,  \* saved examples that the page keeps (19 older ones and the new one)
  MaxRuns       \* bound: executions while the page is open

ASSUME PlaygroundAssumption == MaxExamples \in Nat \ {0} /\ MaxRuns \in Nat

\* The servers have the same two tools, of which the second one looks destructive. What the
\* user types into the form or into the editor is a number; 0 is the empty form and {}.
Slugs == {1, 2}
Tools == {1, 2}
NoTool == 0
Typed == {0, 1}
Unparsable == 2
NoArgs == 3

\* getRisk goes by words in the tool's name; critical and high are destructive.
GetRisk(tool) == IF tool = 2 THEN "critical" ELSE "low"
IsDestructive(tool) == GetRisk(tool) \in {"critical", "high"}

-----------------------------------------------------------------------------
(* The dashboard's playground. listed is the set of servers whose tools    *)
(* the query has. Histories: confirmed (the tools whose names were typed), *)
(* late (a result came for a tool that was no longer loaded), kept (the    *)
(* arguments of the example that was loaded, until the user or an effect   *)
(* replaces them).                                                         *)

PlaygroundInit ==
  [server |-> 1, tool |-> NoTool, loaded |-> NoTool, listed |-> {}, mode |-> "form",
   fields |-> 0, json |-> 0, confirm |-> FALSE, named |-> NoTool, running |-> FALSE,
   result |-> NoTool, compare |-> NoTool, examples |-> <<>>, runs |-> 0,
   confirmed |-> {}, late |-> FALSE, kept |-> NoArgs]

OnPlayground == page = "playground"

\* The page may be opened on a tool that the address names.
OpenPlayground == \E t \in Tools \cup {NoTool} : Open("playground", [PlaygroundInit EXCEPT !.tool = t])

\* mutant: the result of the tool that was loaded before stays
LoadToolKeepsResult(u) ==
  [u EXCEPT !.loaded = u.tool, !.fields = 0, !.json = 0, !.compare = NoTool,
            !.kept = NoArgs]

\* The effect on [tools, toolName], once the tools are there.
LoadTool(u) ==
  [u EXCEPT !.loaded = u.tool, !.fields = 0, !.json = 0, !.result = NoTool, !.compare = NoTool,
            !.kept = NoArgs]

ToolFound(u) == u.tool # NoTool /\ u.server \in u.listed

\* The effect on [mode]: the editor gets the form's arguments, those that the render saw.
SyncJson(u, v, w) ==
  IF u.mode # v.mode /\ v.mode = "json" /\ v.loaded # NoTool
  THEN [w EXCEPT !.json = v.fields, !.kept = NoArgs] ELSE w

\* The page's state once it is rendered with v after u, with its effects in their order.
Render(u, v) ==
  LET changed == \/ u.tool # v.tool
                 \/ u.server # v.server
                 \/ (u.server \in u.listed) # (v.server \in v.listed)
  IN  SyncJson(u, v, IF changed /\ ToolFound(v) THEN LoadTool(v) ELSE v)

SetPlayground(v) == Set(Render(ui, v))

ToolsListed == OnPlayground /\ ui.server \notin ui.listed
               /\ SetPlayground([ui EXCEPT !.listed = @ \cup {ui.server}])

\* A refetch finds other tools, or tools with other schemas: the loaded one is loaded again.
ToolsChanged == OnPlayground /\ ToolFound(ui) /\ Set(LoadTool(ui))

SelectServer(s) ==
  /\ OnPlayground /\ ~ui.confirm /\ s # ui.server
  /\ SetPlayground([ui EXCEPT !.server = s, !.tool = NoTool, !.loaded = NoTool, !.result = NoTool,
                              !.kept = NoArgs])

SelectTool(t) ==
  /\ OnPlayground /\ ~ui.confirm /\ ui.server \in ui.listed /\ t # ui.tool
  /\ SetPlayground([ui EXCEPT !.tool = t])

SetMode(m) ==
  /\ OnPlayground /\ ~ui.confirm /\ ui.loaded # NoTool /\ m # ui.mode
  /\ SetPlayground([ui EXCEPT !.mode = m, !.kept = NoArgs])

EditArgs(x) ==
  /\ OnPlayground /\ ~ui.confirm /\ ui.loaded # NoTool
  /\ IF ui.mode = "form"
     THEN x # Unparsable /\ SetPlayground([ui EXCEPT !.fields = x, !.kept = NoArgs])
     ELSE SetPlayground([ui EXCEPT !.json = x, !.kept = NoArgs])

CurrentArgs(u) == IF u.mode = "form" THEN u.fields ELSE u.json

\* execTool: the request, with the server and the tool that the click saw.
ExecTool(compare, u) ==
  [do |-> "run", about |-> u.loaded, here |-> TRUE, server |-> u.server,
   compare |-> compare, confirmed |-> u.loaded \in u.confirmed]

\* doRun: nothing is sent if the editor's text is not JSON.
DoRun(compare, u) ==
  IF u.mode = "json" /\ u.json = Unparsable
  THEN Set(u)
  ELSE /\ u.runs < MaxRuns
       /\ Send(ExecTool(compare, u), [u EXCEPT !.running = TRUE, !.runs = @ + 1])

\* The button, or Ctrl+Enter.
HandleExecute ==
  /\ OnPlayground /\ ui.loaded # NoTool /\ ~ui.running /\ ~ui.confirm
  /\ IF IsDestructive(ui.loaded)
     THEN Set([ui EXCEPT !.confirm = TRUE])
     ELSE DoRun(FALSE, ui)

TypeToolName(t) == OnPlayground /\ ui.confirm /\ ui.named # t /\ Set([ui EXCEPT !.named = t])
CancelConfirm == OnPlayground /\ ui.confirm /\ Set([ui EXCEPT !.confirm = FALSE, !.named = NoTool])

HandleConfirm ==
  /\ OnPlayground /\ ui.confirm /\ ui.named = ui.loaded
  /\ DoRun(FALSE, [ui EXCEPT !.confirm = FALSE, !.named = NoTool,
                              !.confirmed = @ \cup {ui.loaded}])

\* Replay and Compare are there once there is a result, and ask for nothing.
Replay(compare) ==
  /\ OnPlayground /\ ui.result # NoTool /\ ui.loaded # NoTool /\ ~ui.running /\ ~ui.confirm
  /\ DoRun(compare, ui)

\* The result is shown whatever is loaded by now.
RunAnswered(c) ==
  /\ c.do = "run"
  /\ Take(c, [ui EXCEPT !.running = FALSE,
                        !.result = IF c.compare THEN @ ELSE c.about,
                        !.compare = IF c.compare THEN c.about ELSE NoTool,
                        !.late = @ \/ c.about # ui.loaded \/ c.server # ui.server])

\* An error, or the timeout.
RunFails(c) == c.do = "run" /\ Take(c, [ui EXCEPT !.running = FALSE])

\* handleSaveExample: text that is not JSON is saved as {}.
SaveExample ==
  /\ OnPlayground /\ ui.loaded # NoTool /\ ~ui.confirm
  /\ LET example == [server |-> ui.server, tool |-> ui.loaded,
                     args |-> IF CurrentArgs(ui) = Unparsable THEN 0 ELSE CurrentArgs(ui)]
         kept == SubSeq(ui.examples, 1, IF Len(ui.examples) < MaxExamples - 1
                                        THEN Len(ui.examples) ELSE MaxExamples - 1)
     IN  Set([ui EXCEPT !.examples = <<example>> \o kept])

LoadExample(i) ==
  /\ OnPlayground /\ i \in DOMAIN ui.examples /\ ~ui.confirm
  /\ LET example == ui.examples[i]
     IN  SetPlayground([ui EXCEPT !.server = example.server, !.tool = example.tool,
                                  !.json = example.args, !.mode = "json", !.kept = example.args])

PlaygroundUser ==
  \/ \E s \in Slugs : SelectServer(s)
  \/ \E t \in Tools : SelectTool(t) \/ TypeToolName(t)
  \/ \E m \in {"form", "json"} : SetMode(m)
  \/ \E x \in Typed \cup {Unparsable} : EditArgs(x)
  \/ HandleExecute \/ CancelConfirm \/ HandleConfirm
  \/ Replay(FALSE) \/ Replay(TRUE)
  \/ SaveExample
  \/ \E i \in 1 .. MaxExamples : LoadExample(i)

PlaygroundStep ==
  \/ ToolsListed \/ ToolsChanged
  \/ \E c \in flight : RunAnswered(c) \/ RunFails(c)

\* A destructive tool runs only after its name was typed on this page: the buttons that
\* do not ask are there only for what was asked for before. A result that comes after another
\* tool was chosen breaks this, because those buttons come with it.
DestructiveIsConfirmed ==
  \A c \in InFlight("run") : IsDestructive(c.about) /\ ~ui.late => c.confirmed

\* The editor shows the arguments of the example that was loaded until the user edits them or
\* an effect that is due replaces them: the one of a change of mode, or of the tool. No more
\* than MaxExamples are kept.
ExamplesComeBack ==
  OnPlayground => /\ Len(ui.examples) <= MaxExamples
                  /\ ui.kept # NoArgs => ui.mode = "json" /\ ui.json = ui.kept

-----------------------------------------------------------------------------
(* The developer's playground: what runs is the tool that was loaded, or   *)
(* the selected one if none was.                                           *)

DeveloperInit ==
  [server |-> 1, tool |-> NoTool, loaded |-> NoTool, listed |-> {}, fields |-> 0,
   running |-> FALSE, result |-> NoTool, runs |-> 0, late |-> FALSE]

OnDeveloper == page = "developerPlayground"

OpenDeveloper ==
  \E t \in Tools \cup {NoTool} : Open("developerPlayground", [DeveloperInit EXCEPT !.tool = t])

ActiveTool(u) ==
  CASE u.loaded # NoTool -> u.loaded
    [] u.loaded = NoTool /\ u.server \in u.listed -> u.tool
    [] OTHER -> NoTool

DeveloperListed == OnDeveloper /\ ui.server \notin ui.listed
                   /\ Set([ui EXCEPT !.listed = @ \cup {ui.server}])

ChooseServer(s) ==
  /\ OnDeveloper /\ s # ui.server
  /\ Set([ui EXCEPT !.server = s, !.tool = NoTool, !.loaded = NoTool, !.result = NoTool])

ChooseTool(t) ==
  /\ OnDeveloper /\ ui.server \in ui.listed /\ t # ui.tool
  /\ Set([ui EXCEPT !.tool = t, !.loaded = NoTool, !.result = NoTool])

HandleLoadTool ==
  /\ OnDeveloper /\ ui.tool # NoTool /\ ui.server \in ui.listed
  /\ Set([ui EXCEPT !.loaded = ui.tool, !.fields = 0, !.result = NoTool])

DeveloperTypes(x) ==
  OnDeveloper /\ ActiveTool(ui) # NoTool /\ x # ui.fields /\ Set([ui EXCEPT !.fields = x])

CallTool(u) ==
  [do |-> "callTool", about |-> ActiveTool(u), here |-> TRUE, server |-> u.server,
   selected |-> u.tool]

HandleRun ==
  /\ OnDeveloper /\ ActiveTool(ui) # NoTool /\ ~ui.running /\ ui.runs < MaxRuns
  /\ Send(CallTool(ui), [ui EXCEPT !.running = TRUE, !.result = NoTool, !.runs = @ + 1])

CallAnswered(c) ==
  /\ c.do = "callTool"
  /\ Take(c, [ui EXCEPT !.running = FALSE, !.result = c.about,
                        !.late = @ \/ c.about # ui.tool \/ c.server # ui.server])

CallFails(c) == c.do = "callTool" /\ Take(c, [ui EXCEPT !.running = FALSE])

DeveloperUser ==
  \/ \E s \in Slugs : ChooseServer(s)
  \/ \E t \in Tools : ChooseTool(t)
  \/ \E x \in Typed : DeveloperTypes(x)
  \/ HandleLoadTool \/ HandleRun

DeveloperStep == DeveloperListed \/ \E c \in flight : CallAnswered(c) \/ CallFails(c)

\* What runs is the tool that the selector shows, although the page keeps a loaded tool beside
\* it, and the result on the page is that tool's unless it came late.
RunsSelectedTool ==
  /\ \A c \in InFlight("callTool") : c.about = c.selected
  /\ OnDeveloper /\ ui.result # NoTool /\ ~ui.late => ui.result = ui.tool

=============================================================================
