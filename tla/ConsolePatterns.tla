-------------------------- MODULE ConsolePatterns --------------------------
(***************************************************************************)
(* The console's own matching of names with the patterns of a policy, next *)
(* to fnmatch, with which the backend decides: the tabs Coverage and Test  *)
(* of app/dashboard/policies/[id]/page.tsx, the step Test of the wizard    *)
(* (app/dashboard/policies/new/page.tsx) and the limits that the page of a *)
(* tool lists. Names and patterns are sequences of characters: a stands    *)
(* for the letters, the dot is the one character of names that a regular   *)
(* expression takes otherwise. The empty pattern is the absent one.        *)
(***************************************************************************)
EXTENDS Console, SequencesExt

CONSTANT MaxLength  \* bound: characters of a pattern and of a name

ASSUME PatternsAssumption == MaxLength \in Nat

Strings(chars) == UNION {[1 .. n -> chars] : n \in 0 .. MaxLength}

ToolPatterns == Strings({"a", ".", "*"})
ToolNames == Strings({"a", "."}) \ {<<>>}
ServerPatterns == {<<>>, <<"a">>, <<".">>, <<"*">>}
ServerNames == {<<"a">>, <<".">>}
Subjects == {"none", "s1", "s2"}

-----------------------------------------------------------------------------
\* Whether pattern p from its i-th character on matches all of n from its j-th on. A star
\* matches any run; the characters of any match every character.
Wild(p, n, any) ==
  LET m[i \in 1 .. Len(p) + 1, j \in 1 .. Len(n) + 1] ==
        IF i > Len(p) THEN j > Len(n)
        ELSE IF p[i] = "*" THEN m[i + 1, j] \/ (j <= Len(n) /\ m[i, j + 1])
        ELSE j <= Len(n) /\ (p[i] = n[j] \/ p[i] \in any) /\ m[i + 1, j + 1]
  IN  m[1, 1]

\* _policy_matches: fnmatch, if the policy has a pattern at all.
Fnmatch(p, n) == p = <<>> \/ Wild(p, n, {})

\* new RegExp("^" + pattern with ".*" for "*" + "$"); a dot matches every character.
RegexMatches(p, n) == p = <<>> \/ p = <<"*">> \/ Wild(p, n, {"."})

\* matchesPattern of a tool's page
MatchesPattern(p, n) ==
  \/ p = <<>> \/ p = <<"*">>
  \/ IF Last(p) = "*" THEN IsPrefix(Front(p), n) ELSE p = n

\* The wizard drops the first star and looks for what is left at the beginning.
WizardMatches(p, n) ==
  LET stars == {i \in DOMAIN p : p[i] = "*"}
      first == CHOOSE i \in stars : \A j \in stars : i <= j
  IN  p = <<>> \/ p = <<"*">> \/ p = n
      \/ IsPrefix(IF stars = {} THEN p ELSE RemoveAt(p, first), n)

\* The servers that the tab Coverage lists.
MatchedServers(p) == {n \in ServerNames : RegexMatches(p, n)}

\* Whether the page of a tool lists the policy among its limits.
MatchingPolicy(server, tool, slug, name) == MatchesPattern(server, slug) /\ MatchesPattern(tool, name)

-----------------------------------------------------------------------------
(* TestTab: the inputs start as an example made from the patterns; Run     *)
(* leaves a verdict, which editing an input leaves in place. subject is    *)
(* the policy's, asked the one that the user tries.                        *)

\* The policy has not been fetched yet: the tab is not there.
TestInit ==
  [policy |-> FALSE, tool |-> <<>>, server |-> <<>>, subject |-> "none",
   toolName |-> <<>>, slug |-> <<>>, asked |-> "none", verdict |-> "none"]

OnTest == page = "policyTest"

OpenPolicyTest == Open("policyTest", TestInit)

\* pattern.replace(/\*/g, "read_file") ?? "read_file"
Example(p) ==
  IF p = <<>> THEN <<"a">> ELSE [i \in DOMAIN p |-> IF p[i] = "*" THEN "a" ELSE p[i]]

\* The tab is mounted with the policy that the query found.
PolicyLoaded(tool, server, subject) ==
  /\ OnTest /\ ~ui.policy
  /\ Set([ui EXCEPT !.policy = TRUE, !.tool = tool, !.server = server, !.subject = subject,
                    !.toolName = Example(tool), !.slug = Example(server)])

SetTool(n) == OnTest /\ ui.policy /\ n # ui.toolName /\ Set([ui EXCEPT !.toolName = n])
SetServer(n) == OnTest /\ ui.policy /\ n # ui.slug /\ Set([ui EXCEPT !.slug = n])
SetAsked(s) == OnTest /\ ui.policy /\ s # ui.asked /\ Set([ui EXCEPT !.asked = s])

\* simulate: the first of subject, server and tool that does not match.
Simulate(u) ==
  IF u.subject \notin {"none", u.asked} THEN "other subject"
  ELSE IF ~RegexMatches(u.server, u.slug) THEN "other server"
  ELSE IF ~RegexMatches(u.tool, u.toolName) THEN "other tool"
  ELSE "applies"

RunTest == OnTest /\ ui.policy /\ Set([ui EXCEPT !.verdict = Simulate(ui)])

PatternsUser ==
  \/ \E n \in ToolNames : SetTool(n)
  \/ \E n \in ServerNames : SetServer(n)
  \/ \E s \in Subjects : SetAsked(s)
  \/ RunTest
PatternsStep ==
  \E t \in ToolPatterns, s \in ServerPatterns, x \in {"none", "s1"} : PolicyLoaded(t, s, x)

-----------------------------------------------------------------------------

Stars(p) == {i \in DOMAIN p : p[i] = "*"}

\* What the console says of a pattern is what the backend does with it, for the patterns for
\* which that is so. A regular expression agrees on patterns without a dot and matches too
\* much otherwise. A tool's page agrees on patterns whose only star is at the end, and lists
\* too few limits otherwise. The wizard takes a name without a star for a prefix.
\* The tabs Test and Coverage agree on the servers.
MatchersAgree ==
  OnTest /\ ui.policy =>
    LET p == ui.tool
        n == ui.toolName
    IN  /\ Fnmatch(p, n) => RegexMatches(p, n)
        /\ (\A i \in DOMAIN p : p[i] # ".") => (RegexMatches(p, n) <=> Fnmatch(p, n))
        /\ Stars(p) \subseteq {Len(p)} => (MatchesPattern(p, n) <=> Fnmatch(p, n))
        /\ Stars(p) = {Len(p)} => (WizardMatches(p, n) <=> Fnmatch(p, n))
        /\ Stars(p) \subseteq {Len(p)} =>
             (MatchingPolicy(ui.server, p, ui.slug, n) <=> Fnmatch(ui.server, ui.slug) /\ Fnmatch(p, n))
        /\ Simulate(ui) \in {"other tool", "applies"} /\ ui.slug \in ServerNames =>
             ui.slug \in MatchedServers(ui.server)

\* The example that the tab starts with is one that the policy applies to, for the backend as
\* for the simulation, once the subject is filled in.
ExampleApplies ==
  OnTest /\ ui.policy /\ ui.toolName = Example(ui.tool) /\ ui.slug = Example(ui.server) =>
    /\ Fnmatch(ui.tool, ui.toolName) /\ Fnmatch(ui.server, ui.slug)
    /\ Simulate(ui) \in {"applies", "other subject"}

-----------------------------------------------------------------------------
(* The risk of a tool, which three pages guess from words: the catalogue   *)
(* (tools/page.tsx), the tool's page and the playground. words are the     *)
(* telling words that stand by themselves in the name, parts those that    *)
(* are joined to others, as in delete_file: an underscore is no boundary   *)
(* of a word. said are those of the description.                           *)

Telling == {"destroy", "change", "query", "get"}
RatedTools == [words: SUBSET Telling, parts: SUBSET Telling, said: SUBSET Telling, many: BOOLEAN]
Severity == [low |-> 0, medium |-> 1, high |-> 2, critical |-> 3]

DeriveRiskLevel(t) ==
  LET text == t.words \cup t.said
  IN  IF "destroy" \in text THEN "critical" ELSE IF "change" \in text THEN "high"
      ELSE IF text \cap {"query", "get"} # {} /\ t.many THEN "medium" ELSE "low"

\* The tool's page looks for the words anywhere in the name.
GetRiskLevel(t) ==
  LET name == t.words \cup t.parts
  IN  IF "destroy" \in name THEN "critical" ELSE IF "change" \in name THEN "high"
      ELSE IF "query" \in name THEN "medium" ELSE "low"

\* getRisk of the playground, which asks for a confirmation if it is high or critical.
PlaygroundRisk(t) ==
  LET name == t.words \cup t.parts
  IN  IF "destroy" \in name THEN "critical" ELSE IF "change" \in name THEN "high"
      ELSE IF "query" \in name THEN "medium" ELSE "low"

OpenRisk == \E t \in RatedTools : Open("risk", [tool |-> t])

\* A tool that its own page calls high or critical asks for a confirmation in the playground and
\* no other does. The catalogue does not call it less, unless the word that tells is joined to
\* another one; such tools it rates by their description only.
RisksAgree ==
  page = "risk" =>
    LET t == ui.tool
        own == GetRiskLevel(t)
    IN  /\ (own \in {"high", "critical"}) = (PlaygroundRisk(t) \in {"high", "critical"})
        /\ own \in {"high", "critical"} /\ t.parts \cap {"destroy", "change"} = {} =>
             Severity[DeriveRiskLevel(t)] >= Severity[own]
        /\ t.words = {} /\ t.said = {} => DeriveRiskLevel(t) = "low"
        /\ "destroy" \in t.words \cup t.parts => own = "critical"

=============================================================================
