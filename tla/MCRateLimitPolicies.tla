------------------------- MODULE MCRateLimitPolicies -------------------------
(* Instances of RateLimitPolicies for TLC. *)
EXTENDS RateLimitPolicies, TLC

MCSubjects == {[type |-> "api_key", id |-> "a"], [type |-> "oauth_subject", id |-> "b"]}
OneSubject == {[type |-> "api_key", id |-> "a"]}
MCSegment == [id \in {"a", "b"} |-> id]

(* The first two differ in the tool, the last in the server. *)
Spread(s) == {<<s, "s", "d">>, <<s, "s", "e">>, <<s, "management_api", "d">>}
MCCalls == Spread([type |-> "api_key", id |-> "a"])
AllCalls == Subjects \X Servers \X Tools

ServerS == [names |-> {"s"}, literals |-> 1]
ToolD == [names |-> {"d"}, literals |-> 1]

Policy(id, server, tool, algorithm, limit, priority) ==
  [id |-> id, type |-> "api_key", server |-> server, tool |-> tool,
   algorithm |-> algorithm, limit |-> limit, priority |-> priority]

MCDefault == Policy(None, None, None, "token_bucket", 1, 0)

(* A limit of one subject that is raised and lowered, the same limit with the
   other algorithm, one for the subject and a server, and a global one that
   outranks them all by priority. *)
MCPolicies ==
  {Policy("a", None, None, "token_bucket", 2, 0),
   Policy("a", None, None, "token_bucket", 1, 0),
   Policy("a", None, None, "sliding_window", 1, 0),
   Policy("a", ServerS, None, "sliding_window", 1, 0),
   Policy(None, None, None, "sliding_window", 1, 1)}

GlobalPolicies == {Policy(None, None, None, "sliding_window", 1, 0)}
SubjectToolPolicies == {Policy("a", None, ToolD, "token_bucket", 1, 0)}

(* Rows are interchangeable: only the set of their contents is read. *)
Symmetry == Permutations(Rows)
=============================================================================
