---------------------------- MODULE MCPermissions ----------------------------
(* An instance of Permissions for TLC: two tenants, an API key of the first and
   an OAuth subject that has the same id, two roles, and rules whose patterns
   overlap with every order of specificity and priority. *)
EXTENDS Permissions

CONSTANTS t1, t2

MCSubjects == {[type |-> "api_key", id |-> "k"], [type |-> "oauth_subject", id |-> "k"]}
MCKeyTenant == [id \in {"k"} |-> t1]

AnyServer == [names |-> {"github"}, literals |-> 0]
Github == [names |-> {"github"}, literals |-> 6]
AnyTool == [names |-> {"list", "delete"}, literals |-> 0]
Delete == [names |-> {"delete"}, literals |-> 6]

MCRules ==
  {[server |-> AnyServer, tool |-> AnyTool, effect |-> "allow", priority |-> 0],
   [server |-> AnyServer, tool |-> Delete, effect |-> "deny", priority |-> 0],
   [server |-> AnyServer, tool |-> Delete, effect |-> "allow", priority |-> 0],
   [server |-> Github, tool |-> AnyTool, effect |-> "allow", priority |-> 0],
   [server |-> Github, tool |-> AnyTool, effect |-> "deny", priority |-> 1]}
=============================================================================
