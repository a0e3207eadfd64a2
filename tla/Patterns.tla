------------------------------ MODULE Patterns -------------------------------
(* What permission rules and rate-limit policies have in common: they are rows
   of a table, are about subjects, and name servers and tools by fnmatch
   patterns. What a pattern matches and how many literal characters it has is
   all the code asks of it, so that is what a pattern is here. *)
EXTENDS Integers

CONSTANTS
  Subjects,  \* [type, id]: an OAuth sub may equal the id of a key
  Servers,   \* slugs of servers, and "management_api"
  Tools,     \* tools, methods or management routes
  Rows,      \* bound: identities of tool_permissions and rate_limit_policies rows
  None

(* fnmatch.fnmatchcase(name, pattern) *)
Matches(name, pattern) == name \in pattern.names

(* _pattern_specificity: the characters of the pattern that are no wildcards. *)
Specificity(pattern) == pattern.literals
=============================================================================
