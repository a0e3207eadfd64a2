--------------------------- MODULE MCConsoleCache ---------------------------
(* ConsoleCache with one query of each kind. *)
EXTENDS ConsoleCache

MCWatched ==
  {ListServers, GetServer, ListApiKeys, ListRoles, ListPolicies, Members, Teams, ListTenants,
   ListAuditLogs("logs"), ListAuditLogs("200"), ListAuditLogs("server50")}

=============================================================================
