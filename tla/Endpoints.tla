----------------------------- MODULE Endpoints -----------------------------
(***************************************************************************)
(* What the console asks of the backend: the hooks of                      *)
(* src/web/src/api/generated.ts that its pages use, the queries that pages *)
(* write by hand, and the handlers of the pages that write. A query is its *)
(* key, a sequence, and the tables that its answer is computed from; a     *)
(* mutation is the table that it writes.                                   *)
(***************************************************************************)
EXTENDS Naturals, Sequences

\* signal: the query function hands react-query's abort signal to the request, so that the
\* request is cancelled with its last observer.
Hook(key, of) == [key |-> key, of |-> of, signal |-> TRUE, retry |-> 1]
AdHoc(key, of, retry) == [key |-> key, of |-> of, signal |-> FALSE, retry |-> retry]

Me == [Hook(<<"/auth/me">>, {"account"}) EXCEPT !.retry = 0]
ListServers == Hook(<<"/v1/servers">>, {"servers"})
GetServer == Hook(<<"/v1/servers/slug">>, {"servers"})
ListApiKeys == Hook(<<"/v1/api-keys">>, {"keys"})
ListRoles == Hook(<<"/v1/roles">>, {"roles"})
ListPolicies == Hook(<<"/v1/rate-limit-policies">>, {"policies"})
ListAuditLogs(params) == Hook(<<"/v1/audit", params>>, {"audit"})
OrgGetLicense == Hook(<<"/v1/license">>, {"license"})
ListTenants == Hook(<<"/admin/tenants">>, {"tenants"})
OrgUsage == Hook(<<"/v1/usage">>, {"usage"})
AdminTelemetrySummary == Hook(<<"/admin/telemetry/summary">>, {"telemetry"})
AdminTelemetryInstances == Hook(<<"/admin/telemetry/instances">>, {"telemetry"})

Members == AdHoc(<<"/auth/members", "/auth/teams", "members">>, {"members", "teams"}, 1)
Teams == AdHoc(<<"/auth/teams", "/auth/members", "teams">>, {"members", "teams"}, 1)
License == AdHoc(<<"/v1/license", "license">>, {"license"}, 0)
McpTools == AdHoc(<<"mcp-tools", "slug">>, {"upstream"}, 1)
Healthz == AdHoc(<<"platform-healthz">>, {"gateway"}, 0)

\* The parameters with which the pages list audit events, and every query of the console.
AuditViews ==
  {"5", "50", "100", "200", "server50", "server200", "policy", "tool", "logs", "search",
   "developer", "admin", "auth", "auth200", "rbac"}

Queries ==
  {Me, ListServers, GetServer, ListApiKeys, ListRoles, ListPolicies, OrgGetLicense,
   ListTenants, OrgUsage, AdminTelemetrySummary, AdminTelemetryInstances, Members, Teams,
   License, McpTools, Healthz}
  \cup {ListAuditLogs(params) : params \in AuditViews}

CreateServer == "servers"
UpdateServer == "servers"
DeleteServer == "servers"
TriggerHealthProbe == "servers"
CreateApiKey == "keys"
RevokeApiKey == "keys"
CreateRole == "roles"
CreateBinding == "bindings"
CreatePermission == "permissions"
DeletePermission == "permissions"
CreatePolicy == "policies"
UpdatePolicy == "policies"
DeletePolicy == "policies"

-----------------------------------------------------------------------------
(* The handlers that write. calls are made one after the other and an      *)
(* error ends the handler, except that a lenient one skips it. In the end  *)
(* (an eager one after every call) the handler invalidates the keys of     *)
(* refreshes and refetches the queries of its own page; then it goes to a  *)
(* page.                                                                   *)

Handler(on, calls, refreshes, goes) ==
  [on |-> on, calls |-> calls, refreshes |-> refreshes, refetches |-> {}, goes |-> goes,
   eager |-> FALSE, lenient |-> FALSE]

Refetching(on, calls, refetches, refreshes) ==
  [Handler(on, calls, refreshes, on) EXCEPT !.refetches = refetches]

ServersKey == <<"/v1/servers">>
KeysKey == <<"/v1/api-keys">>
RolesKey == <<"/v1/roles">>
PoliciesKey == <<"/v1/rate-limit-policies">>

DeleteRow == Handler("servers", <<DeleteServer>>, {ServersKey}, "servers")
HealthCheck == Handler("servers", <<TriggerHealthProbe>>, {ServersKey}, "servers")
SaveServer == Handler("server", <<UpdateServer>>, {<<"/v1/servers/slug">>}, "server")
ToggleStatus == Handler("server", <<UpdateServer>>, {<<"/v1/servers/slug">>}, "server")
DeleteHere == Handler("server", <<DeleteServer>>, {ServersKey}, "servers")
Register == Handler("newServer", <<CreateServer>>, {}, "server")
AdminDisable == Handler("adminInfrastructure", <<UpdateServer>>, {ServersKey}, "adminInfrastructure")
AdminDelete == Handler("adminServers", <<DeleteServer>>, {ServersKey}, "adminServers")
OnboardServer == Handler("onboarding", <<CreateServer>>, {<<"listServersV1ServersGet">>}, "onboarding")

SubmitKey == Handler("keys", <<CreateApiKey>>, {KeysKey}, "keys")
RevokeKey == Handler("keys", <<RevokeApiKey>>, {KeysKey}, "keys")
DeveloperCreate == Handler("developerKeys", <<CreateApiKey>>, {KeysKey}, "developerKeys")
DeveloperRevoke == Handler("developerKeys", <<RevokeApiKey>>, {KeysKey}, "developerKeys")
AdminRevoke == Handler("adminUsers", <<RevokeApiKey>>, {KeysKey}, "adminUsers")
SecurityRevoke == Handler("adminSecurity", <<RevokeApiKey>>, {<<"listApiKeysV1ApiKeysGet">>}, "adminSecurity")
OnboardKey == Handler("onboarding", <<CreateApiKey>>, {<<"listApiKeysV1ApiKeysGet">>}, "onboarding")

SeedRoles ==
  [Handler("access", <<CreateRole, CreateRole>>, {RolesKey}, "access") EXCEPT !.lenient = TRUE]
AccessCreateRole == Handler("access", <<CreateRole>>, {RolesKey}, "access")
AddBinding == Handler("access", <<CreateBinding>>, {RolesKey}, "access")
RolesCreateRole == Handler("roles", <<CreateRole>>, {RolesKey}, "roles")
AddPermission == Handler("roles", <<CreatePermission>>, {}, "roles")
RemovePermission == Handler("roles", <<DeletePermission>>, {}, "roles")
AssignMember == Handler("roles", <<CreateBinding>>, {}, "roles")

PublishLimit == Handler("newPolicy", <<CreatePolicy>>, {PoliciesKey}, "policies")
PublishAccess ==
  [Handler("newPolicy", <<CreateRole, CreatePermission>>, {RolesKey}, "policies")
     EXCEPT !.eager = TRUE]
SavePolicy == Handler("policy", <<UpdatePolicy>>, {PoliciesKey}, "policy")
DeletePolicyHere == Handler("policy", <<DeletePolicy>>, {PoliciesKey}, "policies")
DeletePolicyRow == Handler("policies", <<DeletePolicy>>, {PoliciesKey}, "policies")
CreateLimit == Handler("rateLimits", <<CreatePolicy>>, {PoliciesKey}, "rateLimits")
DeleteLimit == Handler("rateLimits", <<DeletePolicy>>, {PoliciesKey}, "rateLimits")
OnboardPolicy == Handler("onboarding", <<CreatePolicy>>, {}, "onboarding")

CreateTeam == Refetching("teams", <<"teams">>, {Teams}, {ServersKey})
ToggleTeamServer == Refetching("teams", <<"teams">>, {Teams}, {ServersKey})
DeleteTeam == Refetching("teams", <<"teams">>, {Teams}, {})
InviteMember == Refetching("members", <<"members">>, {Members}, {})
EditMember == Refetching("members", <<"members">>, {Members}, {})
DeleteMember == Refetching("members", <<"members">>, {Members}, {})
ProvisionTenant == Refetching("adminOrganizations", <<"tenants">>, {ListTenants}, {})

Handlers ==
  {DeleteRow, HealthCheck, SaveServer, ToggleStatus, DeleteHere, Register, AdminDisable,
   AdminDelete, OnboardServer, SubmitKey, RevokeKey, DeveloperCreate, DeveloperRevoke,
   AdminRevoke, SecurityRevoke, OnboardKey, SeedRoles, AccessCreateRole, AddBinding,
   RolesCreateRole, AddPermission, RemovePermission, AssignMember, PublishLimit,
   PublishAccess, SavePolicy, DeletePolicyHere, DeletePolicyRow, CreateLimit, DeleteLimit,
   OnboardPolicy, CreateTeam, ToggleTeamServer, DeleteTeam, InviteMember, EditMember,
   DeleteMember, ProvisionTenant}

=============================================================================
