----------------------------- MODULE Permissions -----------------------------
(***************************************************************************)
(* Role-based tool permissions: roles, bindings and rules as                *)
(* repositories/rbac.py stores them and the admins of each tenant edit them *)
(* through api/roles.py, and the decision of auth/rbac.py that the proxy    *)
(* takes on every call and auth/tool_filter.py on every listed tool.        *)
(***************************************************************************)
EXTENDS Patterns, FiniteSets

CONSTANTS Tenants, Roles,
          KeyTenant,  \* [ids of API keys, however UUID() accepts them -> Tenants]
          Rules       \* the contents [server, tool, effect, priority] a rule may have

ASSUME PermissionsAssumption ==
  /\ None \notin Tenants
  /\ \A s \in Subjects : s.type \in {"api_key", "oauth_subject"}
  /\ \A r \in Rules : /\ r.effect \in {"allow", "deny"} /\ r.priority \in Int
                      /\ r.server.literals \in Nat /\ r.tool.literals \in Nat

VARIABLES
  owner,        \* [Roles -> Tenants, or None before the role is created]
  bindings,     \* role_bindings: pairs of a role and a subject
  permissions   \* tool_permissions: [Rows -> [role, rule] or None]

rbacVars == <<owner, bindings, permissions>>

Row == [role : Roles, rule : Rules]

(* Bindings and rules hang off roles that exist (foreign keys). *)
RbacTypeOK ==
  /\ owner \in [Roles -> Tenants \cup {None}]
  /\ bindings \subseteq Roles \X Subjects
  /\ permissions \in [Rows -> Row \cup {None}]
  /\ \A b \in bindings : owner[b[1]] # None
  /\ \A i \in Rows : permissions[i] # None => owner[permissions[i].role] # None

RbacInit ==
  /\ owner = [r \in Roles |-> None]
  /\ bindings = {}
  /\ permissions = [i \in Rows |-> None]

-----------------------------------------------------------------------------
\* mutant: the join does not compare the tenant of the role
PermissionsForAnyTenant(t, s) ==
  {permissions[i].rule : i \in {j \in Rows : /\ permissions[j] # None
                                             /\ <<permissions[j].role, s>> \in bindings}}

(* get_permissions_for_subject *)
PermissionsFor(t, s) ==
  {permissions[i].rule : i \in {j \in Rows : /\ permissions[j] # None
                                             /\ owner[permissions[j].role] = t
                                             /\ <<permissions[j].role, s>> \in bindings}}

RuleSpecificity(r) == Specificity(r.server) + Specificity(r.tool)

\* mutant: the better of the two patterns decides instead of their sum
RanksAboveEither(a, b) ==
  \/ Specificity(a.server) > Specificity(b.server)
  \/ Specificity(a.tool) > Specificity(b.tool)
  \/ RuleSpecificity(a) = RuleSpecificity(b) /\ a.priority > b.priority

(* _rank_key: specificity first, priority among equals. *)
RanksAbove(a, b) ==
  \/ RuleSpecificity(a) > RuleSpecificity(b)
  \/ RuleSpecificity(a) = RuleSpecificity(b) /\ a.priority > b.priority

Matching(rules, server, tool) ==
  {r \in rules : Matches(server, r.server) /\ Matches(tool, r.tool)}

TopSet(rules) == {r \in rules : \A q \in rules : ~RanksAbove(q, r)}

(* evaluate_permission: default deny; a deny among the top-ranked rules wins. *)
EvaluatePermission(rules, server, tool) ==
  LET matching == Matching(rules, server, tool)
  IN  matching # {} /\ \A r \in TopSet(matching) : r.effect = "allow"

Allowed ==
  {q \in Tenants \X Subjects \X Servers \X Tools :
     EvaluatePermission(PermissionsFor(q[1], q[2]), q[3], q[4])}

-----------------------------------------------------------------------------
(* The endpoints, called by an admin of tenant t. A role or a rule that is not
   the tenant's is a 404 that changes nothing. Roles are never deleted, so the
   check of the role and the change that follows it are one step. *)
CreateRole(t, r) ==
  /\ owner[r] = None
  /\ owner' = [owner EXCEPT ![r] = t]
  /\ UNCHANGED <<bindings, permissions>>

(* A key must belong to the tenant; an OAuth subject is not checked. A binding
   is unique: a second one fails on the constraint. *)
CreateBinding(t, r, s) ==
  /\ owner[r] = t
  /\ s.type = "api_key" => s.id \in DOMAIN KeyTenant /\ KeyTenant[s.id] = t
  /\ <<r, s>> \notin bindings
  /\ bindings' = bindings \cup {<<r, s>>}
  /\ UNCHANGED <<owner, permissions>>

DeleteBinding(t, r, s) ==
  /\ owner[r] = t
  /\ <<r, s>> \in bindings
  /\ bindings' = bindings \ {<<r, s>>}
  /\ UNCHANGED <<owner, permissions>>

CreatePermission(t, r, i, rule) ==
  /\ owner[r] = t
  /\ permissions[i] = None
  /\ permissions' = [permissions EXCEPT ![i] = [role |-> r, rule |-> rule]]
  /\ UNCHANGED <<owner, bindings>>

DeletePermission(t, i) ==
  /\ permissions[i] # None
  /\ owner[permissions[i].role] = t
  /\ permissions' = [permissions EXCEPT ![i] = None]
  /\ UNCHANGED <<owner, bindings>>

Admin(t) ==
  \/ \E r \in Roles : CreateRole(t, r)
  \/ \E r \in Roles, s \in Subjects : CreateBinding(t, r, s) \/ DeleteBinding(t, r, s)
  \/ \E r \in Roles, i \in Rows, rule \in Rules : CreatePermission(t, r, i, rule)
  \/ \E i \in Rows : DeletePermission(t, i)

RbacNext == \E t \in Tenants : Admin(t)

RbacSpec == RbacInit /\ [][RbacNext]_rbacVars

-----------------------------------------------------------------------------
Creates(effect) ==
  \E t \in Tenants, r \in Roles, i \in Rows, rule \in Rules :
    rule.effect = effect /\ CreatePermission(t, r, i, rule)

(* A deny rule only takes away: whatever its patterns and priority and whatever
   other roles the subject has, adding it allows no call that was denied. *)
DenyNeverGrants == [][Creates("deny") => Allowed' \subseteq Allowed]_rbacVars

(* An allow rule only gives: adding it denies no call that was allowed, which
   is what evaluating all top-ranked rules and not the first one is for. *)
AllowNeverRevokes == [][Creates("allow") => Allowed \subseteq Allowed']_rbacVars

(* Rules are monotone: the administrator who adds one need not know the others to
   tell in which direction it moves the decisions. *)
RulesAreMonotone ==
  [][(Creates("deny") => Allowed' \subseteq Allowed) /\ (Creates("allow") => Allowed \subseteq Allowed')]_rbacVars

(* Tenants are isolated: what the admins of one tenant do, the binding of an
   OAuth subject known to several tenants included, changes no decision about
   the subjects of another one. *)
TenantIsolation ==
  [][\A t \in Tenants : Admin(t) =>
       \A q \in (Tenants \ {t}) \X Subjects \X Servers \X Tools :
         (q \in Allowed) = (q \in Allowed')]_rbacVars

-----------------------------------------------------------------------------
(* README, section 11.3: "most-specific server match first, then rule priority,
   then default-deny". *)
ReadmeTop(rules) ==
  {r \in rules : \A q \in rules :
     \/ Specificity(r.server) > Specificity(q.server)
     \/ Specificity(r.server) = Specificity(q.server) /\ r.priority >= q.priority}

ServerThenPriority ==
  \A q \in Tenants \X Subjects \X Servers \X Tools :
    LET matching == Matching(PermissionsFor(q[1], q[2]), q[3], q[4])
    IN  q \in Allowed <=> /\ matching # {}
                          /\ \A r \in ReadmeTop(matching) : r.effect = "allow"
=============================================================================
