---------------------------- MODULE MCAuditChain ----------------------------
(* Instances of AuditChain for TLC: one tenant, and one event without one. *)
EXTENDS AuditChain

CONSTANTS e1, e2, e3, e4, t1

MCTenantOf == [e \in Events |-> IF e = e4 THEN NoTenant ELSE t1]
=============================================================================
