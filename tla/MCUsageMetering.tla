--------------------------- MODULE MCUsageMetering ---------------------------
(* Instances of UsageMetering for TLC: the deltas of two tenants alternate, so
   that two replicas can flush the tenants in opposite orders. *)
EXTENDS UsageMetering

CONSTANTS r1, r2, t1, t2

MCTenant == [e \in Events |-> IF e % 2 = 1 THEN t1 ELSE t2]
AnyRoute == [e \in Events |-> Replicas]
SplitRoute == [e \in Events |-> IF e <= 2 THEN {r1} ELSE {r2}]
=============================================================================
