------------------------------ MODULE MCGateway ------------------------------
(* Instances of Gateway for TLC. *)
EXTENDS Gateway, TLC

Post(method) == [method |-> method, rpc_id |-> TRUE, dry_run |-> FALSE, sse |-> FALSE]
Notification == [Post("initialize") EXCEPT !.rpc_id = FALSE]
DryRun(method) == [Post(method) EXCEPT !.dry_run = TRUE]
Streamed(method) == [Post(method) EXCEPT !.sse = TRUE]

(* One shape for every path through the handlers. *)
AllShapes == {Post(m) : m \in Methods \ {"GET"}}
             \cup {Notification, [Notification EXCEPT !.sse = TRUE], StreamShape}
             \cup {Streamed("tools/call"), DryRun("tools/call"), DryRun("session/terminate")}

(* The shapes that differ in what they do to the session registry. *)
SessionShapes == {Post("initialize"), Post("session/terminate"), Notification}

(* Workers and owners are interchangeable. *)
Symmetry == Permutations(Workers) \cup Permutations(Owners)
=============================================================================
