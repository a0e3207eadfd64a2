--------------------------- MODULE MCServerHealth ----------------------------
(* Instances of ServerHealth for TLC. *)
EXTENDS ServerHealth

CONSTANTS r1, r2, p1, a1, a2
=============================================================================
