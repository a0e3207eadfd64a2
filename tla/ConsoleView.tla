---------------------------- MODULE ConsoleView ----------------------------
(***************************************************************************)
(* What the console's cache promises about one query: the backend holds    *)
(* some version of the data, the console shows an earlier one or none, and *)
(* while a page watches, what is shown only moves forward.                 *)
(***************************************************************************)
EXTENDS Naturals

CONSTANT None

VARIABLES
  held,    \* the version that the backend holds
  shown,   \* the version in the cache, or None
  watched  \* a page observes the query

vars == <<held, shown, watched>>

Init == held \in Nat /\ shown = None /\ watched \in BOOLEAN

Write == held' = held + 1 /\ UNCHANGED <<shown, watched>>

Show ==
  /\ shown' \in Nat /\ shown' <= held
  /\ shown # None => shown <= shown'
  /\ UNCHANGED <<held, watched>>

Turn == watched' \in BOOLEAN /\ UNCHANGED <<held, shown>>

Forget == ~watched /\ shown' = None /\ UNCHANGED <<held, watched>>

Next == Write \/ Show \/ Turn \/ Forget

Spec == Init /\ [][Next]_vars

=============================================================================
