--------------------------- MODULE MCSlidingWindow ---------------------------
(* Instances of SlidingWindow for TLC. *)
EXTENDS SlidingWindow, FiniteSetsExt

(* What README.md says the tests of the rate limiter prove: "no over-admission
   regardless of timing": no more than Limit requests in any Window. *)
NoOverAdmission ==
  MapThenSumSet(LAMBDA t : total[t], {t \in 0..time : t > time - Window}) <= Limit
=============================================================================
