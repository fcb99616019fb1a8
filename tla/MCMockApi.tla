----------------------------- MODULE MCMockApi -----------------------------
(***************************************************************************)
(* A small instance of MockApi for TLC: two server threads; three keys  *)
(* for two retained runs, so that runs are evicted; two bodies that        *)
(* complete, one whose result exceeds its own size limit and one that      *)
(* names no scenario.                                                      *)
(***************************************************************************)
EXTENDS MockApi

CONSTANTS t1, t2, k1, k2, k3, b1, b2, big, odd

MCOutcome ==
  [body \in Bodies |-> CASE body = big -> "result_too_large"
                         [] body = odd -> "unknown_scenario"
                         [] OTHER -> "ok"]
=============================================================================
