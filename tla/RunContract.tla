----------------------------- MODULE RunContract -----------------------------
(***************************************************************************)
(* What a run of the agent promises its caller (docs/core.md), without a   *)
(* word about planners, budgets, steps or stores: while a run is open it   *)
(* may perform allowed calls, each at most once; it closes once, with one  *)
(* outcome; and the outcome is "grounded" only if a retrieval call was     *)
(* performed.                                                              *)
(***************************************************************************)
CONSTANTS AllowedCalls, RetrievalCalls

VARIABLES stage, performed, outcome

vars == <<stage, performed, outcome>>

Init == stage = "idle" /\ performed = {} /\ outcome = "none"

Open ==
  /\ stage = "idle"
  /\ stage' = "open"
  /\ UNCHANGED <<performed, outcome>>

Perform(call) ==
  /\ stage = "open"
  /\ call \notin performed
  /\ performed' = performed \cup {call}
  /\ UNCHANGED <<stage, outcome>>

Close ==
  /\ stage \in {"idle", "open"}
  /\ stage' = "closed"
  /\ outcome' \in {"grounded", "abstain", "guardrails_fallback"}
  /\ outcome' = "grounded" => performed \cap RetrievalCalls # {}
  /\ UNCHANGED performed

Next == Open \/ Close \/ \E call \in AllowedCalls : Perform(call)

Spec == Init /\ [][Next]_vars
=============================================================================
