----------------------------- MODULE MCPhaseTrace -----------------------------
(***************************************************************************)
(* An instance of PhaseTrace in which every failure carries a message: the *)
(* tools of MCAgentRunner, replies that ground, fail or are weak, a clock  *)
(* that moves between any two port calls.                                  *)
(***************************************************************************)
EXTENDS MCAgentRunner, PhaseTrace

TraceRequests ==
  { Request(FALSE, FALSE, Limits(1, 0, 0, 0, 1)),
    Request(TRUE, FALSE, Limits(2, 0, 2, 0, 1)),
    Request(TRUE, FALSE, Limits(2, 1, 0, 0, 2)),
    Request(TRUE, FALSE, Limits(2, 2, 0, 0, 2)) }
TraceReplies == ControlReplies \cup { Reply(TRUE, FALSE, << >>, 0, 0, FALSE) }
=============================================================================
