---------------------------- MODULE MCAgentRunner ----------------------------
(***************************************************************************)
(* Instances of AgentRunner small enough for TLC.  One agent has a         *)
(* retrieval tool, a learner tool, a write tool and a name that is not     *)
(* registered.                                                             *)
(***************************************************************************)
EXTENDS AgentRunner

MCNames == {"rag.search", "learner.profile", "quiz.save", "ghost"}
MCRegistered == MCNames \ {"ghost"}
MCWriteTools == {"quiz.save"}
MCPhaseOf ==
  [n \in MCNames |->
     CASE n = "rag.search" -> "knowledge_retrieval"
       [] n = "learner.profile" -> "learner_context"
       [] n = "quiz.save" -> "practice_branch"
       [] OTHER -> None]

(* Control: one argument object, one that fails validation for one tool,   *)
(* and one that is no object.                                              *)
MCArgs == {"a", "bad", "list"}
MCValidCalls ==
  (MCRegistered \X {"a"}) \cup {<<"rag.search", "bad">>}

Limits(maxSteps, time, tokens, cost, errors) ==
  [maxSteps |-> maxSteps, maxTime |-> time, maxTokens |-> tokens,
   maxCost |-> cost, toolErrorLimit |-> errors]

Request(hasRunId, live, limits) ==
  [hasRunId |-> hasRunId, live |-> live, limits |-> limits]

Source(id, file, title, index) ==
  [identity |-> id, file |-> file, title |-> title, index |-> index]

Reply(ok, evidence, list, tokens, cost, priced) ==
  [ok |-> ok, hasEvidence |-> evidence, sources |-> list, tokens |-> tokens,
   cost |-> cost, priced |-> priced]

(* --- control: budgets, clocks, failures --------------------------------- *)
ControlSources == {Source("f1", "f1", NoLabel, NoLabel)}
ControlRequests ==
  { Request(FALSE, FALSE, Limits(1, 0, 0, 0, 1)),
    Request(TRUE, TRUE, Limits(2, 0, 2, 0, 1)),
    Request(TRUE, FALSE, Limits(2, 0, 0, 2, 2)),
    Request(TRUE, FALSE, Limits(0, 0, 0, 0, 2)),
    Request(TRUE, FALSE, Limits(1, 0, 0, 0, 0)) }
ControlReplies ==
  { Reply(TRUE, TRUE, <<Source("f1", "f1", NoLabel, NoLabel)>>, 1, 0, FALSE),
    Reply(FALSE, FALSE, << >>, 0, 1, TRUE),
    Reply(TRUE, FALSE, << >>, Malformed, 1, TRUE) }

(* --- deadline: a clock that moves --------------------------------------- *)
DeadlineRequests ==
  { Request(TRUE, FALSE, Limits(2, 1, 0, 0, 2)),
    Request(TRUE, FALSE, Limits(2, 2, 0, 0, 2)) }
DeadlineReplies == { Reply(TRUE, FALSE, << >>, 0, 0, FALSE) }

(* --- evidence: entries for one node with other fields, a small cap ------- *)
Named == Source("n1", "f1", NoLabel, "1")
Titled == Source("n1", NoLabel, "t1", "2")
Unlabelled == Source("f2", NoLabel, NoLabel, "2")
EvidenceSources == {Named, Titled, Unlabelled}
EvidenceRequests == { Request(TRUE, FALSE, Limits(3, 0, 0, 0, 2)) }
EvidenceReplies ==
  { Reply(TRUE, TRUE, <<Named>>, 0, 0, FALSE),
    Reply(TRUE, TRUE, <<Unlabelled, Titled>>, 0, 0, FALSE),
    Reply(FALSE, TRUE, <<Titled>>, 0, 0, FALSE) }
EvidenceNames == {"rag.search", "learner.profile"}
EvidencePhaseOf == [n \in EvidenceNames |-> MCPhaseOf[n]]
EvidenceCalls == EvidenceNames \X {"a"}
=============================================================================
