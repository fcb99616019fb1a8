------------------------------ MODULE PhaseTrace ------------------------------
(***************************************************************************)
(* core/runner.py, _phase_trace: the phases a result reports, derived from *)
(* the steps of the run and not recorded while it runs.  So the report and *)
(* the run are two accounts of the same events, which may disagree.        *)
(*                                                                         *)
(* The status of "scenario_selection" depends on the request alone and is  *)
(* left out.                                                               *)
(***************************************************************************)
EXTENDS AgentRunner

ReportedPhases == Phases \ {"scenario_selection"}

(* _steps_for_phase: the phase a failed planner call names, else the phase *)
(* of the tool, else the last phase for an answer; possibly none.          *)
PhaseOfStepFault(s) ==
  IF s.tool # None /\ PhaseOf[s.tool] # None THEN PhaseOf[s.tool]
  ELSE IF s.phase # None THEN s.phase ELSE "final_validation"
PhaseOfStep(s) ==
  IF s.phase # None THEN s.phase
  ELSE IF s.tool # None /\ PhaseOf[s.tool] # None THEN PhaseOf[s.tool]
  ELSE IF s.state = "completed" THEN "final_validation" ELSE None

StepsInFault(phase) ==
  {i \in DOMAIN steps : PhaseOfStep(steps[i]) = phase /\ ~steps[i].error}
StepsIn(phase) == {i \in DOMAIN steps : PhaseOfStep(steps[i]) = phase}

FailsPhaseFault(s) == s.error
FailsPhase(s) == s.error \/ (s.reply # None /\ ~s.reply.ok)

(* _phase_status_detail, for a finished run.                               *)
FinalValidation ==
  IF \/ result.reason = "guardrail_triggered"
     \/ \E i \in StepsIn("final_validation") : steps[i].error
  THEN "failed"
  ELSE IF StepsIn("final_validation") # {} THEN "completed" ELSE "skipped"

ToolPhase(phase) ==
  IF StepsIn(phase) = {} THEN "skipped"
  ELSE IF \/ \E i \in StepsIn(phase) : FailsPhase(steps[i])
          \/ phase = "knowledge_retrieval" /\ GroundingSources = {}
       THEN "failed"
       ELSE "completed"

Status(phase) ==
  IF phase = "final_validation" THEN FinalValidation ELSE ToolPhase(phase)

(* _phase_usage.                                                           *)
PhaseTokens(phase) == Total(StepsIn(phase), StepTokens)

-----------------------------------------------------------------------------
(* The tools of the runner all belong to a phase.                          *)
EveryToolHasAPhase == \A n \in Registered : PhaseOf[n] # None

(* The last phase tells how the run ended ("final validation is skipped    *)
(* when no final answer was reached"): it is completed exactly when the    *)
(* run completed, and it failed whenever the guard stopped the answer.     *)
FinalValidationTellsTheEnd ==
  pc = "done" =>
    /\ FinalValidation = "completed" <=> result.reason = "completed"
    /\ result.reason = "guardrail_triggered" => FinalValidation = "failed"
    /\ FinalValidation = "failed" =>
         result.reason \in {"guardrail_triggered", "llm_error"}

(* The phases of the tools tell what ran: "unexecuted phases are skipped,  *)
(* not completed", one with an executed tool is not skipped, and "failed   *)
(* tool phases are marked failed": when tool errors ended the run, its     *)
(* last step called a tool, and the phase of that tool failed.             *)
ToolPhasesTellWhatRan ==
  pc = "done" =>
    /\ \A phase \in ReportedPhases \ {"final_validation"} :
         LET wasExecuted == \E j \in DOMAIN executed : PhaseOf[executed[j][1]] = phase
         IN  /\ Status(phase) = "completed" => wasExecuted
             /\ wasExecuted => Status(phase) # "skipped"
    /\ result.reason = "tool_error_limit" /\ steps # << >> =>
         /\ Current.tool # None
         /\ EveryToolHasAPhase => Status(PhaseOf[Current.tool]) = "failed"

(* The usage of a run is shown in its phases, but for that of a last step  *)
(* that was stopped before its tool was known.                             *)
PhasesShowTheUsage ==
  pc = "done" /\ EveryToolHasAPhase =>
    LET shown == Total(Phases, [phase \in Phases |-> PhaseTokens(phase)])
    IN  \/ shown = run.tokens
        \/ /\ shown + Current.tokens = run.tokens
           /\ Current.reply = None
           /\ result.reason \notin {"completed", "guardrail_triggered"}
=============================================================================
