--------------------------- MODULE StopController ---------------------------
(***************************************************************************)
(* core/stop_controller.py: the pure function that decides, from the       *)
(* accounting of one run, whether the run must stop and why.               *)
(*                                                                         *)
(* Times, costs and token counts are natural numbers; a limit of 0 means   *)
(* "no limit" for time, tokens and cost, and really means 0 for steps and  *)
(* consecutive tool errors.                                                *)
(***************************************************************************)
EXTENDS Integers

(* The value of StopReason, one string per member of the enum. *)
StopReasons ==
  { "completed", "max_steps", "max_time", "max_tokens", "max_cost",
    "repeated_tool_call", "tool_error_limit", "invalid_args_after_repair",
    "guardrail_triggered", "needs_human", "unknown_tool", "llm_error",
    "invalid_decision" }

(* RunLimits. *)
RunLimits ==
  [maxSteps : Nat, maxTime : Nat, maxTokens : Nat, maxCost : Nat,
   toolErrorLimit : Nat]

(* StopDecision.continue_run(). *)
Continue == "continue"

OutOfTimeFault(run, limits, now) ==
  limits.maxTime > 1 /\ now - run.startedAt > limits.maxTime
OutOfTime(run, limits, now) ==
  limits.maxTime > 0 /\ now - run.startedAt > limits.maxTime

OutOfTokensFault(run, limits) ==
  limits.maxTokens > 0 /\ run.tokens > limits.maxTokens
OutOfTokens(run, limits) ==
  limits.maxTokens > 0 /\ run.tokens > 0 /\ run.tokens >= limits.maxTokens

OutOfMoney(run, limits) ==
  limits.maxCost > 0 /\ run.cost > 0 /\ run.cost >= limits.maxCost

TooManyErrors(run, limits) == run.toolErrors >= limits.toolErrorLimit

(* The first check that fires names the reason. *)
EvaluateStop(run, limits, includeStepLimit, now) ==
  IF run.guardrail THEN "guardrail_triggered"
  ELSE IF run.repairFailed THEN "invalid_args_after_repair"
  ELSE IF includeStepLimit /\ run.stepCount >= limits.maxSteps THEN "max_steps"
  ELSE IF OutOfTime(run, limits, now) THEN "max_time"
  ELSE IF OutOfTokens(run, limits) THEN "max_tokens"
  ELSE IF OutOfMoney(run, limits) THEN "max_cost"
  ELSE IF TooManyErrors(run, limits) THEN "tool_error_limit"
  ELSE Continue
=============================================================================
