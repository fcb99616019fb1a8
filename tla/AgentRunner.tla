----------------------------- MODULE AgentRunner -----------------------------
(***************************************************************************)
(* core/runner.py: AgentRunner.run, one request from its submission to the *)
(* result handed back to the caller.                                       *)
(*                                                                         *)
(* The runner is sequential; what makes it hard is its environment.  Every *)
(* port call (planner, tool executor, security policy, usage accounting,   *)
(* clock, run store) may raise, and every action below is the code between *)
(* two port calls, with the outcome of the call chosen nondeterministically.*)
(* "pc" names the port call the runner makes next.                         *)
(***************************************************************************)
EXTENDS StopController, Evidence, Sums, FiniteSetsExt, SequencesExt

CONSTANTS
  Requests,     \* requests: [hasRunId, live : BOOLEAN, limits : RunLimits]
  Names,        \* the tool names a planner may utter
  Registered,   \* the tools the runner was built with
  WriteTools,   \* registered tools whose access is "write"
  PhaseOf,      \* phase_for_tool, by name
  Args,         \* the arguments a planner may utter
  NotAnObject,  \* arguments that are not a mapping
  ValidCalls,   \* the calls validate_tool_args accepts
  ToolReplies,  \* what a tool returns, after secure_tool_result
  TokenCounts,  \* what the planner may report as usage
  Malformed,    \* a usage report that accounting rejects
  Messageless,  \* the ports that may raise an exception without a message
  ClockBound,   \* the last clock value (a bound of the model)
  None          \* Python's None

Phases ==
  { "scenario_selection", "learner_context", "knowledge_retrieval",
    "practice_branch", "final_validation" }

(* The phases of _TOOL_PHASE_PREFIXES: a tool belongs to one or to none.   *)
ToolPhases == {"learner_context", "knowledge_retrieval", "practice_branch"}

(* The ports whose failures the runner learns of as a text: trace_text of  *)
(* the exception.  When the exception has no message the text is empty,    *)
(* and the runner takes an empty text for "no failure".                    *)
Ports == {"planner", "reset", "clock", "store", "security", "executor"}

(* Does a failure of the port carry a message? *)
Says(port) == IF port \in Messageless THEN BOOLEAN ELSE {TRUE}

(* What comes of offering an event to the store: only "failed" is noticed. *)
StoreOutcomes ==
  {"stored", "failed"} \cup (IF "store" \in Messageless THEN {"lost"} ELSE {})

(* The tool call hash is taken over the name and the arguments.            *)
Calls == Names \X Args

Decisions ==
  [action : {"final_answer"}, cites : SUBSET Marks, abstains : BOOLEAN,
   fallback : BOOLEAN]
  \cup [action : {"tool_call"}, call : Calls]
  \cup [action : {"other"}]

AgentStates == {"running", "tool_call", "needs_human", "stopped", "completed"}

Usage == TokenCounts \cup {Malformed}

ToolReplyType ==
  [ok : BOOLEAN, hasEvidence : BOOLEAN, sources : Seq(Sources),
   tokens : Nat \cup {Malformed}, cost : Nat, priced : BOOLEAN]

(* How a run ends: the arguments of _finish; and what the caller gets.     *)
EndingType ==
  [reason : StopReasons, fallback : BOOLEAN, cites : SUBSET Marks,
   abstains : BOOLEAN]

ResultType ==
  [reason : StopReasons,
   status : {"grounded", "abstain", "guardrails_fallback"},
   fallback : BOOLEAN, cites : SUBSET Marks,
   cost : {"unknown", "estimated", "local_zero"}]

ASSUME RunnerAssumption ==
  /\ Requests \subseteq [hasRunId : BOOLEAN, live : BOOLEAN, limits : RunLimits]
  /\ WriteTools \subseteq Registered /\ Registered \subseteq Names
  /\ PhaseOf \in [Names -> ToolPhases \cup {None}]
  /\ ValidCalls \subseteq Registered \X (Args \ {NotAnObject})
  /\ ToolReplies \subseteq ToolReplyType
  /\ \A r \in ToolReplies : r.cost > 0 => r.priced   \* account_tool_usage
  /\ TokenCounts \subseteq Nat
  /\ Malformed \notin Nat
  /\ Messageless \subseteq Ports
  /\ ClockBound \in Nat
  /\ None \notin Names /\ None \notin Phases /\ None \notin ToolReplies
  /\ None \notin EndingType /\ None \notin ResultType

VARIABLES
  pc,        \* the port call the runner makes next
  request,   \* the request, or None
  now,       \* the clock
  run,       \* RunState
  steps,     \* the AgentSteps of the run
  sources,   \* the merged sources, by identity
  decision,  \* the planner decision being carried out
  ending,    \* how the run ends: the arguments of _finish, or None
  log,       \* what the run store was offered, in order
  executed,  \* the calls the tool executor received, in order
  result     \* the AgentRunResult, or None

vars == <<pc, request, now, run, steps, sources, decision, ending, log,
          executed, result>>

-----------------------------------------------------------------------------
(* The run's records.                                                      *)

NewRun(r, t) ==
  [startedAt |-> t, stepCount |-> 0, calls |-> {}, toolErrors |-> 0,
   tokens |-> 0, cost |-> 0, priced |-> FALSE, unpriced |-> r.live,
   guardrail |-> FALSE, repairFailed |-> FALSE]

(* "cloud": a route with a non-local backend was recorded for the step.    *)
NewStep ==
  [state |-> "running", phase |-> None, tool |-> None, reply |-> None,
   error |-> FALSE, tokens |-> 0, cost |-> 0, cloud |-> FALSE]

Current == steps[Len(steps)]
UpdateStep(s) == steps' = [steps EXCEPT ![Len(steps)] = s]

Stopped(s) == [s EXCEPT !.state = "stopped", !.error = TRUE]

(* Stopped by an exception: the error is the text of the exception.        *)
StoppedBy(s, said) == [Stopped(s) EXCEPT !.error = said]

(* The events offered to the store: what came of it, and what the step     *)
(* looked like when it was offered.                                        *)
Event(kind, index, step, outcome) ==
  [kind |-> kind, index |-> index, step |-> step, outcome |-> outcome]

(* A finish with a fallback answer: every way to end but a guarded answer. *)
Fallback(reason) ==
  [reason |-> reason, fallback |-> TRUE, cites |-> {}, abstains |-> FALSE]

(* A planner port may raise with a phase, a routing and a usage attached;  *)
(* a malformed call result, decision or routing raises with none of them,  *)
(* except the routes recorded before the malformed one.                    *)
PlannerFailures ==
  [phase : Phases \cup {None}, cloud : BOOLEAN, tokens : Usage,
   said : Says("planner")]

PlannerResults == [decision : Decisions, cloud : BOOLEAN, tokens : Usage]

(* RunState.reset_tool_errors and increment_tool_error.                    *)
ToolErrorsFault(n, ok) == IF ok THEN n - 1 ELSE n + 1
ToolErrors(n, ok) == IF ok THEN 0 ELSE n + 1

(* SimpleUsageAccounting: a malformed counter leaves the totals alone.     *)
Counted(tokens) == IF tokens = Malformed THEN 0 ELSE tokens

(* _record_step_usage_delta: the step keeps what the run was charged.      *)
WithToolUsageFault(s, reply) ==
  [s EXCEPT !.tokens = reply.tokens, !.cost = reply.cost]
WithToolUsage(s, reply) ==
  [s EXCEPT !.tokens = @ + reply.tokens, !.cost = @ + reply.cost]

-----------------------------------------------------------------------------
(* The result (contracts.py) and its projections.                          *)

(* A step whose sources may ground an answer: an ok reply of a retrieval   *)
(* tool, with evidence and a labelled source.                              *)
GroundsAnswersFault(s) ==
  /\ s.reply # None
  /\ s.reply.ok
  /\ Labelled(Elements(s.reply.sources))
  /\ s.reply.hasEvidence
GroundsAnswers(s) ==
  /\ s.reply # None
  /\ s.reply.ok
  /\ s.tool # None /\ PhaseOf[s.tool] = "knowledge_retrieval"
  /\ Labelled(Elements(s.reply.sources))
  /\ s.reply.hasEvidence

GroundingSources ==
  UNION {Elements(s.reply.sources) : s \in {t \in Elements(steps) : GroundsAnswers(t)}}

AnswerStatus(e) ==
  IF e.reason = "guardrail_triggered" THEN "guardrails_fallback"
  ELSE IF /\ e.reason = "completed"
          /\ ~e.fallback
          /\ ~e.abstains
          /\ GroundingSources # {}
          /\ Labelled({sources[id] : id \in DOMAIN sources})
          /\ CitesOne(e.cites, GroundingSources)
       THEN "grounded"
       ELSE "abstain"

CostStatus ==
  IF run.unpriced THEN "unknown"
  ELSE IF run.priced THEN "estimated" ELSE "local_zero"

FinishedResultFault(e) ==
  [reason |-> e.reason, status |-> AnswerStatus(e), fallback |-> e.fallback,
   cites |-> e.cites, cost |-> CostStatus]

(* _finish: a successful run that abstains gets the fallback answer.       *)
FinishedResult(e) ==
  LET enforced == e.reason = "completed" /\ AnswerStatus(e) = "abstain"
  IN  [reason |-> e.reason,
       status |-> AnswerStatus(e),
       fallback |-> e.fallback \/ enforced,
       cites |-> IF enforced THEN {} ELSE e.cites,
       cost |-> CostStatus]

(* _request_failure: nothing was started and nothing is stored.            *)
RefusedResult(reason) ==
  [reason |-> reason, status |-> "abstain", fallback |-> TRUE, cites |-> {},
   cost |-> "local_zero"]

-----------------------------------------------------------------------------
Init ==
  /\ pc = "idle"
  /\ request = None
  /\ now = 1
  /\ run = NewRun([live |-> FALSE], 0)
  /\ steps = << >>
  /\ sources = NoSources
  /\ decision = None
  /\ ending = None
  /\ log = << >>
  /\ executed = << >>
  /\ result = None

(* The clock: time has moved on to the reading; or the clock raises; or it *)
(* raises without a message and the runner takes 0.0 for the time.         *)
ReadClock(t) == t >= now /\ now' = t
ClockRaises == now' = now
ClockLies(t) == "clock" \in Messageless /\ t = 0 /\ now' \in now..ClockBound

Times == 0..ClockBound
Reading(t) == ReadClock(t) \/ ClockLies(t)

(* A caller submits a request. *)
Submit(r) ==
  /\ pc = "idle"
  /\ request' = r
  /\ IF r.hasRunId
     THEN pc' = "reset" /\ UNCHANGED result
     ELSE pc' = "done" /\ result' = RefusedResult("invalid_decision")
  /\ UNCHANGED <<now, run, steps, sources, decision, ending, log, executed>>

Refuse(reason) ==
  /\ pc' = "done"
  /\ result' = RefusedResult(reason)
  /\ UNCHANGED run

ResetPlanner ==
  /\ pc = "reset"
  /\ \/ pc' = "startClock" /\ UNCHANGED <<run, result>>
     \/ Refuse("llm_error")
     \/ /\ FALSE \in Says("reset")
        /\ pc' = "startClock"
        /\ UNCHANGED <<run, result>>
  /\ UNCHANGED <<request, now, steps, sources, decision, ending, log, executed>>

StartClock ==
  /\ pc = "startClock"
  /\ \/ /\ \E t \in Times : Reading(t) /\ run' = NewRun(request, t)
        /\ pc' = "started"
        /\ UNCHANGED result
     \/ ClockRaises /\ Refuse("llm_error")
  /\ UNCHANGED <<request, steps, sources, decision, ending, log, executed>>

RecordStarted ==
  /\ pc = "started"
  /\ \E outcome \in StoreOutcomes :
       /\ log' = Append(log, Event("started", 0, None, outcome))
       /\ IF outcome = "failed"
          THEN pc' = "finish" /\ ending' = Fallback("llm_error")
          ELSE pc' = "loop" /\ UNCHANGED ending
  /\ UNCHANGED <<request, now, run, steps, sources, decision, executed, result>>

(* The head of the loop: either a limit is hit or a step is opened.        *)
CheckBudget ==
  /\ pc = "loop"
  /\ \/ /\ ClockRaises
        /\ ending' = Fallback("llm_error")
        /\ pc' = "finish"
        /\ UNCHANGED <<run, steps>>
     \/ \E t \in Times :
          /\ Reading(t)
          /\ LET stop == EvaluateStop(run, request.limits, TRUE, t)
             IN  IF stop # Continue
                 THEN /\ ending' = Fallback(stop)
                      /\ pc' = "finish"
                      /\ UNCHANGED <<run, steps>>
                 ELSE /\ steps' = Append(steps, NewStep)
                      /\ run' = [run EXCEPT !.stepCount = @ + 1]
                      /\ pc' = "plan"
                      /\ UNCHANGED ending
  /\ UNCHANGED <<request, sources, decision, log, executed, result>>

(* The open step is over: it is offered to the store and the run ends.     *)
EndWithoutStoring(reason, s) ==
  /\ UpdateStep(s)
  /\ ending' = Fallback(reason)
  /\ pc' = "finish"
EndWithRetry(reason, s) ==
  /\ pc' = "plan"
  /\ UNCHANGED <<steps, ending>>
EndWith(reason, s) ==
  /\ UpdateStep(s)
  /\ ending' = Fallback(reason)
  /\ pc' = "recordStop"

(* Message building, the planner call and the recording of its routing     *)
(* share one try block: whatever raises there ends the run.                *)
PlannerRaises(f) ==
  /\ pc = "plan"
  /\ EndWith("llm_error",
       StoppedBy([Current EXCEPT !.phase = f.phase, !.cloud = f.cloud,
                                 !.tokens = Counted(f.tokens)],
                 f.said \/ f.tokens = Malformed))
  /\ run' = [run EXCEPT !.unpriced = @ \/ f.cloud,
                        !.tokens = @ + Counted(f.tokens)]
  /\ UNCHANGED <<request, now, sources, decision, log, executed, result>>

PlannerReturns(p) ==
  /\ pc = "plan"
  /\ LET s == [Current EXCEPT !.cloud = p.cloud, !.tokens = Counted(p.tokens)]
     IN  IF p.tokens = Malformed
         THEN EndWith("llm_error", Stopped(s))
         ELSE UpdateStep(s) /\ pc' = "planned" /\ UNCHANGED ending
  /\ decision' = p.decision
  /\ run' = [run EXCEPT !.unpriced = @ \/ p.cloud,
                        !.tokens = @ + Counted(p.tokens)]
  /\ UNCHANGED <<request, now, sources, log, executed, result>>

(* After the planner: the limits again, without the step limit.  The clock *)
(* is read only when there is a time limit.                                *)
CheckDecision ==
  /\ pc = "planned"
  /\ \/ /\ request.limits.maxTime > 0
        /\ ClockRaises
        /\ EndWith("llm_error", Stopped(Current))
     \/ \E t \in Times :
          /\ IF request.limits.maxTime > 0
             THEN Reading(t)
             ELSE t = run.startedAt /\ now' = now
          /\ LET stop == EvaluateStop(run, request.limits, FALSE, t)
             IN  IF stop # Continue
                 THEN EndWith(stop, Stopped(Current))
                 ELSE pc' = decision.action /\ UNCHANGED <<steps, ending>>
  /\ UNCHANGED <<request, run, sources, decision, log, executed, result>>

(* The step is offered to the store; a failure changes only its error text. *)
RecordStoppedStep ==
  /\ pc = "recordStop"
  /\ \E outcome \in StoreOutcomes :
       /\ log' = Append(log, Event("step", Len(steps), Current, outcome))
       /\ IF outcome = "failed"
          THEN UpdateStep([Current EXCEPT !.error = TRUE])
          ELSE UNCHANGED steps
  /\ pc' = "finish"
  /\ UNCHANGED <<request, now, run, sources, decision, ending, executed, result>>

(* An action that is neither an answer nor a tool call.                    *)
RejectDecision ==
  /\ pc = "other"
  /\ UpdateStep(Stopped(Current))
  /\ \E outcome \in StoreOutcomes :
       /\ log' = Append(log, Event("step", Len(steps), Stopped(Current), outcome))
       /\ ending' = Fallback(
            IF outcome = "failed" THEN "llm_error" ELSE "invalid_decision")
  /\ pc' = "finish"
  /\ UNCHANGED <<request, now, run, sources, decision, executed, result>>

-----------------------------------------------------------------------------
(* A final answer: the step is stored before the answer is guarded.        *)

RecordAnswerStepFault ==
  /\ pc = "final_answer"
  /\ \E outcome \in StoreOutcomes :
       /\ log' = Append(log, Event("step", Len(steps), Current, outcome))
       /\ IF outcome = "failed"
          THEN EndWith("llm_error", Stopped(Current))
          ELSE /\ UpdateStep([Current EXCEPT !.state = "completed"])
               /\ pc' = "guard" /\ UNCHANGED ending
  /\ UNCHANGED <<request, now, run, sources, decision, executed, result>>
RecordAnswerStep ==
  /\ pc = "final_answer"
  /\ LET s == [Current EXCEPT !.state = "completed"]
     IN  \E outcome \in StoreOutcomes :
           /\ log' = Append(log, Event("step", Len(steps), s, outcome))
           /\ IF outcome = "failed"
              THEN /\ UpdateStep(Stopped(s))
                   /\ ending' = Fallback("llm_error")
                   /\ pc' = "finish"
              ELSE UpdateStep(s) /\ pc' = "guard" /\ UNCHANGED ending
  /\ UNCHANGED <<request, now, run, sources, decision, executed, result>>

(* _complete_answer: the guard passes an answer, possibly redacted, or the *)
(* guard raises or rejects and the run fails closed.                       *)
GuardAnswer ==
  /\ pc = "guard"
  /\ pc' = "finish"
  /\ \/ /\ \E kept \in SUBSET decision.cites, outputFallback \in BOOLEAN :
             ending' = [reason |-> "completed", cites |-> kept,
                        fallback |-> decision.fallback \/ outputFallback,
                        abstains |-> decision.abstains]
        /\ UNCHANGED run
     \/ /\ ending' = Fallback("guardrail_triggered")
        /\ run' = [run EXCEPT !.guardrail = TRUE]
  /\ UNCHANGED <<request, now, steps, sources, decision, log, executed, result>>

-----------------------------------------------------------------------------
(* A tool call (_handle_tool_call): its terminal results are built without *)
(* recording the completion; the step is stored first.                     *)

(* The open step took the call; "reason" ends the run.                     *)
EndToolStep(reason, s) ==
  /\ UpdateStep(s)
  /\ ending' = Fallback(reason)
  /\ pc' = "recordTool"

IsDuplicateFault(call) == call \in run.calls /\ run.toolErrors = 0
IsDuplicate(call) == call \in run.calls

(* What the runner holds against a call before it executes it, first       *)
(* objection first.                                                        *)
ObjectionFault(call) ==
  IF call[1] \notin Registered THEN "unknown_tool"
  ELSE IF call[1] \in WriteTools THEN "needs_human"
  ELSE IF IsDuplicate(call) THEN "repeated_tool_call"
  ELSE Continue
Objection(call) ==
  IF call[2] = NotAnObject THEN "invalid_decision"
  ELSE IF call[1] \notin Registered THEN "unknown_tool"
  ELSE IF call \notin ValidCalls THEN "invalid_decision"
  ELSE IF call[1] \in WriteTools THEN "needs_human"
  ELSE IF IsDuplicate(call) THEN "repeated_tool_call"
  ELSE Continue

(* The objection is an exception of the security policy.                   *)
Rejected(call) ==
  /\ call[2] # NotAnObject
  /\ call[1] \in Registered
  /\ call \notin ValidCalls

ScreenToolCall ==
  /\ pc = "tool_call"
  /\ LET call == decision.call
         objection == Objection(call)
         s == [Current EXCEPT !.state = "tool_call", !.tool = call[1]]
     IN  IF objection = Continue
         THEN /\ UpdateStep(s)
              /\ run' = [run EXCEPT !.calls = @ \cup {call}]
              /\ pc' = "execute"
              /\ UNCHANGED ending
         ELSE /\ \E said \in IF Rejected(call) THEN Says("security") ELSE {TRUE} :
                   EndToolStep(objection,
                     IF objection = "needs_human"
                     THEN [s EXCEPT !.state = "needs_human", !.error = TRUE]
                     ELSE StoppedBy(s, said))
              /\ UNCHANGED run
  /\ UNCHANGED <<request, now, sources, decision, log, executed, result>>

(* The executor or the security policy raises or returns a malformed value.*)
ToolRaises ==
  /\ pc = "execute"
  /\ executed' = Append(executed, decision.call)
  /\ \E said \in Says("executor") :
       EndToolStep("tool_error_limit", StoppedBy(Current, said))
  /\ UNCHANGED <<request, now, run, sources, decision, log, result>>

ToolReturns(reply) ==
  /\ pc = "execute"
  /\ executed' = Append(executed, decision.call)
  /\ LET s == [Current EXCEPT !.reply = reply]
     IN  IF reply.tokens = Malformed
         THEN EndToolStep("tool_error_limit", Stopped(s)) /\ UNCHANGED run
         ELSE /\ UpdateStep(WithToolUsage(s, reply))
              /\ run' = [run EXCEPT
                   !.tokens = @ + reply.tokens,
                   !.cost = @ + reply.cost,
                   !.priced = @ \/ reply.priced,
                   !.toolErrors = ToolErrors(@, reply.ok)]
              /\ pc' = "executed"
              /\ UNCHANGED ending
  /\ UNCHANGED <<request, now, sources, decision, log, result>>

(* After the tool: the limits again; a limit stops the step without an     *)
(* error, because the tool call itself succeeded.                          *)
CheckToolStep ==
  /\ pc = "executed"
  /\ \/ ClockRaises /\ EndToolStep("llm_error", Stopped(Current))
     \/ \E t \in Times :
          /\ Reading(t)
          /\ LET stop == EvaluateStop(run, request.limits, FALSE, t)
             IN  IF stop # Continue
                 THEN EndToolStep(stop, [Current EXCEPT !.state = "stopped"])
                 ELSE pc' = "recordTool" /\ UNCHANGED <<steps, ending>>
  /\ UNCHANGED <<request, run, sources, decision, log, executed, result>>

(* The step is stored.  A failure replaces whatever result the call had;   *)
(* otherwise the run ends with that result, or goes on with the sources of *)
(* the reply, ok or not.                                                   *)
RecordToolStep ==
  /\ pc = "recordTool"
  /\ \E outcome \in StoreOutcomes :
       /\ log' = Append(log, Event("step", Len(steps), Current, outcome))
       /\ IF outcome = "failed"
          THEN /\ UpdateStep(Stopped(Current))
               /\ ending' = Fallback("llm_error")
               /\ pc' = "finish"
               /\ UNCHANGED sources
          ELSE /\ IF ending # None
                  THEN pc' = "finish" /\ UNCHANGED sources
                  ELSE /\ pc' = "loop"
                       /\ sources' = MergeSources(sources, Current.reply.sources)
               /\ UNCHANGED <<steps, ending>>
  /\ UNCHANGED <<request, now, run, decision, executed, result>>

-----------------------------------------------------------------------------
(* The result is built and the completion offered to the store; a failure  *)
(* there is only noted in the trace.                                       *)
Finish ==
  /\ pc = "finish"
  /\ result' = FinishedResult(ending)
  /\ \E outcome \in StoreOutcomes :
       log' = Append(log, Event("completed", Len(steps), None, outcome))
  /\ pc' = "done"
  /\ UNCHANGED <<request, now, run, steps, sources, decision, ending, executed>>

(* The steps the runner takes by itself once a request is there.           *)
RunnerStep ==
  \/ ResetPlanner \/ StartClock \/ RecordStarted \/ CheckBudget
  \/ \E f \in PlannerFailures : PlannerRaises(f)
  \/ \E p \in PlannerResults : PlannerReturns(p)
  \/ CheckDecision \/ RecordStoppedStep \/ RejectDecision
  \/ RecordAnswerStep \/ GuardAnswer
  \/ ScreenToolCall \/ ToolRaises
  \/ \E reply \in ToolReplies : ToolReturns(reply)
  \/ CheckToolStep \/ RecordToolStep
  \/ Finish

Next == (\E r \in Requests : Submit(r)) \/ RunnerStep

Spec == Init /\ [][Next]_vars

(* Every port call returns or raises: run() is synchronous code.           *)
FairSpec == Spec /\ WF_vars(RunnerStep)

-----------------------------------------------------------------------------
(* Types.                                                                  *)

StepType ==
  [state : AgentStates, phase : Phases \cup {None}, tool : Names \cup {None},
   reply : ToolReplies \cup {None}, error : BOOLEAN, tokens : Nat,
   cost : Nat, cloud : BOOLEAN]

RunType ==
  [startedAt : Nat, stepCount : Nat, calls : SUBSET Calls, toolErrors : Nat,
   tokens : Nat, cost : Nat, priced : BOOLEAN, unpriced : BOOLEAN,
   guardrail : BOOLEAN, repairFailed : BOOLEAN]

EventType ==
  [kind : {"started", "step", "completed"}, index : Nat,
   step : StepType \cup {None}, outcome : {"stored", "failed", "lost"}]

Labels ==
  { "idle", "reset", "startClock", "started", "loop", "plan", "planned",
    "recordStop", "other", "final_answer", "guard", "tool_call", "execute",
    "executed", "recordTool", "finish", "done" }

(* The type invariant; the store and the merged sources, whose type is a   *)
(* partial function, included.                                             *)
TypeOK ==
  /\ pc \in Labels
  /\ request \in Requests \cup {None}
  /\ now \in Nat
  /\ run \in RunType
  /\ steps \in Seq(StepType)
  /\ DOMAIN sources \subseteq Identities
  /\ \A id \in DOMAIN sources : sources[id] \in [Fields -> Marks \cup {NoLabel}]
  /\ decision \in Decisions \cup {None}
  /\ ending \in EndingType \cup {None}
  /\ log \in Seq(EventType)
  /\ executed \in Seq(Calls)
  /\ result \in ResultType \cup {None}

-----------------------------------------------------------------------------
(* What the runner promises.                                               *)

(* No call reaches the tool executor twice in a run, and none reaches it   *)
(* that the contract of the tool rejects or that would write: the checks   *)
(* of _handle_tool_call hold for what was executed, over a whole run.      *)
ScreenedExecution ==
  /\ \A i, j \in DOMAIN executed : executed[i] = executed[j] => i = j
  /\ \A i \in DOMAIN executed :
       executed[i] \in ValidCalls /\ executed[i][1] \notin WriteTools

(* The run store is offered the start, then every step once and in order,  *)
(* then the completion, and a finished run has offered them all: every     *)
(* branch of run() that ends a run stores its open step first ("Terminal   *)
(* tool-call paths record the step before the completed event").           *)
StoreOrder ==
  /\ \A i \in DOMAIN log :
       /\ log[i].kind = "started" <=> i = 1
       /\ log[i].kind = "step" => log[i].index = i - 1
       /\ log[i].kind = "completed" => i = Len(log) /\ pc = "done"
  /\ pc = "done" /\ log # << >> =>
       /\ log[Len(log)].kind = "completed"
       /\ Len(log) = Len(steps) + 2

(* What the store got is what the caller gets: once a step is offered and  *)
(* no failure noticed, the runner never changes it (its duration, which    *)
(* _finish fills in, aside), a run with a noticed store failure does not   *)
(* complete, and the last step of a finished run tells how it ended.       *)
StoredStepsAreFinal ==
  /\ \A i \in DOMAIN log :
       log[i].kind = "step" /\ log[i].outcome # "failed" =>
         log[i].index \in DOMAIN steps /\ log[i].step = steps[log[i].index]
  /\ pc = "done" /\ result.reason \in {"completed", "needs_human"} =>
       \A i \in DOMAIN log : log[i].outcome # "failed" \/ log[i].kind = "completed"
  /\ pc = "done" /\ steps # << >> =>
       /\ Current.state = "needs_human" <=> result.reason = "needs_human"
       /\ Current.state = "completed" <=>
            result.reason \in {"completed", "guardrail_triggered"}
       /\ Current.state # "running"

(* A result is either grounded or carries a fallback answer, never both    *)
(* and never neither: _finish enforces abstention on every success that is *)
(* not grounded.                                                           *)
GroundedOrFallback ==
  pc = "done" => (result.status = "grounded" <=> ~result.fallback)

(* A grounded answer cites a source that an executed retrieval call of     *)
(* this very run returned with evidence, in a step the store did not refuse. *)
GroundedOnStoredEvidence ==
  pc = "done" /\ result.status = "grounded" =>
    \E i \in DOMAIN log :
      /\ log[i].kind = "step" /\ log[i].outcome # "failed"
      /\ log[i].step.reply # None
      /\ log[i].step.reply.ok /\ log[i].step.reply.hasEvidence
      /\ CitesOne(result.cites, Elements(log[i].step.reply.sources))
      /\ \E j \in DOMAIN executed :
           /\ executed[j][1] = log[i].step.tool
           /\ PhaseOf[executed[j][1]] = "knowledge_retrieval"

(* The steps whose sources the run went on with: the store took a tool     *)
(* step that no limit stopped.                                             *)
Merging == {i \in DOMAIN log : /\ log[i].kind = "step"
                               /\ log[i].outcome # "failed"
                               /\ log[i].step.state = "tool_call"}

(* Those that returned this source, and those that had this field of it.   *)
Returning(id) ==
  {i \in Merging : Occurrences(log[i].step.reply.sources, id) # {}}
Naming(id, f) ==
  {i \in Merging : Filled(log[i].step.reply.sources, id, f) # {}}

(* The sources shown with the answer, merged step by step, are those the   *)
(* stored tool steps of this run returned, up to the cap and left out only *)
(* beyond it; every field shown is the last one a stored step returned for *)
(* that source, even when the others come from other steps, and no field   *)
(* any of them returned is lost.                                           *)
SourcesComeFromStoredSteps ==
  /\ Cardinality(DOMAIN sources) <= MaxSources
  /\ \A id \in DOMAIN sources : Returning(id) # {}
  /\ \A id \in Identities \ DOMAIN sources :
       Returning(id) # {} => Cardinality(DOMAIN sources) = MaxSources
  /\ \A id \in DOMAIN sources, f \in Fields :
       IF Naming(id, f) = {} THEN sources[id][f] = NoLabel
       ELSE \E i \in Naming(id, f) :
              /\ \A j \in Naming(id, f) : j <= i
              /\ sources[id][f] = LastValue(log[i].step.reply.sources, id, f)

(* "Clock ... failures are bounded" (docs/core.md; the tests expect them to *)
(* end the run): no planner or tool call starts past the deadline.         *)
CallsWithinDeadline ==
  pc \in {"plan", "execute"} /\ request.limits.maxTime > 0 =>
    now - run.startedAt <= request.limits.maxTime

(* No planner call and no tool call starts once the run's accounting has   *)
(* reached a limit, or the clock was read past the deadline.               *)
CallsWithinBudget ==
  pc \in {"plan", "execute"} =>
    LET limits == request.limits
    IN  /\ Len(steps) <= limits.maxSteps
        /\ CallsWithinDeadline
        /\ limits.maxTokens > 0 => run.tokens < limits.maxTokens
        /\ limits.maxCost > 0 => run.cost < limits.maxCost
        /\ run.toolErrors < limits.toolErrorLimit

(* What each step was charged.                                             *)
StepTokens == [i \in DOMAIN steps |-> steps[i].tokens]
StepCosts == [i \in DOMAIN steps |-> steps[i].cost]

(* The run's totals are the sums over its steps, whatever port failed on   *)
(* the way: no usage is counted twice, and none is attributed to no step.  *)
(* A run that was started never reports a known cost when the request was  *)
(* a live one or a step, a failed one included, was routed to the cloud;   *)
(* "local_zero" means that no step cost anything.                          *)
UsageLedger ==
  /\ run.tokens = Total(DOMAIN steps, StepTokens)
  /\ run.cost = Total(DOMAIN steps, StepCosts)
  /\ run.stepCount = Len(steps)
  /\ pc = "done" /\ log # << >> =>
       /\ request.live \/ (\E i \in DOMAIN steps : steps[i].cloud) =>
            result.cost = "unknown"
       /\ result.cost = "local_zero" => \A i \in DOMAIN steps : steps[i].cost = 0

(* docs/core.md: "run-store failures return terminal AgentRunResult        *)
(* values": a run whose store raised on the way is not reported completed. *)
StoreFailuresEndTheRun ==
  pc = "done" /\ result.reason = "completed" =>
    \A i \in DOMAIN log : log[i].kind # "completed" => log[i].outcome = "stored"

(* Every submitted request gets a result, whatever its ports do: the step  *)
(* limit is finite, and nothing waits.                                     *)
EveryRunEnds == (pc = "reset") ~> (pc = "done")

(* A run implements RunContract: it performs allowed calls, each once,     *)
(* then closes, grounded only if it performed a retrieval call.            *)
Contract == INSTANCE RunContract WITH
  AllowedCalls <- {c \in ValidCalls : c[1] \notin WriteTools},
  RetrievalCalls <- {c \in Calls : PhaseOf[c[1]] = "knowledge_retrieval"},
  stage <- CASE pc = "idle" -> "idle" [] pc = "done" -> "closed" [] OTHER -> "open",
  performed <- Elements(executed),
  outcome <- IF result = None THEN "none" ELSE result.status

ImplementsContract == Contract!Spec
=============================================================================
