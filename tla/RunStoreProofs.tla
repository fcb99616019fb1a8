--------------------------- MODULE RunStoreProofs ---------------------------
(***************************************************************************)
(* Theorems about what a run of AgentRunner leaves behind, for every set   *)
(* of tools, requests and limits: what it offers its store, the calls it   *)
(* makes of its planner and its tools, the contract it implements, and the *)
(* phases its result reports (PhaseTrace).                                 *)
(***************************************************************************)
EXTENDS PhaseTrace, AgentRunnerProofs

(* The open step has not been offered to the store yet.                    *)
Open == InStep \ {"guard"}

(* How much of the run the log holds, by the place in the code.            *)
Logged ==
  /\ pc \in Unstarted => log = << >> /\ steps = << >>
  /\ pc \in Open => Len(log) = Len(steps)
  /\ pc \in {"loop", "guard", "finish"} => Len(log) = Len(steps) + 1
  /\ pc = "done" /\ log # << >> =>
       Len(log) = Len(steps) + 2 /\ log[Len(log)].kind = "completed"
  /\ pc = "done" /\ log = << >> => steps = << >>

InOrder ==
  \A i \in DOMAIN log :
    /\ log[i].kind = "started" <=> i = 1
    /\ log[i].kind = "step" => log[i].index = i - 1
    /\ log[i].kind = "completed" => i = Len(log) /\ pc = "done"

Ordered == Logged /\ InOrder

LEMMA Appends ==
  ASSUME log \in Seq(EventType), NEW kind, NEW index, NEW step, NEW outcome,
         log' = Append(log, Event(kind, index, step, outcome))
  PROVE  LET n == Len(log) + 1
         IN  /\ n \in Nat \ {0} /\ Len(log') = n /\ DOMAIN log' = 1..n /\ log' # << >>
             /\ DOMAIN log = 1..(n - 1)
             /\ \A i \in DOMAIN log : i \in DOMAIN log' /\ log'[i] = log[i]
             /\ log'[n] = Event(kind, index, step, outcome)
             /\ \A i \in DOMAIN log' : i # n => i \in DOMAIN log
  BY DEF Event

(* The length of the steps, and of the log, under the runner's updates.    *)
LEMMA LengthsAreNaturals ==
  ASSUME Typed
  PROVE  /\ steps \in Seq(StepType) /\ Len(steps) \in Nat
         /\ log \in Seq(EventType) /\ Len(log) \in Nat
         /\ steps = << >> <=> Len(steps) = 0
         /\ log = << >> <=> Len(log) = 0
  BY DEF Typed, TypeOK

LEMMA UpdatesKeepLength ==
  ASSUME Typed, NEW s, UpdateStep(s)
  PROVE  Len(steps') = Len(steps) /\ DOMAIN steps' = DOMAIN steps
  BY DEF Typed, TypeOK, UpdateStep

(* Steps of the runner that leave the log alone.                           *)
LEMMA OrderedQuietly ==
  ASSUME Typed, Ordered, UNCHANGED log, pc # "done",
         \/ pc \in Unstarted /\ pc' \in Unstarted \cup {"done"} /\ UNCHANGED steps
         \/ pc \in Open /\ pc' \in Open /\ Len(steps') = Len(steps)
         \/ pc = "loop" /\ pc' = "plan" /\ Len(steps') = Len(steps) + 1
         \/ pc \in {"loop", "guard"} /\ pc' = "finish" /\ UNCHANGED steps
  PROVE  Ordered'
<1>1. InOrder'
  BY DEF Ordered, InOrder
<1>2. Logged'
  BY LengthsAreNaturals DEF Ordered, Logged, Unstarted, Open, InStep
<1>3. QED
  BY <1>1, <1>2 DEF Ordered

(* The open step is offered.                                               *)
LEMMA OrderedOffer ==
  ASSUME Typed, Ordered, pc \in Open, NEW s, NEW outcome,
         log' = Append(log, Event("step", Len(steps), s, outcome)),
         Len(steps') = Len(steps), pc' \in {"loop", "guard", "finish"}
  PROVE  Ordered'
<1> DEFINE n == Len(log) + 1
<1>1. /\ log \in Seq(EventType) /\ Len(log) = Len(steps) /\ steps # << >>
      /\ Len(steps) \in Nat \ {0}
  BY LengthsAreNaturals DEF Ordered, Logged, Open, Typed, Shape
<1>2. /\ Len(log') = n /\ DOMAIN log' = 1..n /\ DOMAIN log = 1..(n - 1)
      /\ \A i \in DOMAIN log : log'[i] = log[i]
      /\ log'[n] = Event("step", Len(steps), s, outcome)
  BY <1>1, Appends
<1>3. n - 1 = Len(steps) /\ n # 1 /\ log'[n].kind = "step" /\ log'[n].index = Len(steps)
  BY <1>1, <1>2 DEF Event
<1>4. InOrder'
  <2> SUFFICES ASSUME NEW i \in DOMAIN log'
               PROVE  /\ log'[i].kind = "started" <=> i = 1
                      /\ log'[i].kind = "step" => log'[i].index = i - 1
                      /\ log'[i].kind = "completed" => i = Len(log') /\ pc' = "done"
    BY DEF InOrder
  <2>1. CASE i = n
    BY <1>3, <2>1
  <2>2. CASE i # n
    <3>1. i \in DOMAIN log /\ pc # "done"
      BY <1>1, <1>2, <2>2 DEF Open, InStep
    <3>2. QED
      BY <1>2, <3>1 DEF Ordered, InOrder
  <2>3. QED
    BY <2>1, <2>2
<1>5. Logged'
  BY <1>1, <1>2 DEF Logged, Unstarted, Open, InStep
<1>6. QED
  BY <1>4, <1>5 DEF Ordered

LEMMA OrderedRecordStarted ==
  ASSUME Typed, Ordered, RecordStarted
  PROVE  Ordered'
<1>1. log = << >> /\ steps = << >> /\ pc' \in {"finish", "loop"} /\ UNCHANGED steps
  BY DEF RecordStarted, Ordered, Logged, Unstarted
<1>2. PICK outcome : log' = Append(log, Event("started", 0, None, outcome))
  BY DEF RecordStarted
<1>3. Len(log') = 1 /\ DOMAIN log' = {1} /\ log'[1].kind = "started" /\ Len(steps') = 0
  BY <1>1, <1>2 DEF Event
<1>4. InOrder'
  BY <1>3 DEF InOrder
<1>5. Logged'
  BY <1>1, <1>3 DEF Logged, Unstarted, Open, InStep
<1>6. QED
  BY <1>4, <1>5 DEF Ordered

LEMMA OrderedFinish ==
  ASSUME Typed, Ordered, Finish
  PROVE  Ordered'
<1> DEFINE n == Len(log) + 1
<1>1. PICK outcome : log' = Append(log, Event("completed", Len(steps), None, outcome))
  BY DEF Finish
<1>2. /\ pc = "finish" /\ pc' = "done" /\ UNCHANGED steps
      /\ log \in Seq(EventType) /\ Len(log) = Len(steps) + 1 /\ Len(steps) \in Nat
  BY LengthsAreNaturals DEF Ordered, Logged, Finish
<1>3. /\ Len(log') = n /\ DOMAIN log' = 1..n /\ DOMAIN log = 1..(n - 1) /\ log' # << >>
      /\ \A i \in DOMAIN log : log'[i] = log[i]
      /\ log'[n] = Event("completed", Len(steps), None, outcome)
  BY <1>1, <1>2, Appends
<1>4. n # 1 /\ log'[n].kind = "completed"
  BY <1>2, <1>3 DEF Event
<1>5. InOrder'
  <2> SUFFICES ASSUME NEW i \in DOMAIN log'
               PROVE  /\ log'[i].kind = "started" <=> i = 1
                      /\ log'[i].kind = "step" => log'[i].index = i - 1
                      /\ log'[i].kind = "completed" => i = Len(log') /\ pc' = "done"
    BY DEF InOrder
  <2>1. CASE i = n
    BY <1>2, <1>3, <1>4, <2>1
  <2>2. CASE i # n
    <3>1. i \in DOMAIN log
      BY <1>2, <1>3, <2>2
    <3>2. QED
      BY <1>2, <1>3, <3>1 DEF Ordered, InOrder
  <2>3. QED
    BY <2>1, <2>2
<1>6. Logged'
  BY <1>2, <1>3, <1>4 DEF Logged, Unstarted, Open, InStep
<1>7. QED
  BY <1>5, <1>6 DEF Ordered

(* The steps that only write to the open step, or leave the steps alone.   *)
LEMMA OrderedInStep ==
  ASSUME Typed, Ordered,
         \/ \E f \in PlannerFailures : PlannerRaises(f)
         \/ \E p \in PlannerResults : PlannerReturns(p)
         \/ CheckDecision \/ ScreenToolCall \/ ToolRaises
         \/ \E reply \in ToolReplies : ToolReturns(reply)
         \/ CheckToolStep
  PROVE  Ordered'
<1>1. pc \in Open /\ pc # "done" /\ UNCHANGED log
  BY DEF PlannerRaises, PlannerReturns, CheckDecision, ScreenToolCall, ToolRaises,
     ToolReturns, CheckToolStep, Open, InStep
<1>2. pc = "planned" => decision.action \in {"final_answer", "tool_call", "other"}
  BY DEF Typed, Shape, Decisions
<1>3. pc' \in Open
  <2>1. CASE \/ \E f \in PlannerFailures : PlannerRaises(f)
             \/ \E p \in PlannerResults : PlannerReturns(p)
             \/ CheckDecision
    BY <1>2, <2>1 DEF PlannerRaises, PlannerReturns, CheckDecision, EndWith, Open, InStep
  <2>2. CASE \/ ScreenToolCall \/ ToolRaises
             \/ \E reply \in ToolReplies : ToolReturns(reply)
             \/ CheckToolStep
    BY <2>2 DEF ScreenToolCall, ToolRaises, ToolReturns, CheckToolStep, EndToolStep, Open, InStep
  <2>3. QED
    BY <2>1, <2>2
<1>4. UNCHANGED steps \/ \E s : UpdateStep(s)
  <2>1. CASE \/ \E f \in PlannerFailures : PlannerRaises(f)
             \/ \E p \in PlannerResults : PlannerReturns(p)
             \/ CheckDecision
    BY <2>1 DEF PlannerRaises, PlannerReturns, CheckDecision, EndWith
  <2>2. CASE ScreenToolCall \/ ToolRaises \/ CheckToolStep
    BY <2>2 DEF ScreenToolCall, ToolRaises, CheckToolStep, EndToolStep
  <2>3. ASSUME NEW reply \in ToolReplies, ToolReturns(reply)
        PROVE  \E s : UpdateStep(s)
    BY <2>3 DEF ToolReturns, EndToolStep
  <2>4. QED
    BY <2>1, <2>2, <2>3
<1>5. Len(steps') = Len(steps)
  BY <1>4, UpdatesKeepLength
<1>6. QED
  BY <1>1, <1>3, <1>5, OrderedQuietly

LEMMA OrderedStep ==
  ASSUME Typed, Ordered, [Next]_vars
  PROVE  Ordered'
<1>1. CASE \/ \E r \in Requests : Submit(r)
           \/ ResetPlanner \/ StartClock
  <2>1. /\ pc \in Unstarted /\ pc' \in Unstarted \cup {"done"} /\ pc # "done"
        /\ UNCHANGED <<log, steps>>
    BY <1>1 DEF Submit, ResetPlanner, StartClock, Refuse, Unstarted
  <2>2. QED
    BY <2>1, OrderedQuietly
<1>2. CASE RecordStarted
  BY <1>2, OrderedRecordStarted
<1>3. CASE CheckBudget
  <2>1. pc = "loop" /\ pc # "done" /\ UNCHANGED log
    BY <1>3 DEF CheckBudget
  <2>2. \/ pc' = "finish" /\ UNCHANGED steps
        \/ pc' = "plan" /\ steps' = Append(steps, NewStep)
    BY <1>3 DEF CheckBudget
  <2>3. steps' = Append(steps, NewStep) => Len(steps') = Len(steps) + 1
    BY LengthsAreNaturals
  <2>4. QED
    BY <2>1, <2>2, <2>3, OrderedQuietly
<1>4. CASE \/ \E f \in PlannerFailures : PlannerRaises(f)
           \/ \E p \in PlannerResults : PlannerReturns(p)
           \/ CheckDecision \/ ScreenToolCall \/ ToolRaises
           \/ \E reply \in ToolReplies : ToolReturns(reply)
           \/ CheckToolStep
  BY <1>4, OrderedInStep
<1>5. CASE RecordStoppedStep \/ RejectDecision \/ RecordAnswerStep \/ RecordToolStep
  <2>1. pc \in Open /\ pc' \in {"loop", "guard", "finish"}
    BY <1>5 DEF RecordStoppedStep, RejectDecision, RecordAnswerStep, RecordToolStep,
       Open, InStep
  <2>2. \E s, outcome : log' = Append(log, Event("step", Len(steps), s, outcome))
    BY <1>5 DEF RecordStoppedStep, RejectDecision, RecordAnswerStep, RecordToolStep
  <2>3. UNCHANGED steps \/ \E s : UpdateStep(s)
    BY <1>5 DEF RecordStoppedStep, RejectDecision, RecordAnswerStep, RecordToolStep
  <2>4. Len(steps') = Len(steps)
    BY <2>3, UpdatesKeepLength
  <2>5. QED
    BY <2>1, <2>2, <2>4, OrderedOffer
<1>6. CASE GuardAnswer
  BY <1>6, OrderedQuietly DEF GuardAnswer
<1>7. CASE Finish
  BY <1>7, OrderedFinish
<1>8. CASE UNCHANGED vars
  BY <1>8 DEF vars, Ordered, Logged, InOrder
<1>9. QED
  BY <1>1, <1>2, <1>3, <1>4, <1>5, <1>6, <1>7, <1>8 DEF Next, RunnerStep

LEMMA OrderedAlways == Spec => []Ordered
<1>1. Init => Ordered
  BY DEF Init, Ordered, Logged, InOrder, Unstarted, Open, InStep
<1>2. Typed /\ Ordered /\ [Next]_vars => Ordered'
  BY OrderedStep
<1>3. QED
  BY <1>1, <1>2, TypedAlways, PTL DEF Spec

(* The store is offered the start, every step once and in order, and the   *)
(* completion of a run that was started, whatever branch ends it.          *)
THEOREM StoreIsOfferedInOrder == Spec => []StoreOrder
<1>1. Ordered => StoreOrder
  BY DEF Ordered, Logged, InOrder, StoreOrder
<1>2. QED
  BY <1>1, OrderedAlways, PTL

-----------------------------------------------------------------------------
(* How the last step tells the reason why the run ended.                   *)
Tells(reason) ==
  /\ Current.state = "needs_human" <=> reason = "needs_human"
  /\ Current.state = "completed" <=> reason \in {"completed", "guardrail_triggered"}
  /\ Current.state # "running"

(* The reasons of a run that was stopped, by a limit or a failure.         *)
Stops == StopReasons \ {"completed", "guardrail_triggered", "needs_human"}

(* The state of the last step, by the place in the code.                   *)
LastStep ==
  /\ run.guardrail => pc \in {"finish", "done"}
  /\ ~run.repairFailed
  /\ pc \notin {"recordStop", "recordTool", "finish", "done"} => ending = None
  /\ pc \in {"plan", "planned", "other", "final_answer", "tool_call"} =>
       Current.state = "running"
  /\ pc \in {"execute", "executed"} => Current.state = "tool_call"
  /\ pc = "recordTool" /\ ending = None => Current.state = "tool_call"
  /\ pc = "loop" /\ steps # << >> => Current.state = "tool_call"
  /\ pc = "recordTool" /\ ending # None =>
       /\ Tells(ending.reason) /\ ending.reason \in Stops \cup {"needs_human"}
       /\ Current.state # "tool_call"
  /\ pc = "recordStop" => Current.state = "stopped" /\ ending.reason \in Stops
  /\ pc = "guard" => Current.state = "completed"
  /\ pc = "finish" /\ steps # << >> => Tells(ending.reason)
  /\ pc = "done" /\ steps # << >> => Tells(result.reason)

LEMMA LimitsStop ==
  ASSUME NEW r, ~r.guardrail, ~r.repairFailed, NEW limits, NEW steplimit, NEW t
  PROVE  EvaluateStop(r, limits, steplimit, t) \in Stops \cup {Continue}
  BY DEF EvaluateStop, Stops, StopReasons

LEMMA FallbackReason ==
  ASSUME NEW reason \in StopReasons
  PROVE  Fallback(reason).reason = reason /\ Fallback(reason) # None
  BY FallbackType, RunnerAssumption DEF Fallback

LEMMA StopsAreReasons == Stops \subseteq StopReasons /\ "llm_error" \in Stops
  BY DEF Stops, StopReasons

(* The accounting keeps its flags.                                         *)
LEMMA FlagsKept ==
  ASSUME Typed
  PROVE  /\ \A n : [run EXCEPT !.stepCount = n].guardrail = run.guardrail
         /\ \A n : [run EXCEPT !.stepCount = n].repairFailed = run.repairFailed
         /\ \A b, n : [run EXCEPT !.unpriced = b, !.tokens = n].guardrail = run.guardrail
         /\ \A b, n : [run EXCEPT !.unpriced = b, !.tokens = n].repairFailed = run.repairFailed
         /\ \A c : [run EXCEPT !.calls = c].guardrail = run.guardrail
         /\ \A c : [run EXCEPT !.calls = c].repairFailed = run.repairFailed
         /\ [run EXCEPT !.guardrail = TRUE].repairFailed = run.repairFailed
         /\ \A a, b, c, d :
              [run EXCEPT !.tokens = a, !.cost = b, !.priced = c, !.toolErrors = d].guardrail
                = run.guardrail
         /\ \A a, b, c, d :
              [run EXCEPT !.tokens = a, !.cost = b, !.priced = c, !.toolErrors = d].repairFailed
                = run.repairFailed
  BY DEF Typed, TypeOK, RunType

LEMMA StoppedState ==
  ASSUME NEW s \in StepType
  PROVE  /\ Stopped(s).state = "stopped" /\ Stopped(s) \in StepType
         /\ \A said \in BOOLEAN :
              StoppedBy(s, said).state = "stopped" /\ StoppedBy(s, said) \in StepType
  BY StoppedTypes DEF Stopped, StoppedBy, StepType

(* Ending the open step with a reason to stop.                             *)
LEMMA LastStepEnds ==
  ASSUME Typed, LastStep, pc \in InStep, NEW reason \in Stops, NEW s \in StepType,
         s.state = "stopped", EndWith(reason, s),
         run'.guardrail = run.guardrail, run'.repairFailed = run.repairFailed
  PROVE  LastStep'
<1>1. pc' = "recordStop" /\ ending' = Fallback(reason) /\ Current' = s
  BY OpenStep, UpdateStepTypes DEF EndWith
<1>2. ending'.reason = reason
  BY <1>1, FallbackReason, StopsAreReasons
<1>3. ~run.guardrail
  BY DEF LastStep, InStep
<1>4. QED
  BY <1>1, <1>2, <1>3 DEF LastStep

LEMMA LastStepPlans ==
  ASSUME Typed, LastStep,
         \/ \E f \in PlannerFailures : PlannerRaises(f)
         \/ \E p \in PlannerResults : PlannerReturns(p)
  PROVE  LastStep'
<1>1. pc = "plan" /\ pc \in InStep
  BY DEF PlannerRaises, PlannerReturns, InStep
<1>2. ASSUME NEW f \in PlannerFailures, PlannerRaises(f) PROVE LastStep'
  <2> DEFINE s == [Current EXCEPT !.phase = f.phase, !.cloud = f.cloud,
                                  !.tokens = Counted(f.tokens)]
  <2>1. /\ f.phase \in Phases \cup {None} /\ f.cloud \in BOOLEAN /\ f.said \in BOOLEAN
        /\ Counted(f.tokens) \in Nat
    BY CountedType DEF PlannerFailures, Says
  <2>2. s \in StepType
    BY <1>1, <2>1, OpenStep DEF StepType
  <2> DEFINE t == StoppedBy(s, f.said \/ f.tokens = Malformed)
  <2>3. t \in StepType /\ t.state = "stopped"
    <3> HIDE DEF s
    <3>1. QED
      BY <2>1, <2>2, StoppedState
  <2>4. EndWith("llm_error", t)
    BY <1>2 DEF PlannerRaises
  <2>5. run'.guardrail = run.guardrail /\ run'.repairFailed = run.repairFailed
    BY <1>2, FlagsKept DEF PlannerRaises
  <2>6. QED
    <3> HIDE DEF t
    <3>1. QED
      BY <1>1, <2>3, <2>4, <2>5, LastStepEnds, StopsAreReasons
<1>3. ASSUME NEW p \in PlannerResults, PlannerReturns(p) PROVE LastStep'
  <2> DEFINE s == [Current EXCEPT !.cloud = p.cloud, !.tokens = Counted(p.tokens)]
  <2>1. p.cloud \in BOOLEAN /\ Counted(p.tokens) \in Nat
    BY CountedType DEF PlannerResults
  <2>2. s \in StepType /\ s.state = Current.state
    BY <1>1, <2>1, OpenStep DEF StepType
  <2>3. run'.guardrail = run.guardrail /\ run'.repairFailed = run.repairFailed
    <3>1. run' = [run EXCEPT !.unpriced = @ \/ p.cloud, !.tokens = @ + Counted(p.tokens)]
      BY <1>3 DEF PlannerReturns
    <3>2. QED
      BY <3>1, FlagsKept
  <2>4. \/ EndWith("llm_error", Stopped(s))
        \/ UpdateStep(s) /\ pc' = "planned" /\ UNCHANGED ending
    BY <1>3 DEF PlannerReturns
  <2> HIDE DEF s
  <2>5. CASE EndWith("llm_error", Stopped(s))
    BY <1>1, <2>2, <2>3, <2>5, LastStepEnds, StoppedState, StopsAreReasons
  <2>6. CASE UpdateStep(s) /\ pc' = "planned" /\ UNCHANGED ending
    <3>1. Current' = s
      BY <1>1, <2>2, <2>6, OpenStep, UpdateStepTypes
    <3>2. QED
      BY <1>1, <2>2, <2>3, <2>6, <3>1 DEF LastStep
  <2>7. QED
    BY <2>4, <2>5, <2>6
<1>4. QED
  BY <1>2, <1>3

LEMMA LastStepChecks ==
  ASSUME Typed, LastStep, CheckDecision
  PROVE  LastStep'
<1>1. pc = "planned" /\ pc \in InStep /\ ~run.guardrail /\ ~run.repairFailed
      /\ UNCHANGED run
  BY DEF CheckDecision, InStep, LastStep
<1>2. decision.action \in {"final_answer", "tool_call", "other"}
  BY <1>1 DEF Typed, Shape, Decisions
<1>3. \/ \E reason \in Stops : EndWith(reason, Stopped(Current))
      \/ pc' = decision.action /\ UNCHANGED <<steps, ending>>
  BY <1>1, LimitsStop, StopsAreReasons DEF CheckDecision
<1>4. CASE \E reason \in Stops : EndWith(reason, Stopped(Current))
  BY <1>1, <1>4, OpenStep, StoppedState, LastStepEnds
<1>5. CASE pc' = decision.action /\ UNCHANGED <<steps, ending>>
  BY <1>1, <1>2, <1>5 DEF LastStep, Current
<1>6. QED
  BY <1>3, <1>4, <1>5

LEMMA LastStepOpens ==
  ASSUME Typed, LastStep, CheckBudget
  PROVE  LastStep'
<1>1. pc = "loop" /\ ~run.guardrail /\ ~run.repairFailed
  BY DEF CheckBudget, LastStep
<1>2. \/ \E reason \in Stops :
           ending' = Fallback(reason) /\ pc' = "finish" /\ UNCHANGED <<run, steps>>
      \/ /\ steps' = Append(steps, NewStep)
         /\ run' = [run EXCEPT !.stepCount = @ + 1]
         /\ pc' = "plan" /\ UNCHANGED ending
  BY <1>1, LimitsStop, StopsAreReasons DEF CheckBudget
<1>3. ASSUME NEW reason \in Stops, ending' = Fallback(reason), pc' = "finish",
             UNCHANGED <<run, steps>>
      PROVE  LastStep'
  <2>1. ending'.reason = reason
    BY <1>3, FallbackReason, StopsAreReasons
  <2>2. steps # << >> => Tells(reason)'
    BY <1>1, <1>3 DEF LastStep, Tells, Current, Stops
  <2>3. QED
    BY <1>1, <1>3, <2>1, <2>2 DEF LastStep, Tells
<1>4. CASE /\ steps' = Append(steps, NewStep)
           /\ run' = [run EXCEPT !.stepCount = @ + 1]
           /\ pc' = "plan" /\ UNCHANGED ending
  <2>1. Current' = NewStep
    BY <1>4, LengthsAreNaturals DEF Current
  <2>2. NewStep.state = "running"
    BY DEF NewStep
  <2>3. QED
    BY <1>1, <1>4, <2>1, <2>2, FlagsKept DEF LastStep
<1>5. QED
  BY <1>2, <1>3, <1>4

(* The answer and the stopped step are stored.                             *)
LEMMA LastStepStored ==
  ASSUME Typed, LastStep, RecordStoppedStep \/ RejectDecision \/ RecordAnswerStep
  PROVE  LastStep'
<1>1. pc \in InStep /\ pc \in {"recordStop", "other", "final_answer"} /\ UNCHANGED run
      /\ ~run.guardrail /\ ~run.repairFailed
  BY DEF RecordStoppedStep, RejectDecision, RecordAnswerStep, InStep, LastStep
<1>2. CASE RecordStoppedStep
  <2> DEFINE s == [Current EXCEPT !.error = TRUE]
  <2>1. s \in StepType /\ s.state = Current.state
    BY <1>1, OpenStep DEF StepType
  <2>2. UpdateStep(s) \/ UNCHANGED steps
    BY <1>2 DEF RecordStoppedStep
  <2>3. Current'.state = Current.state
    <3> HIDE DEF s
    <3>1. CASE UpdateStep(s)
      BY <1>1, <2>1, <3>1, OpenStep, UpdateStepTypes
    <3>2. CASE UNCHANGED steps
      BY <3>2 DEF Current
    <3>3. QED
      BY <2>2, <3>1, <3>2
  <2>4. pc = "recordStop" /\ pc' = "finish" /\ UNCHANGED ending
    BY <1>2 DEF RecordStoppedStep
  <2>5. Current.state = "stopped" /\ ending.reason \in Stops
    BY <2>4 DEF LastStep
  <2>6. Tells(ending.reason)'
    BY <2>3, <2>4, <2>5 DEF Tells, Stops
  <2>7. QED
    BY <1>1, <2>4, <2>6 DEF LastStep
<1>3. CASE RejectDecision
  <2>1. Current'.state = "stopped"
    BY <1>1, <1>3, OpenStep, StoppedState, UpdateStepTypes DEF RejectDecision
  <2>2. \E reason \in Stops : ending' = Fallback(reason)
    BY <1>3 DEF RejectDecision, Stops, StopReasons
  <2>3. ending'.reason \in Stops
    BY <2>2, FallbackReason, StopsAreReasons
  <2>4. Tells(ending.reason)'
    BY <2>1, <2>3 DEF Tells, Stops
  <2>5. QED
    BY <1>1, <1>3, <2>4 DEF RejectDecision, LastStep
<1>4. CASE RecordAnswerStep
  <2> DEFINE s == [Current EXCEPT !.state = "completed"]
  <2>1. s \in StepType /\ s.state = "completed"
    BY <1>1, OpenStep DEF StepType, AgentStates
  <2>2. \/ UpdateStep(Stopped(s)) /\ ending' = Fallback("llm_error") /\ pc' = "finish"
        \/ UpdateStep(s) /\ pc' = "guard" /\ UNCHANGED ending
    BY <1>4 DEF RecordAnswerStep
  <2> HIDE DEF s
  <2>3. CASE UpdateStep(Stopped(s)) /\ ending' = Fallback("llm_error") /\ pc' = "finish"
    <3>1. Current'.state = "stopped"
      BY <1>1, <2>1, <2>3, OpenStep, StoppedState, UpdateStepTypes
    <3>2. ending'.reason = "llm_error"
      BY <2>3, FallbackReason, StopsAreReasons
    <3>3. Tells(ending.reason)'
      BY <3>1, <3>2 DEF Tells
    <3>4. QED
      BY <1>1, <2>3, <3>3 DEF LastStep
  <2>4. CASE UpdateStep(s) /\ pc' = "guard" /\ UNCHANGED ending
    <3>1. Current' = s
      BY <1>1, <2>1, <2>4, OpenStep, UpdateStepTypes
    <3>2. pc = "final_answer"
      BY <1>4 DEF RecordAnswerStep
    <3>3. QED
      BY <1>1, <2>1, <2>4, <3>1, <3>2 DEF LastStep
  <2>5. QED
    BY <2>2, <2>3, <2>4
<1>5. QED
  BY <1>2, <1>3, <1>4

LEMMA LastStepGuarded ==
  ASSUME Typed, LastStep, GuardAnswer
  PROVE  LastStep'
<1>1. pc = "guard" /\ pc' = "finish" /\ UNCHANGED steps /\ ~run.repairFailed
      /\ Current.state = "completed"
  BY DEF GuardAnswer, LastStep
<1>2. ~run'.repairFailed
  BY <1>1, FlagsKept DEF GuardAnswer
<1>3. ending'.reason \in {"completed", "guardrail_triggered"}
  <2>1. CASE ending' = Fallback("guardrail_triggered")
    BY <2>1, FallbackReason DEF StopReasons
  <2>2. CASE ending' # Fallback("guardrail_triggered")
    BY <2>2 DEF GuardAnswer
  <2>3. QED
    BY <2>1, <2>2
<1>4. Tells(ending.reason)'
  BY <1>1, <1>3 DEF Tells, Current
<1>5. QED
  BY <1>1, <1>2, <1>4 DEF LastStep

(* Ending the step of a tool call.                                         *)
LEMMA LastStepEndsTool ==
  ASSUME Typed, LastStep, pc \in Open, NEW reason \in Stops \cup {"needs_human"},
         NEW s \in StepType, s.state \in {"stopped", "needs_human"},
         s.state = "needs_human" <=> reason = "needs_human", EndToolStep(reason, s),
         run'.guardrail = run.guardrail, run'.repairFailed = run.repairFailed
  PROVE  LastStep'
<1>1. pc \in InStep /\ ~run.guardrail
  BY DEF LastStep, Open, InStep
<1>2. pc' = "recordTool" /\ ending' = Fallback(reason) /\ Current' = s
  BY <1>1, OpenStep, UpdateStepTypes DEF EndToolStep
<1>3. ending'.reason = reason /\ ending' # None
  BY <1>2, FallbackReason DEF Stops, StopReasons
<1>4. Tells(ending.reason)'
  BY <1>2, <1>3 DEF Tells, Stops
<1>5. QED
  BY <1>1, <1>2, <1>3, <1>4 DEF LastStep

LEMMA LastStepScreens ==
  ASSUME Typed, LastStep, ScreenToolCall
  PROVE  LastStep'
<1> DEFINE call == decision.call
           s == [Current EXCEPT !.state = "tool_call", !.tool = call[1]]
           waiting == [s EXCEPT !.state = "needs_human", !.error = TRUE]
<1>1. pc = "tool_call" /\ pc \in Open /\ pc \in InStep /\ ~run.guardrail
      /\ decision \in Decisions /\ decision.action = "tool_call"
  BY DEF ScreenToolCall, Open, InStep, LastStep, Typed, Shape
<1>2. call[1] \in Names
  BY <1>1 DEF Decisions, Calls
<1>3. s \in StepType /\ s.state = "tool_call"
  BY <1>1, <1>2, OpenStep DEF StepType, AgentStates
<1>4. waiting \in StepType /\ waiting.state = "needs_human"
  BY <1>3 DEF StepType, AgentStates
<1>5. Objection(call) \in (Stops \cup {"needs_human"}) \cup {Continue}
  BY DEF Objection, Stops, StopReasons
<1>6. \/ /\ UpdateStep(s) /\ pc' = "execute" /\ UNCHANGED ending
         /\ run' = [run EXCEPT !.calls = @ \cup {call}]
      \/ /\ UNCHANGED run /\ Objection(call) # Continue
         /\ \E said \in BOOLEAN :
              EndToolStep(Objection(call),
                IF Objection(call) = "needs_human" THEN waiting ELSE StoppedBy(s, said))
  BY DEF ScreenToolCall, Says
<1> HIDE DEF s, waiting, call
<1>7. CASE /\ UpdateStep(s) /\ pc' = "execute" /\ UNCHANGED ending
           /\ run' = [run EXCEPT !.calls = @ \cup {call}]
  <2>1. Current' = s
    BY <1>1, <1>3, <1>7, OpenStep, UpdateStepTypes
  <2>2. QED
    BY <1>1, <1>3, <1>7, <2>1, FlagsKept DEF LastStep
<1>8. ASSUME UNCHANGED run, Objection(call) # Continue, NEW said \in BOOLEAN,
             EndToolStep(Objection(call),
               IF Objection(call) = "needs_human" THEN waiting ELSE StoppedBy(s, said))
      PROVE  LastStep'
  <2>1. CASE Objection(call) = "needs_human"
    BY <1>1, <1>4, <1>8, <2>1, LastStepEndsTool
  <2>2. CASE Objection(call) # "needs_human"
    <3>1. Objection(call) \in Stops /\ EndToolStep(Objection(call), StoppedBy(s, said))
      BY <1>5, <1>8, <2>2
    <3>2. StoppedBy(s, said) \in StepType /\ StoppedBy(s, said).state = "stopped"
      BY <1>3, StoppedState
    <3>3. QED
      BY <1>1, <1>8, <2>2, <3>1, <3>2, LastStepEndsTool
  <2>3. QED
    BY <2>1, <2>2
<1>9. QED
  BY <1>6, <1>7, <1>8

LEMMA LastStepExecutes ==
  ASSUME Typed, LastStep, ToolRaises \/ \E reply \in ToolReplies : ToolReturns(reply)
  PROVE  LastStep'
<1>1. pc = "execute" /\ pc \in Open /\ pc \in InStep /\ ~run.guardrail
      /\ Current.state = "tool_call" /\ "tool_error_limit" \in Stops
  BY DEF ToolRaises, ToolReturns, Open, InStep, LastStep, Stops, StopReasons
<1>2. CASE ToolRaises
  <2>1. PICK said \in BOOLEAN : EndToolStep("tool_error_limit", StoppedBy(Current, said))
    BY <1>2 DEF ToolRaises, Says
  <2>2. UNCHANGED run
    BY <1>2 DEF ToolRaises
  <2>3. StoppedBy(Current, said) \in StepType /\ StoppedBy(Current, said).state = "stopped"
    BY <1>1, OpenStep, StoppedState
  <2>4. QED
    BY <1>1, <2>1, <2>2, <2>3, LastStepEndsTool
<1>3. ASSUME NEW reply \in ToolReplies, ToolReturns(reply) PROVE LastStep'
  <2> DEFINE s == [Current EXCEPT !.reply = reply]
  <2>1. s \in StepType /\ s.state = "tool_call"
    BY <1>1, OpenStep DEF StepType
  <2>2. \/ reply.tokens = Malformed /\ EndToolStep("tool_error_limit", Stopped(s)) /\ UNCHANGED run
        \/ /\ reply.tokens # Malformed
           /\ UpdateStep(WithToolUsage(s, reply)) /\ pc' = "executed" /\ UNCHANGED ending
           /\ run' = [run EXCEPT !.tokens = @ + reply.tokens, !.cost = @ + reply.cost,
                                 !.priced = @ \/ reply.priced,
                                 !.toolErrors = ToolErrors(@, reply.ok)]
    BY <1>3 DEF ToolReturns
  <2> HIDE DEF s
  <2>3. CASE EndToolStep("tool_error_limit", Stopped(s)) /\ UNCHANGED run
    BY <1>1, <2>1, <2>3, StoppedState, LastStepEndsTool
  <2>4. CASE /\ reply.tokens # Malformed
             /\ UpdateStep(WithToolUsage(s, reply)) /\ pc' = "executed" /\ UNCHANGED ending
             /\ run' = [run EXCEPT !.tokens = @ + reply.tokens, !.cost = @ + reply.cost,
                                   !.priced = @ \/ reply.priced,
                                   !.toolErrors = ToolErrors(@, reply.ok)]
    <3>1. reply.tokens \in Nat /\ reply.cost \in Nat
      BY <2>4, RunnerAssumption DEF ToolReplyType
    <3>2. WithToolUsage(s, reply) \in StepType /\ WithToolUsage(s, reply).state = "tool_call"
      <4> DEFINE tokens == s.tokens + reply.tokens
                 cost == s.cost + reply.cost
      <4>1. WithToolUsage(s, reply) = [s EXCEPT !.tokens = tokens, !.cost = cost]
        BY DEF WithToolUsage
      <4>2. tokens \in Nat /\ cost \in Nat
        BY <2>1, <3>1 DEF StepType
      <4> HIDE DEF tokens, cost
      <4>3. QED
        BY <2>1, <4>1, <4>2 DEF StepType
    <3>3. Current' = WithToolUsage(s, reply)
      BY <1>1, <2>4, <3>2, OpenStep, UpdateStepTypes
    <3>4. run'.guardrail = run.guardrail /\ run'.repairFailed = run.repairFailed
      BY <2>4, FlagsKept
    <3>5. QED
      BY <1>1, <2>4, <3>2, <3>3, <3>4 DEF LastStep
  <2>5. QED
    BY <2>2, <2>3, <2>4
<1>4. QED
  BY <1>2, <1>3

LEMMA LastStepChecksTool ==
  ASSUME Typed, LastStep, CheckToolStep
  PROVE  LastStep'
<1>1. pc = "executed" /\ pc \in Open /\ pc \in InStep /\ ~run.guardrail /\ ~run.repairFailed
      /\ Current.state = "tool_call" /\ ending = None /\ UNCHANGED run
  BY DEF CheckToolStep, Open, InStep, LastStep
<1> DEFINE s == [Current EXCEPT !.state = "stopped"]
<1>2. s \in StepType /\ s.state = "stopped"
  BY <1>1, OpenStep DEF StepType, AgentStates
<1>3. \/ EndToolStep("llm_error", Stopped(Current))
      \/ \E reason \in Stops : EndToolStep(reason, s)
      \/ pc' = "recordTool" /\ UNCHANGED <<steps, ending>>
  BY <1>1, LimitsStop DEF CheckToolStep
<1>4. CASE EndToolStep("llm_error", Stopped(Current))
  BY <1>1, <1>4, OpenStep, StoppedState, LastStepEndsTool, StopsAreReasons
<1>5. CASE \E reason \in Stops : EndToolStep(reason, s)
  <2> HIDE DEF s
  <2>1. "needs_human" \notin Stops
    BY DEF Stops
  <2>2. QED
    BY <1>1, <1>2, <1>5, <2>1, LastStepEndsTool
<1>6. CASE pc' = "recordTool" /\ UNCHANGED <<steps, ending>>
  BY <1>1, <1>6 DEF LastStep, Current
<1>7. QED
  BY <1>3, <1>4, <1>5, <1>6

LEMMA LastStepStoresTool ==
  ASSUME Typed, LastStep, RecordToolStep
  PROVE  LastStep'
<1>1. pc = "recordTool" /\ pc \in InStep /\ ~run.guardrail /\ ~run.repairFailed
      /\ UNCHANGED run
  BY DEF RecordToolStep, InStep, LastStep
<1>2. CASE UpdateStep(Stopped(Current)) /\ ending' = Fallback("llm_error") /\ pc' = "finish"
  <2>1. Current'.state = "stopped"
    BY <1>1, <1>2, OpenStep, StoppedState, UpdateStepTypes
  <2>2. ending'.reason = "llm_error"
    BY <1>2, FallbackReason, StopsAreReasons
  <2>3. Tells(ending.reason)'
    BY <2>1, <2>2 DEF Tells
  <2>4. QED
    BY <1>1, <1>2, <2>3 DEF LastStep
<1>3. CASE ending # None /\ pc' = "finish" /\ UNCHANGED <<steps, ending>>
  BY <1>1, <1>3 DEF LastStep, Tells, Current
<1>4. CASE ending = None /\ pc' = "loop" /\ UNCHANGED <<steps, ending>>
  BY <1>1, <1>4 DEF LastStep, Current
<1>5. QED
  BY <1>2, <1>3, <1>4 DEF RecordToolStep

LEMMA LastStepStep ==
  ASSUME Typed, Ordered, LastStep, [Next]_vars
  PROVE  LastStep'
<1>1. CASE (\E r \in Requests : Submit(r)) \/ ResetPlanner
  <2>1. pc' \in {"reset", "startClock", "done"} /\ UNCHANGED <<run, steps, ending>>
        /\ pc \in Unstarted /\ steps = << >> /\ pc \notin {"finish", "done"}
    BY <1>1 DEF Submit, ResetPlanner, Refuse, Unstarted, Ordered, Logged
  <2>2. QED
    BY <2>1 DEF LastStep, Unstarted
<1>2. CASE StartClock
  <2>1. pc' \in {"started", "done"} /\ UNCHANGED <<steps, ending>> /\ pc = "startClock"
        /\ steps = << >>
    BY <1>2 DEF StartClock, Refuse, Unstarted, Ordered, Logged
  <2>2. ~run'.guardrail /\ ~run'.repairFailed
    BY <1>2, <2>1 DEF StartClock, Refuse, NewRun, LastStep
  <2>3. QED
    BY <2>1, <2>2 DEF LastStep
<1>3. CASE RecordStarted
  <2>1. pc = "started" /\ steps' = << >> /\ UNCHANGED run
        /\ (pc' = "finish" \/ (pc' = "loop" /\ UNCHANGED ending))
    BY <1>3 DEF RecordStarted, Unstarted, Ordered, Logged
  <2>2. QED
    BY <2>1 DEF LastStep
<1>4. CASE Finish
  <2>1. pc = "finish" /\ pc' = "done" /\ UNCHANGED <<run, steps>>
        /\ result'.reason = ending.reason
    BY <1>4 DEF Finish, FinishedResult
  <2>2. QED
    BY <2>1 DEF LastStep, Tells, Current
<1>5. CASE UNCHANGED vars
  BY <1>5 DEF vars, LastStep, Tells, Current
<1>6. QED
  BY <1>1, <1>2, <1>3, <1>4, <1>5, LastStepOpens, LastStepPlans, LastStepChecks,
     LastStepStored, LastStepGuarded, LastStepScreens, LastStepExecutes,
     LastStepChecksTool, LastStepStoresTool DEF Next, RunnerStep

LEMMA LastStepAlways == Spec => []LastStep
<1>1. Init => LastStep
  BY DEF Init, LastStep, NewRun
<1>2. QED
  BY <1>1, LastStepStep, TypedAlways, OrderedAlways, PTL DEF Spec

-----------------------------------------------------------------------------
(* Where the sources of an answer come from.                               *)

Sourced == IsFiniteSet(DOMAIN sources) /\ SourcesComeFromStoredSteps

Brings(event) ==
  event.kind = "step" /\ event.outcome # "failed" /\ event.step.state = "tool_call"

(* An event that brings no sources changes nothing.                        *)
LEMMA SourcedElsewhere ==
  ASSUME log \in Seq(EventType), Sourced, UNCHANGED sources,
         log' = log \/ \E e : log' = Append(log, e) /\ ~Brings(e)
  PROVE  Sourced'
<1>1. Merging' = Merging /\ \A i \in Merging : log'[i] = log[i]
  <2>1. CASE log' = log
    BY <2>1 DEF Merging
  <2>2. ASSUME NEW e, log' = Append(log, e), ~Brings(e)
        PROVE  Merging' = Merging /\ \A i \in Merging : log'[i] = log[i]
    <3>1. /\ DOMAIN log = 1..Len(log) /\ DOMAIN log' = 1..(Len(log) + 1)
          /\ Len(log) \in Nat /\ log'[Len(log) + 1] = e
          /\ \A i \in 1..Len(log) : log'[i] = log[i]
      BY <2>2
    <3>2. Len(log) + 1 \notin Merging'
      BY <2>2, <3>1 DEF Merging, Brings
    <3>3. \A i \in 1..(Len(log) + 1) : i # Len(log) + 1 => i \in 1..Len(log)
      BY <3>1
    <3>4. \A i : i \in Merging' <=> i \in Merging
      BY <3>1, <3>2, <3>3 DEF Merging
    <3>5. Merging' = Merging
      BY <3>4
    <3>6. QED
      BY <3>1, <3>5 DEF Merging
  <2>3. QED
    BY <2>1, <2>2
<1>2. \A id : Returning(id)' = Returning(id)
  BY <1>1 DEF Returning
<1>3. \A id, f : /\ Naming(id, f)' = Naming(id, f)
                 /\ \A i \in Naming(id, f) : log'[i] = log[i]
  BY <1>1 DEF Naming
<1>4. QED
  BY <1>2, <1>3 DEF Sourced, SourcesComeFromStoredSteps

(* A full list admits nothing.                                             *)
LEMMA FullAdmitsNone ==
  ASSUME NEW target, NEW incoming \in Seq(Sources), IsFiniteSet(DOMAIN target),
         Cardinality(DOMAIN target) = MaxSources
  PROVE  Admitted(target, incoming) = {}
<1> DEFINE fresh == {s.identity : s \in Elements(incoming)} \ DOMAIN target
           earlier(id) == {other \in fresh : FirstAt(incoming, other) < FirstAt(incoming, id)}
<1>1. ASSUME NEW id PROVE ~(MaxSources + Cardinality(earlier(id)) < MaxSources)
  <2>1. IsFiniteSet(earlier(id))
    BY FreshPlaces, FS_Subset
  <2>2. Cardinality(earlier(id)) \in Nat
    BY <2>1, FS_CardinalityType
  <2> HIDE DEF earlier
  <2>3. QED
    BY <2>2, MaxSourcesAssumption
<1>2. QED
  BY <1>1 DEF Admitted

(* The tool step the store took brings its sources.                        *)
LEMMA SourcedMerge ==
  ASSUME Typed, Sourced, NEW e, Brings(e), log' = Append(log, e),
         e.step.reply.sources \in Seq(Sources),
         sources' = MergeSources(sources, e.step.reply.sources)
  PROVE  Sourced'
<1> DEFINE incoming == e.step.reply.sources
           n == Len(log) + 1
<1>1. /\ n \in Nat /\ Merging' = Merging \cup {n} /\ log'[n] = e
      /\ \A i \in Merging : i \in Nat /\ i < n /\ log'[i] = log[i]
  <2>1. /\ DOMAIN log = 1..Len(log) /\ DOMAIN log' = 1..n
        /\ Len(log) \in Nat /\ log'[n] = e
        /\ \A i \in 1..Len(log) : log'[i] = log[i]
    BY DEF Typed, TypeOK
  <2>2. QED
    BY <2>1 DEF Merging, Brings
<1>2. ASSUME NEW id
      PROVE  Returning(id)' = Returning(id) \cup
               (IF Occurrences(incoming, id) # {} THEN {n} ELSE {})
  BY <1>1 DEF Returning
<1>3. ASSUME NEW id, NEW f
      PROVE  /\ Naming(id, f)' = Naming(id, f) \cup
                  (IF Filled(incoming, id, f) # {} THEN {n} ELSE {})
             /\ \A i \in Naming(id, f) : i \in Nat /\ i < n /\ log'[i] = log[i]
  BY <1>1 DEF Naming
<1>4. IsFiniteSet(DOMAIN sources') /\ Cardinality(DOMAIN sources') <= MaxSources
  BY MergeKeepsTheCap DEF Sourced, SourcesComeFromStoredSteps
<1>5. DOMAIN sources' = DOMAIN sources \cup Admitted(sources, incoming)
  BY DEF MergeSources
<1>6. ASSUME NEW id \in DOMAIN sources' PROVE Returning(id)' # {}
  <2>1. id \in DOMAIN sources \/ Occurrences(incoming, id) # {}
    BY MergedSource
  <2>2. QED
    BY <1>2, <2>1 DEF Sourced, SourcesComeFromStoredSteps
<1>7. ASSUME NEW id \in Identities, id \notin DOMAIN sources', Returning(id)' # {}
      PROVE  Cardinality(DOMAIN sources') = MaxSources
  <2>1. CASE Occurrences(incoming, id) # {}
    BY <1>7, <2>1, MergeFillsTheCap DEF Sourced, SourcesComeFromStoredSteps
  <2>2. CASE Occurrences(incoming, id) = {}
    <3>1. Cardinality(DOMAIN sources) = MaxSources
      BY <1>2, <1>5, <1>7, <2>2 DEF Sourced, SourcesComeFromStoredSteps
    <3>2. Admitted(sources, incoming) = {}
      BY <3>1, FullAdmitsNone DEF Sourced
    <3>3. QED
      BY <1>5, <3>1, <3>2
  <2>3. QED
    BY <2>1, <2>2
<1>8. ASSUME NEW id \in DOMAIN sources', NEW f \in Fields
      PROVE  IF Naming(id, f)' = {} THEN sources'[id][f] = NoLabel
             ELSE \E i \in Naming(id, f)' :
                    /\ \A j \in Naming(id, f)' : j <= i
                    /\ sources'[id][f] = LastValue(log'[i].step.reply.sources, id, f)
  <2>1. sources'[id][f] = MergedField(sources, incoming, id, f)
    BY MergedSource
  <2>2. CASE Filled(incoming, id, f) # {}
    <3>1. n \in Naming(id, f)' /\ \A j \in Naming(id, f)' : j <= n
      BY <1>1, <1>3, <2>2
    <3>2. sources'[id][f] = LastValue(log'[n].step.reply.sources, id, f)
      BY <1>1, <2>1, <2>2 DEF MergedField
    <3>3. QED
      BY <3>1, <3>2
  <2>3. CASE Filled(incoming, id, f) = {} /\ id \in DOMAIN sources
    <3>1. sources'[id][f] = sources[id][f] /\ Naming(id, f)' = Naming(id, f)
      BY <1>3, <2>1, <2>3 DEF MergedField
    <3>2. IF Naming(id, f) = {} THEN sources[id][f] = NoLabel
          ELSE \E i \in Naming(id, f) :
                 /\ \A j \in Naming(id, f) : j <= i
                 /\ sources[id][f] = LastValue(log[i].step.reply.sources, id, f)
      BY <2>3 DEF Sourced, SourcesComeFromStoredSteps
    <3>3. QED
      BY <1>3, <3>1, <3>2
  <2>4. CASE Filled(incoming, id, f) = {} /\ id \notin DOMAIN sources
    <3>1. sources'[id][f] = NoLabel /\ Naming(id, f)' = Naming(id, f)
      BY <1>3, <2>1, <2>4 DEF MergedField
    <3>2. id \in Identities
      BY MergedTypes DEF Typed, TypeOK
    <3>3. Cardinality(DOMAIN sources) # MaxSources
      BY <1>5, <2>4, FullAdmitsNone DEF Sourced
    <3>4. Returning(id) = {}
      BY <2>4, <3>2, <3>3 DEF Sourced, SourcesComeFromStoredSteps
    <3>5. Naming(id, f) = {}
      BY <3>4 DEF Naming, Returning, Filled
    <3>6. QED
      BY <3>1, <3>5
  <2>5. QED
    BY <2>2, <2>3, <2>4
<1>9. QED
  BY <1>4, <1>6, <1>7, <1>8 DEF Sourced, SourcesComeFromStoredSteps

LEMMA SourcedRecordToolStep ==
  ASSUME Typed, LastStep, Sourced, RecordToolStep
  PROVE  Sourced'
<1>1. PICK outcome \in StoreOutcomes :
        /\ log' = Append(log, Event("step", Len(steps), Current, outcome))
        /\ \/ /\ outcome = "failed" \/ ending # None
              /\ UNCHANGED sources
           \/ /\ outcome # "failed" /\ ending = None
              /\ sources' = MergeSources(sources, Current.reply.sources)
  BY DEF RecordToolStep
<1> DEFINE e == Event("step", Len(steps), Current, outcome)
<1>2. /\ e.kind = "step" /\ e.outcome = outcome /\ e.step = Current
      /\ log \in Seq(EventType)
  BY DEF Event, Typed, TypeOK
<1> HIDE DEF e
<1>3. CASE outcome = "failed" \/ ending # None
  <2>1. ~Brings(e) /\ UNCHANGED sources
    BY <1>1, <1>2, <1>3 DEF Brings, LastStep, RecordToolStep
  <2>2. QED
    BY <1>1, <1>2, <2>1, SourcedElsewhere DEF e
<1>4. CASE outcome # "failed" /\ ending = None
  <2>1. Brings(e)
    BY <1>2, <1>4 DEF Brings, LastStep, RecordToolStep
  <2>2. e.step.reply.sources \in Seq(Sources)
    BY <1>2, <1>4, ReplyTypes DEF RecordToolStep, Typed, Shape
  <2>3. log' = Append(log, e) /\ sources' = MergeSources(sources, e.step.reply.sources)
    BY <1>1, <1>2, <1>4 DEF e
  <2>4. QED
    BY <2>1, <2>2, <2>3, SourcedMerge
<1>5. QED
  BY <1>3, <1>4

(* Every other step offered to the store is that of an answer or stopped.  *)
LEMMA SourcedOtherStep ==
  ASSUME Typed, LastStep, Sourced,
         RecordStarted \/ RecordStoppedStep \/ RejectDecision \/ RecordAnswerStep \/ Finish
  PROVE  Sourced'
<1>1. log \in Seq(EventType) /\ UNCHANGED sources
  BY DEF Typed, TypeOK, RecordStarted, RecordStoppedStep, RejectDecision,
         RecordAnswerStep, Finish
<1>2. CASE RecordStarted \/ Finish
  <2>1. \E kind \in {"started", "completed"} : \E index, outcome :
          log' = Append(log, Event(kind, index, None, outcome))
    BY <1>2, Zenon DEF RecordStarted, Finish
  <2> DEFINE silent(kind, index, outcome) == ~Brings(Event(kind, index, None, outcome))
  <2>2. \A kind \in {"started", "completed"} : \A index, outcome : silent(kind, index, outcome)
    BY DEF Event, Brings
  <2>3. \E e : log' = Append(log, e) /\ ~Brings(e)
    BY <2>1, <2>2, Zenon
  <2>4. QED
    BY <1>1, <2>3, SourcedElsewhere
<1>3. CASE RecordStoppedStep
  <2>1. Current.state = "stopped"
    BY <1>3 DEF RecordStoppedStep, LastStep
  <2>2. \E e : log' = Append(log, e) /\ ~Brings(e)
    BY <1>3, <2>1 DEF RecordStoppedStep, Event, Brings
  <2>3. QED
    BY <1>1, <2>2, SourcedElsewhere
<1>4. CASE RejectDecision
  <2>1. Stopped(Current).state = "stopped"
    BY <1>4, OpenStep, StoppedState DEF RejectDecision, InStep
  <2>2. \E e : log' = Append(log, e) /\ ~Brings(e)
    BY <1>4, <2>1 DEF RejectDecision, Event, Brings
  <2>3. QED
    BY <1>1, <2>2, SourcedElsewhere
<1>5. CASE RecordAnswerStep
  <2> DEFINE s == [Current EXCEPT !.state = "completed"]
  <2>1. s.state = "completed"
    BY <1>5, OpenStep DEF RecordAnswerStep, InStep, StepType
  <2>2. \E outcome \in StoreOutcomes : log' = Append(log, Event("step", Len(steps), s, outcome))
    BY <1>5 DEF RecordAnswerStep
  <2> HIDE DEF s
  <2>3. \E e : log' = Append(log, e) /\ ~Brings(e)
    BY <2>1, <2>2 DEF Event, Brings
  <2>4. QED
    BY <1>1, <2>3, SourcedElsewhere
<1>6. QED
  BY <1>2, <1>3, <1>4, <1>5

LEMMA SourcedStep ==
  ASSUME Typed, LastStep, Sourced, [Next]_vars
  PROVE  Sourced'
<1>1. log \in Seq(EventType)
  BY DEF Typed, TypeOK
<1>2. CASE UNCHANGED <<sources, log>>
  BY <1>1, <1>2, SourcedElsewhere
<1>3. CASE \/ \E r \in Requests : Submit(r)
           \/ ResetPlanner \/ StartClock \/ CheckBudget
           \/ \E f \in PlannerFailures : PlannerRaises(f)
           \/ \E p \in PlannerResults : PlannerReturns(p)
           \/ CheckDecision \/ GuardAnswer \/ ScreenToolCall \/ ToolRaises
           \/ \E reply \in ToolReplies : ToolReturns(reply)
           \/ CheckToolStep
  BY <1>2, <1>3
     DEF Submit, ResetPlanner, StartClock, CheckBudget, PlannerRaises,
         PlannerReturns, CheckDecision, GuardAnswer, ScreenToolCall, ToolRaises,
         ToolReturns, CheckToolStep
<1>4. QED
  BY <1>2, <1>3, SourcedRecordToolStep, SourcedOtherStep DEF Next, RunnerStep, vars

LEMMA SourcedInit == Init => Sourced
<1> SUFFICES ASSUME Init PROVE Sourced
  OBVIOUS
<1>1. DOMAIN sources = {} /\ log = << >>
  BY DEF Init, NoSources
<1>2. IsFiniteSet(DOMAIN sources) /\ Cardinality(DOMAIN sources) <= MaxSources
  BY <1>1, FS_EmptySet, MaxSourcesAssumption
<1>3. \A id : Returning(id) = {}
  BY <1>1 DEF Returning, Merging
<1>4. QED
  BY <1>1, <1>2, <1>3 DEF Sourced, SourcesComeFromStoredSteps

(* The sources handed back with an answer are those the stored tool steps  *)
(* of this run returned, left out only beyond the cap; what is shown of    *)
(* one is, field by field, the last that a stored step returned of it.     *)
THEOREM SourcesAreStored == Spec => []SourcesComeFromStoredSteps
<1>1. Typed /\ LastStep /\ Sourced /\ [Next]_vars => Sourced'
  BY SourcedStep
<1>2. Sourced => SourcesComeFromStoredSteps
  BY DEF Sourced
<1>3. QED
  BY <1>1, <1>2, SourcedInit, TypedAlways, LastStepAlways, PTL DEF Spec

-----------------------------------------------------------------------------
(* What the store holds is what the steps say.                             *)
Kept ==
  \A i \in DOMAIN log :
    log[i].kind = "step" /\ log[i].outcome # "failed" =>
      log[i].index \in DOMAIN steps /\ log[i].step = steps[log[i].index]

(* A run with a noticed failure is about to end, and not as completed.     *)
Refusal == \E i \in DOMAIN log : log[i].kind # "completed" /\ log[i].outcome = "failed"
Failing ==
  Refusal =>
    \/ pc = "finish" /\ ending.reason \in Stops
    \/ pc = "done" /\ result.reason \in Stops

Final == Kept /\ Failing

LEMMA OpeningKeepsSteps ==
  ASSUME steps \in Seq(StepType), NEW e \in StepType, steps' = Append(steps, e)
  PROVE  \A j \in 1..Len(steps) : j \in DOMAIN steps' /\ steps'[j] = steps[j]
  OBVIOUS

(* An update of the open step, which the store has not been offered.       *)
LEMMA FinalQuietly ==
  ASSUME Typed, Ordered, Final, UNCHANGED log,
         \/ pc \in Unstarted \cup {"loop", "guard"} /\ UNCHANGED steps
         \/ pc = "loop" /\ steps' = Append(steps, NewStep)
         \/ pc \in Open /\ \E s : UpdateStep(s)
         \/ pc \in Open /\ UNCHANGED steps
  PROVE  Final'
<1>1. steps \in Seq(StepType) /\ Len(steps) \in Nat /\ DOMAIN steps = 1..Len(steps)
      /\ log \in Seq(EventType) /\ DOMAIN log = 1..Len(log) /\ Len(log) \in Nat
  BY LengthsAreNaturals
<1>2. ~Refusal' /\ ~Refusal
  BY DEF Final, Failing, Refusal, Unstarted, Open, InStep
<1>3. ASSUME NEW i \in DOMAIN log, log[i].kind = "step", log[i].outcome # "failed"
      PROVE  log[i].index \in DOMAIN steps' /\ log[i].step = steps'[log[i].index]
  <2>1. log[i].index \in DOMAIN steps /\ log[i].step = steps[log[i].index]
    BY <1>3 DEF Final, Kept
  <2>2. CASE UNCHANGED steps
    BY <2>1, <2>2
  <2>3. CASE steps' = Append(steps, NewStep)
    <3>1. NewStep \in StepType
      BY DEF NewStep, StepType, AgentStates
    <3>2. \A j \in 1..Len(steps) : j \in DOMAIN steps' /\ steps'[j] = steps[j]
      BY <1>1, <2>3, <3>1, OpeningKeepsSteps
    <3>3. QED
      BY <1>1, <2>1, <2>3, <3>2
  <2>4. CASE pc \in Open /\ \E s : UpdateStep(s)
    <3>1. log[i].index = i - 1 /\ Len(log) = Len(steps)
      BY <1>3, <2>4 DEF Ordered, InOrder, Logged
    <3>2. log[i].index # Len(steps)
      BY <1>1, <3>1
    <3>3. DOMAIN steps' = DOMAIN steps /\ steps'[log[i].index] = steps[log[i].index]
      BY <1>1, <2>1, <2>4, <3>2 DEF UpdateStep
    <3>4. QED
      BY <2>1, <3>3
  <2>5. QED
    BY <2>2, <2>3, <2>4
<1>4. QED
  BY <1>2, <1>3 DEF Final, Kept, Failing

(* An offer of the open step: as it is from then on, unless the store      *)
(* fails, and then the run ends.                                           *)
LEMMA FinalOffer ==
  ASSUME Typed, Ordered, Final, pc \in Open, NEW s, NEW outcome,
         log' = Append(log, Event("step", Len(steps), s, outcome)),
         outcome # "failed" => steps' = [steps EXCEPT ![Len(steps)] = s],
         outcome = "failed" => /\ \E t : UpdateStep(t)
                               /\ pc' = "finish" /\ ending'.reason \in Stops
  PROVE  Final'
<1> DEFINE n == Len(log) + 1
<1>1. /\ steps \in Seq(StepType) /\ Len(steps) \in Nat \ {0} /\ DOMAIN steps = 1..Len(steps)
      /\ log \in Seq(EventType) /\ Len(log) = Len(steps) /\ steps # << >>
  BY LengthsAreNaturals DEF Ordered, Logged, Typed, Shape, Open
<1>2. /\ DOMAIN log' = 1..n /\ DOMAIN log = 1..(n - 1)
      /\ \A i \in DOMAIN log : log'[i] = log[i]
      /\ log'[n] = Event("step", Len(steps), s, outcome)
  BY <1>1, Appends
<1>3. /\ log'[n].index = Len(steps) /\ log'[n].step = s /\ log'[n].outcome = outcome
      /\ log'[n].kind = "step"
  BY <1>2 DEF Event
<1>4. /\ DOMAIN steps' = DOMAIN steps
      /\ \A j \in DOMAIN steps : j # Len(steps) => steps'[j] = steps[j]
      /\ outcome # "failed" => steps'[Len(steps)] = s
  BY <1>1 DEF UpdateStep
<1>5. ~Refusal
  BY DEF Final, Failing, Open, InStep
<1>6. Kept'
  <2> SUFFICES ASSUME NEW i \in DOMAIN log', log'[i].kind = "step", log'[i].outcome # "failed"
               PROVE  log'[i].index \in DOMAIN steps' /\ log'[i].step = steps'[log'[i].index]
    BY DEF Kept
  <2>1. CASE i = n
    BY <1>1, <1>3, <1>4, <2>1
  <2>2. CASE i # n
    <3>1. i \in DOMAIN log /\ log'[i] = log[i] /\ i < n
      BY <1>1, <1>2, <2>2
    <3>2. log[i].index \in DOMAIN steps /\ log[i].step = steps[log[i].index]
      BY <3>1 DEF Final, Kept
    <3>3. log[i].index # Len(steps)
      BY <1>1, <3>1 DEF Ordered, InOrder
    <3>4. QED
      BY <1>4, <3>1, <3>2, <3>3
  <2>3. QED
    BY <2>1, <2>2
<1>7. Refusal' => outcome = "failed"
  <2> SUFFICES ASSUME Refusal' PROVE outcome = "failed"
    OBVIOUS
  <2>1. PICK i \in DOMAIN log' : log'[i].kind # "completed" /\ log'[i].outcome = "failed"
    BY DEF Refusal
  <2>2. i = n \/ i \in DOMAIN log
    BY <1>1, <1>2
  <2>3. QED
    BY <1>2, <1>3, <1>5, <2>1, <2>2 DEF Refusal
<1>8. QED
  BY <1>6, <1>7 DEF Final, Failing

LEMMA FinalStored ==
  ASSUME Typed, Ordered, LastStep, Final,
         RecordStoppedStep \/ RejectDecision \/ RecordAnswerStep \/ RecordToolStep
  PROVE  Final'
<1>1. pc \in Open /\ pc \in InStep
  BY DEF RecordStoppedStep, RejectDecision, RecordAnswerStep, RecordToolStep, Open, InStep
<1>2. /\ steps \in Seq(StepType) /\ steps = [steps EXCEPT ![Len(steps)] = Current]
  BY <1>1, OpenStep DEF Current
<1>3. Fallback("llm_error").reason \in Stops
  BY FallbackReason, StopsAreReasons
<1>4. CASE RecordStoppedStep
  <2>1. PICK outcome \in StoreOutcomes :
          /\ log' = Append(log, Event("step", Len(steps), Current, outcome))
          /\ IF outcome = "failed"
             THEN UpdateStep([Current EXCEPT !.error = TRUE])
             ELSE UNCHANGED steps
    BY <1>4 DEF RecordStoppedStep
  <2>2. pc' = "finish" /\ ending'.reason \in Stops
    BY <1>4 DEF RecordStoppedStep, LastStep
  <2>3. QED
    BY <1>1, <1>2, <2>1, <2>2, FinalOffer
<1>5. CASE RejectDecision
  <2>1. PICK outcome \in StoreOutcomes :
          /\ log' = Append(log, Event("step", Len(steps), Stopped(Current), outcome))
          /\ ending' = Fallback(IF outcome = "failed" THEN "llm_error" ELSE "invalid_decision")
    BY <1>5 DEF RejectDecision
  <2>2. UpdateStep(Stopped(Current)) /\ pc' = "finish"
    BY <1>5 DEF RejectDecision
  <2>3. outcome = "failed" => ending'.reason \in Stops
    BY <1>3, <2>1
  <2>4. steps' = [steps EXCEPT ![Len(steps)] = Stopped(Current)]
    BY <2>2 DEF UpdateStep
  <2>5. QED
    BY <1>1, <2>1, <2>2, <2>3, <2>4, FinalOffer
<1>6. CASE RecordAnswerStep
  <2> DEFINE s == [Current EXCEPT !.state = "completed"]
  <2>1. PICK outcome \in StoreOutcomes :
          /\ log' = Append(log, Event("step", Len(steps), s, outcome))
          /\ IF outcome = "failed"
             THEN UpdateStep(Stopped(s)) /\ ending' = Fallback("llm_error") /\ pc' = "finish"
             ELSE UpdateStep(s)
    BY <1>6 DEF RecordAnswerStep
  <2> HIDE DEF s
  <2>2. QED
    BY <1>1, <1>3, <2>1, FinalOffer DEF UpdateStep
<1>7. CASE RecordToolStep
  <2>1. PICK outcome \in StoreOutcomes :
          /\ log' = Append(log, Event("step", Len(steps), Current, outcome))
          /\ IF outcome = "failed"
             THEN UpdateStep(Stopped(Current)) /\ ending' = Fallback("llm_error") /\ pc' = "finish"
             ELSE UNCHANGED steps
    BY <1>7 DEF RecordToolStep
  <2>2. QED
    BY <1>1, <1>2, <1>3, <2>1, FinalOffer
<1>8. QED
  BY <1>4, <1>5, <1>6, <1>7

LEMMA FinalFinish ==
  ASSUME Typed, Final, Finish
  PROVE  Final'
<1>1. /\ pc = "finish" /\ pc' = "done" /\ UNCHANGED steps /\ log \in Seq(EventType)
      /\ result'.reason = ending.reason
  BY LengthsAreNaturals DEF Finish, FinishedResult
<1>2. PICK outcome : log' = Append(log, Event("completed", Len(steps), None, outcome))
  BY DEF Finish
<1>3. /\ \A i \in DOMAIN log' : i \in DOMAIN log \/ log'[i].kind = "completed"
      /\ \A i \in DOMAIN log : log'[i] = log[i]
  BY <1>1, <1>2, Appends DEF Event
<1>4. Kept'
  BY <1>1, <1>3 DEF Final, Kept
<1>5. Refusal' => Refusal
  BY <1>3 DEF Refusal
<1>6. QED
  BY <1>1, <1>4, <1>5 DEF Final, Failing

LEMMA FinalStep ==
  ASSUME Typed, Ordered, LastStep, Final, [Next]_vars
  PROVE  Final'
<1>1. CASE \/ \E r \in Requests : Submit(r)
           \/ ResetPlanner \/ StartClock
  <2>1. pc \in Unstarted /\ UNCHANGED <<log, steps>>
    BY <1>1 DEF Submit, ResetPlanner, StartClock, Refuse, Unstarted
  <2>2. QED
    BY <2>1, FinalQuietly
<1>2. CASE RecordStarted
  <2>1. PICK outcome \in StoreOutcomes :
          /\ log' = Append(log, Event("started", 0, None, outcome))
          /\ outcome = "failed" => pc' = "finish" /\ ending' = Fallback("llm_error")
    BY <1>2 DEF RecordStarted
  <2>2. log = << >> /\ UNCHANGED steps
    BY <1>2 DEF RecordStarted, Ordered, Logged, Unstarted
  <2>3. /\ DOMAIN log' = {1} /\ log'[1].kind = "started" /\ log'[1].outcome = outcome
    BY <2>1, <2>2 DEF Event
  <2>4. Fallback("llm_error").reason \in Stops
    BY FallbackReason, StopsAreReasons
  <2>5. QED
    BY <2>1, <2>3, <2>4 DEF Final, Kept, Failing, Refusal
<1>3. CASE CheckBudget
  BY <1>3, FinalQuietly DEF CheckBudget
<1>4. CASE \/ \E f \in PlannerFailures : PlannerRaises(f)
           \/ \E p \in PlannerResults : PlannerReturns(p)
           \/ CheckDecision \/ ScreenToolCall \/ ToolRaises
           \/ \E reply \in ToolReplies : ToolReturns(reply)
           \/ CheckToolStep
  <2>1. pc \in Open /\ UNCHANGED log
    BY <1>4 DEF PlannerRaises, PlannerReturns, CheckDecision, ScreenToolCall, ToolRaises,
       ToolReturns, CheckToolStep, Open, InStep
  <2>2. UNCHANGED steps \/ \E s : UpdateStep(s)
    <3>1. CASE \/ \E f \in PlannerFailures : PlannerRaises(f)
               \/ \E p \in PlannerResults : PlannerReturns(p)
               \/ CheckDecision
      BY <3>1 DEF PlannerRaises, PlannerReturns, CheckDecision, EndWith
    <3>2. CASE ScreenToolCall \/ ToolRaises \/ CheckToolStep
      BY <3>2 DEF ScreenToolCall, ToolRaises, CheckToolStep, EndToolStep
    <3>3. CASE \E reply \in ToolReplies : ToolReturns(reply)
      BY <3>3 DEF ToolReturns, EndToolStep
    <3>4. QED
      BY <1>4, <3>1, <3>2, <3>3
  <2>3. QED
    BY <2>1, <2>2, FinalQuietly
<1>5. CASE RecordStoppedStep \/ RejectDecision \/ RecordAnswerStep \/ RecordToolStep
  BY <1>5, FinalStored
<1>6. CASE GuardAnswer
  BY <1>6, FinalQuietly DEF GuardAnswer
<1>7. CASE Finish
  BY <1>7, FinalFinish
<1>8. CASE UNCHANGED vars
  BY <1>8 DEF vars, Final, Kept, Failing, Refusal
<1>9. QED
  BY <1>1, <1>2, <1>3, <1>4, <1>5, <1>6, <1>7, <1>8 DEF Next, RunnerStep

(* Once a step is offered and no failure noticed, it is never changed; a   *)
(* run with a noticed failure does not complete; and the last step tells   *)
(* how the run ended.                                                      *)
THEOREM StoredStepsStayFinal == Spec => []StoredStepsAreFinal
<1>1. Init => Final
  BY DEF Init, Final, Kept, Failing, Refusal
<1>2. Typed /\ Ordered /\ LastStep /\ Final /\ [Next]_vars => Final'
  BY FinalStep
<1>3. LastStep /\ Final => StoredStepsAreFinal
  BY DEF LastStep, Final, Kept, Failing, Refusal, Tells, Stops, StoredStepsAreFinal
<1>4. QED
  BY <1>1, <1>2, <1>3, TypedAlways, OrderedAlways, LastStepAlways, PTL DEF Spec

-----------------------------------------------------------------------------
(* What the head of the loop and the check after the planner establish, up *)
(* to the call they allow.  A clock that raises without a message reads as *)
(* 0.0, which no limit stops: the clock must not do that.                  *)
ClockSpeaks == "clock" \notin Messageless

Timely ==
  request.limits.maxTime > 0 => now - run.startedAt <= request.limits.maxTime

Afforded ==
  /\ request.limits.maxTokens > 0 => run.tokens < request.limits.maxTokens
  /\ request.limits.maxCost > 0 => run.cost < request.limits.maxCost
  /\ run.toolErrors < request.limits.toolErrorLimit

Calling == {"plan", "tool_call", "execute"}

Budgeted ==
  /\ run.stepCount = Len(steps)
  /\ pc \in Calling \cup {"planned"} => Len(steps) <= request.limits.maxSteps
  /\ pc \in Calling => Timely /\ Afforded

LEMMA ContinueAffords ==
  ASSUME run \in RunType, NEW limits \in RunLimits, NEW counting, NEW t \in Nat,
         EvaluateStop(run, limits, counting, t) = Continue
  PROVE  /\ counting => run.stepCount < limits.maxSteps
         /\ limits.maxTime > 0 => t - run.startedAt <= limits.maxTime
         /\ limits.maxTokens > 0 => run.tokens < limits.maxTokens
         /\ limits.maxCost > 0 => run.cost < limits.maxCost
         /\ run.toolErrors < limits.toolErrorLimit
<1>1. /\ counting => ~(run.stepCount >= limits.maxSteps)
      /\ ~OutOfTime(run, limits, t)
      /\ ~OutOfTokens(run, limits)
      /\ ~OutOfMoney(run, limits)
      /\ ~TooManyErrors(run, limits)
  BY DEF EvaluateStop, Continue
<1>2. QED
  BY <1>1 DEF OutOfTime, OutOfTokens, OutOfMoney, TooManyErrors, RunType, RunLimits

LEMMA LimitsAreTyped ==
  ASSUME Typed, pc \in InStep \cup {"loop", "startClock"}
  PROVE  /\ request \in Requests /\ request.limits \in RunLimits
         /\ run \in RunType /\ steps \in Seq(StepType) /\ now \in Nat
  BY RunnerAssumption DEF Typed, TypeOK, Shape, InStep

LEMMA SpeakingClock ==
  ASSUME ClockSpeaks, NEW t \in Times, Reading(t)
  PROVE  now' = t /\ t \in Nat
  BY RunnerAssumption DEF ClockSpeaks, Times, Reading, ReadClock, ClockLies

(* Away from the calls, only the count of the steps is at stake.           *)
LEMMA BudgetedElsewhere ==
  ASSUME Budgeted, pc' \notin Calling \cup {"planned"},
         run'.stepCount = run.stepCount, Len(steps') = Len(steps)
  PROVE  Budgeted'
  BY DEF Budgeted

LEMMA BudgetedOpens ==
  ASSUME ClockSpeaks, Typed, Budgeted, CheckBudget
  PROVE  Budgeted'
<1>1. pc = "loop" /\ request' = request
  BY DEF CheckBudget
<1>2. CASE pc' = "finish" /\ UNCHANGED <<run, steps>>
  BY <1>2, BudgetedElsewhere DEF Calling
<1>3. ASSUME NEW t \in Times, Reading(t), pc' = "plan",
             EvaluateStop(run, request.limits, TRUE, t) = Continue,
             steps' = Append(steps, NewStep),
             run' = [run EXCEPT !.stepCount = @ + 1]
      PROVE  Budgeted'
  <2>1. now' = t /\ t \in Nat
    BY <1>3, SpeakingClock
  <2>2. /\ request.limits \in RunLimits /\ run \in RunType /\ steps \in Seq(StepType)
    BY <1>1, LimitsAreTyped
  <2>3. /\ run.stepCount < request.limits.maxSteps
        /\ request.limits.maxTime > 0 => t - run.startedAt <= request.limits.maxTime
        /\ request.limits.maxTokens > 0 => run.tokens < request.limits.maxTokens
        /\ request.limits.maxCost > 0 => run.cost < request.limits.maxCost
        /\ run.toolErrors < request.limits.toolErrorLimit
    BY <1>3, <2>1, <2>2, ContinueAffords
  <2>4. /\ run'.stepCount = run.stepCount + 1 /\ run'.startedAt = run.startedAt
        /\ run'.tokens = run.tokens /\ run'.cost = run.cost
        /\ run'.toolErrors = run.toolErrors
    BY <1>3, <2>2 DEF RunType
  <2>5. NewStep \in StepType
    BY DEF NewStep, StepType, AgentStates
  <2>6. Len(steps') = Len(steps) + 1 /\ Len(steps) \in Nat
    BY <1>3, <2>2, <2>5
  <2>7. run.stepCount \in Nat /\ request.limits.maxSteps \in Nat
    BY <2>2 DEF RunType, RunLimits
  <2>8. Timely' /\ Afforded'
    BY <1>1, <2>1, <2>3, <2>4 DEF Timely, Afforded
  <2>9. Len(steps') <= request'.limits.maxSteps /\ run'.stepCount = Len(steps')
    BY <1>1, <2>3, <2>4, <2>6, <2>7 DEF Budgeted
  <2>10. QED
    BY <1>3, <2>8, <2>9 DEF Budgeted
<1>4. QED
  BY <1>2, <1>3 DEF CheckBudget

LEMMA BudgetedPlans ==
  ASSUME Typed, Budgeted,
         \/ \E f \in PlannerFailures : PlannerRaises(f)
         \/ \E p \in PlannerResults : PlannerReturns(p)
  PROVE  Budgeted'
<1>1. /\ pc = "plan" /\ pc' \in {"recordStop", "planned"} /\ request' = request
      /\ \E s : UpdateStep(s)
  BY DEF PlannerRaises, PlannerReturns, EndWith
<1>2. run'.stepCount = run.stepCount
  <2>1. run \in RunType
    BY <1>1, LimitsAreTyped DEF InStep
  <2>2. QED
    BY <2>1 DEF PlannerRaises, PlannerReturns, RunType
<1>3. Len(steps') = Len(steps)
  BY <1>1, UpdatesKeepLength
<1>4. QED
  BY <1>1, <1>2, <1>3 DEF Budgeted, Calling

LEMMA BudgetedChecks ==
  ASSUME ClockSpeaks, Typed, Budgeted, CheckDecision
  PROVE  Budgeted'
<1>1. /\ pc = "planned" /\ request' = request /\ run' = run
      /\ request.limits \in RunLimits /\ run \in RunType
  BY LimitsAreTyped DEF CheckDecision, InStep
<1>2. CASE pc' = "recordStop" /\ \E s : UpdateStep(s)
  <2>1. Len(steps') = Len(steps)
    BY <1>2, UpdatesKeepLength
  <2>2. QED
    BY <1>1, <1>2, <2>1, BudgetedElsewhere DEF Calling
<1>3. ASSUME NEW t \in Times,
             IF request.limits.maxTime > 0
             THEN Reading(t)
             ELSE t = run.startedAt /\ now' = now,
             EvaluateStop(run, request.limits, FALSE, t) = Continue, steps' = steps
      PROVE  Budgeted'
  <2>1. t \in Nat
    BY <1>3, RunnerAssumption DEF Times
  <2>2. /\ request.limits.maxTime > 0 =>
             t - run.startedAt <= request.limits.maxTime /\ now' = t
        /\ request.limits.maxTokens > 0 => run.tokens < request.limits.maxTokens
        /\ request.limits.maxCost > 0 => run.cost < request.limits.maxCost
        /\ run.toolErrors < request.limits.toolErrorLimit
    BY <1>1, <1>3, <2>1, ContinueAffords, SpeakingClock
  <2>3. Timely' /\ Afforded'
    BY <1>1, <2>2 DEF Timely, Afforded
  <2>4. QED
    BY <1>1, <1>3, <2>3 DEF Budgeted, Calling
<1>4. QED
  BY <1>1, <1>2, <1>3 DEF CheckDecision, EndWith

LEMMA BudgetedScreens ==
  ASSUME Typed, Budgeted, ScreenToolCall
  PROVE  Budgeted'
<1>1. /\ pc = "tool_call" /\ pc \in InStep /\ request' = request /\ now' = now
      /\ run \in RunType
  BY LimitsAreTyped DEF ScreenToolCall, InStep
<1>2. /\ pc' \in {"execute", "recordTool"}
      /\ \E s : UpdateStep(s)
      /\ run' = run \/ run' = [run EXCEPT !.calls = @ \cup {decision.call}]
  BY DEF ScreenToolCall, EndToolStep
<1>3. Len(steps') = Len(steps)
  BY <1>2, UpdatesKeepLength
<1>4. /\ run'.stepCount = run.stepCount /\ run'.startedAt = run.startedAt
      /\ run'.tokens = run.tokens /\ run'.cost = run.cost
      /\ run'.toolErrors = run.toolErrors
  BY <1>1, <1>2 DEF RunType
<1>5. Timely' /\ Afforded'
  BY <1>1, <1>4 DEF Budgeted, Calling, Timely, Afforded
<1>6. QED
  BY <1>1, <1>2, <1>3, <1>4, <1>5 DEF Budgeted, Calling

LEMMA BudgetedStep ==
  ASSUME ClockSpeaks, Typed, Ordered, Budgeted, [Next]_vars
  PROVE  Budgeted'
<1>1. CASE \/ \E r \in Requests : Submit(r)
           \/ ResetPlanner \/ RecordStarted \/ Finish
  BY <1>1, BudgetedElsewhere
     DEF Submit, ResetPlanner, Refuse, RecordStarted, Finish, Calling
<1>2. CASE StartClock
  <2>1. steps = << >> /\ steps' = steps /\ pc' \in {"started", "done"}
    BY <1>2 DEF StartClock, Refuse, Ordered, Logged, Unstarted
  <2>2. run' = run \/ \E t : run' = NewRun(request, t)
    BY <1>2 DEF StartClock, Refuse
  <2>3. run'.stepCount = 0 \/ run' = run
    BY <2>2 DEF NewRun
  <2>4. QED
    BY <2>1, <2>3 DEF Budgeted, Calling
<1>3. CASE CheckBudget
  BY <1>3, BudgetedOpens
<1>4. CASE \/ \E f \in PlannerFailures : PlannerRaises(f)
           \/ \E p \in PlannerResults : PlannerReturns(p)
  BY <1>4, BudgetedPlans
<1>5. CASE CheckDecision
  BY <1>5, BudgetedChecks
<1>6. CASE ScreenToolCall
  BY <1>6, BudgetedScreens
<1>7. CASE RecordStoppedStep \/ RejectDecision \/ RecordAnswerStep \/ RecordToolStep
  <2>1. /\ pc' \notin Calling \cup {"planned"} /\ run' = run
        /\ UNCHANGED steps \/ \E s : UpdateStep(s)
    BY <1>7 DEF RecordStoppedStep, RejectDecision, RecordAnswerStep, RecordToolStep, Calling
  <2>2. QED
    BY <2>1, UpdatesKeepLength, BudgetedElsewhere
<1>8. CASE GuardAnswer
  <2>1. run \in RunType
    BY <1>8, LimitsAreTyped DEF GuardAnswer, InStep
  <2>2. run'.stepCount = run.stepCount /\ steps' = steps /\ pc' = "finish"
    BY <1>8, <2>1 DEF GuardAnswer, RunType
  <2>3. QED
    BY <2>2, BudgetedElsewhere DEF Calling
<1>9. CASE ToolRaises \/ CheckToolStep \/ \E reply \in ToolReplies : ToolReturns(reply)
  <2>1. pc \in InStep /\ run \in RunType
    BY <1>9, LimitsAreTyped DEF ToolRaises, CheckToolStep, ToolReturns, InStep
  <2>2. /\ pc' \in {"executed", "recordTool"}
        /\ UNCHANGED steps \/ \E s : UpdateStep(s)
    BY <1>9 DEF ToolRaises, CheckToolStep, ToolReturns, EndToolStep
  <2>3. run'.stepCount = run.stepCount
    BY <1>9, <2>1 DEF ToolRaises, CheckToolStep, ToolReturns, RunType
  <2>4. QED
    BY <2>2, <2>3, UpdatesKeepLength, BudgetedElsewhere DEF Calling
<1>10. CASE UNCHANGED vars
  BY <1>10 DEF vars, Budgeted, Timely, Afforded
<1>11. QED
  BY <1>1, <1>2, <1>3, <1>4, <1>5, <1>6, <1>7, <1>8, <1>9, <1>10 DEF Next, RunnerStep

(* No planner call and no tool call starts once a limit is reached or the  *)
(* deadline has passed, if a failing clock says so.                        *)
THEOREM CallsStayWithinBudget ==
  ASSUME ClockSpeaks
  PROVE  Spec => []CallsWithinBudget
<1>1. Init => Budgeted
  BY DEF Init, Budgeted, NewRun, Calling
<1>2. Typed /\ Ordered /\ Budgeted /\ [Next]_vars => Budgeted'
  BY BudgetedStep
<1>3. Budgeted => CallsWithinBudget
  BY DEF Budgeted, Calling, Timely, Afforded, CallsWithinBudget, CallsWithinDeadline
<1>4. QED
  BY <1>1, <1>2, <1>3, TypedAlways, OrderedAlways, PTL DEF Spec

(* In particular, none starts past the deadline.                           *)
THEOREM CallsStayWithinDeadline ==
  ASSUME ClockSpeaks
  PROVE  Spec => []CallsWithinDeadline
<1>1. CallsWithinBudget => CallsWithinDeadline
  BY DEF CallsWithinBudget, CallsWithinDeadline
<1>2. QED
  BY <1>1, CallsStayWithinBudget, PTL

-----------------------------------------------------------------------------
(* What a grounded answer rests on.                                        *)
ExecutedFor(step) == \E j \in DOMAIN executed : executed[j][1] = step.tool

Traced ==
  /\ \A i \in DOMAIN steps : steps[i].reply # None => ExecutedFor(steps[i])
  /\ pc \in Calling \cup {"planned"} => Current.reply = None
  /\ pc = "execute" => Current.tool = decision.call[1]

Quoted ==
  pc = "done" /\ result.status = "grounded" =>
    /\ result.reason = "completed"
    /\ \E i \in DOMAIN steps :
         GroundsAnswers(steps[i]) /\ CitesOne(result.cites, Elements(steps[i].reply.sources))

(* An update that leaves the tool and the reply of the open step alone.    *)
Carries(s) ==
  s \in StepType /\ s.reply = Current.reply /\ s.tool = Current.tool

LEMMA StoppingCarries ==
  ASSUME NEW s, Carries(s)
  PROVE  /\ Carries(Stopped(s))
         /\ \A said \in BOOLEAN : Carries(StoppedBy(s, said))
         /\ Carries([s EXCEPT !.error = TRUE])
         /\ \A state \in AgentStates : Carries([s EXCEPT !.state = state])
         /\ \A cloud \in BOOLEAN, tokens \in Nat :
              Carries([s EXCEPT !.cloud = cloud, !.tokens = tokens])
         /\ \A phase \in Phases \cup {None}, cloud \in BOOLEAN, tokens \in Nat :
              Carries([s EXCEPT !.phase = phase, !.cloud = cloud, !.tokens = tokens])
  BY DEF Carries, Stopped, StoppedBy, StepType, AgentStates

LEMMA TracedUpdate ==
  ASSUME Typed, pc \in InStep, Traced, NEW s \in StepType, UpdateStep(s),
         \A j \in DOMAIN executed : j \in DOMAIN executed' /\ executed'[j] = executed[j],
         s.reply # None => \E j \in DOMAIN executed' : executed'[j][1] = s.tool
  PROVE  /\ \A i \in DOMAIN steps' :
              steps'[i].reply # None =>
                \E j \in DOMAIN executed' : executed'[j][1] = steps'[i].tool
         /\ Current' = s
<1>1. steps \in Seq(StepType) /\ steps # << >> /\ Len(steps) \in Nat \ {0}
  BY OpenStep
<1>2. Current' = s /\ DOMAIN steps' = DOMAIN steps
  BY <1>1, UpdateStepTypes, UpdatesKeepLength
<1>4. ASSUME NEW i \in DOMAIN steps', steps'[i].reply # None
      PROVE  \E j \in DOMAIN executed' : executed'[j][1] = steps'[i].tool
  <2>1. CASE i = Len(steps)
    <3>1. steps'[i] = s
      BY <1>1, <1>2, <2>1 DEF UpdateStep
    <3>2. QED
      BY <1>4, <3>1
  <2>2. CASE i # Len(steps)
    <3>1. steps'[i] = steps[i] /\ i \in DOMAIN steps
      BY <1>1, <1>2, <2>2 DEF UpdateStep
    <3>2. ExecutedFor(steps[i])
      BY <1>4, <3>1 DEF Traced
    <3>3. QED
      BY <3>1, <3>2 DEF ExecutedFor
  <2>3. QED
    BY <2>1, <2>2
<1>5. QED
  BY <1>2, <1>4

(* An update that carries tool and reply, or none at all.                  *)
LEMMA TracedCarried ==
  ASSUME Typed, pc \in InStep, Traced, UNCHANGED executed,
         UNCHANGED steps \/ \E s : Carries(s) /\ UpdateStep(s),
         pc' \in Calling \cup {"planned"} => pc \in Calling \cup {"planned"},
         pc' # "execute"
  PROVE  Traced'
<1>1. CASE UNCHANGED steps
  BY <1>1 DEF Traced, ExecutedFor, Current
<1>2. ASSUME NEW s, Carries(s), UpdateStep(s) PROVE Traced'
  <2>1. steps \in Seq(StepType) /\ steps # << >> /\ Len(steps) \in DOMAIN steps
        /\ executed \in Seq(Calls)
    BY OpenStep DEF Typed, TypeOK
  <2>2. s \in StepType /\ s.reply = Current.reply /\ s.tool = Current.tool
    BY <1>2 DEF Carries
  <2>3. s.reply # None => ExecutedFor(Current)
    BY <2>1, <2>2 DEF Traced, Current
  <2>4. s.reply # None => \E j \in DOMAIN executed' : executed'[j][1] = s.tool
    BY <2>2, <2>3 DEF ExecutedFor
  <2>5. /\ \A i \in DOMAIN steps' :
             steps'[i].reply # None =>
               \E j \in DOMAIN executed' : executed'[j][1] = steps'[i].tool
        /\ Current' = s
    BY <1>2, <2>2, <2>4, TracedUpdate
  <2>6. QED
    BY <2>2, <2>5 DEF Traced, ExecutedFor
<1>3. QED
  BY <1>1, <1>2

LEMMA TracedPlans ==
  ASSUME Typed, Traced,
         \/ \E f \in PlannerFailures : PlannerRaises(f)
         \/ \E p \in PlannerResults : PlannerReturns(p)
         \/ CheckDecision
  PROVE  Traced'
<1>1. /\ pc \in {"plan", "planned"} /\ pc \in InStep /\ UNCHANGED executed
  BY DEF PlannerRaises, PlannerReturns, CheckDecision, InStep
<1>2. Carries(Current)
  BY <1>1, OpenStep DEF Carries
<1>3. ASSUME NEW f \in PlannerFailures, PlannerRaises(f) PROVE Traced'
  <2>1. /\ f.phase \in Phases \cup {None} /\ f.cloud \in BOOLEAN /\ f.said \in BOOLEAN
        /\ Counted(f.tokens) \in Nat
    BY CountedType DEF PlannerFailures, Says
  <2> DEFINE s == [Current EXCEPT !.phase = f.phase, !.cloud = f.cloud,
                                  !.tokens = Counted(f.tokens)]
             t == StoppedBy(s, f.said \/ f.tokens = Malformed)
  <2>2. Carries(s)
    BY <1>2, <2>1, StoppingCarries
  <2>3. Carries(t)
    <3> HIDE DEF s
    <3>1. QED
      BY <2>1, <2>2, StoppingCarries
  <2>4. UpdateStep(t) /\ pc' = "recordStop"
    BY <1>3 DEF PlannerRaises, EndWith
  <2> HIDE DEF t
  <2>5. QED
    BY <1>1, <2>3, <2>4, TracedCarried DEF Calling
<1>4. ASSUME NEW p \in PlannerResults, PlannerReturns(p) PROVE Traced'
  <2>1. p.cloud \in BOOLEAN /\ Counted(p.tokens) \in Nat
    BY CountedType DEF PlannerResults
  <2> DEFINE s == [Current EXCEPT !.cloud = p.cloud, !.tokens = Counted(p.tokens)]
  <2>2. Carries(s)
    BY <1>2, <2>1, StoppingCarries
  <2>3. \/ UpdateStep(Stopped(s)) /\ pc' = "recordStop"
        \/ UpdateStep(s) /\ pc' = "planned"
    BY <1>4 DEF PlannerReturns, EndWith
  <2> HIDE DEF s
  <2>4. QED
    BY <1>1, <1>4, <2>2, <2>3, StoppingCarries, TracedCarried DEF Calling, PlannerReturns
<1>5. CASE CheckDecision
  <2>1. \/ UpdateStep(Stopped(Current)) /\ pc' = "recordStop"
        \/ UNCHANGED steps /\ pc' = decision.action
    BY <1>5 DEF CheckDecision, EndWith
  <2>2. pc = "planned" /\ decision.action \in {"final_answer", "tool_call", "other"}
    BY <1>5 DEF CheckDecision, Typed, Shape, Decisions
  <2>3. QED
    BY <1>1, <1>2, <2>1, <2>2, StoppingCarries, TracedCarried DEF Calling
<1>6. QED
  BY <1>3, <1>4, <1>5

(* The screened call names the tool of the step, which has no reply yet.   *)
LEMMA TracedScreens ==
  ASSUME Typed, Traced, ScreenToolCall
  PROVE  Traced'
<1> DEFINE call == decision.call
           s == [Current EXCEPT !.state = "tool_call", !.tool = call[1]]
<1>1. /\ pc = "tool_call" /\ pc \in InStep /\ UNCHANGED <<executed, decision>>
      /\ decision \in Decisions /\ decision.action = "tool_call"
      /\ executed \in Seq(Calls) /\ Current.reply = None
  BY DEF ScreenToolCall, InStep, Typed, TypeOK, Shape, Traced, Calling
<1>2. call[1] \in Names
  BY <1>1 DEF Decisions, Calls
<1>3. s \in StepType /\ s.reply = None /\ s.tool = call[1]
  BY <1>1, <1>2, OpenStep DEF StepType, AgentStates
<1>4. /\ [s EXCEPT !.state = "needs_human", !.error = TRUE] \in StepType
      /\ [s EXCEPT !.state = "needs_human", !.error = TRUE].reply = None
      /\ \A said \in BOOLEAN : StoppedBy(s, said) \in StepType /\ StoppedBy(s, said).reply = None
  <2> HIDE DEF s
  <2>1. QED
    BY <1>3 DEF StoppedBy, Stopped, StepType, AgentStates
<1>5. \/ UpdateStep(s) /\ pc' = "execute"
      \/ \E t \in StepType : t.reply = None /\ UpdateStep(t) /\ pc' = "recordTool"
  <2>1. CASE Objection(call) = Continue
    BY <2>1 DEF ScreenToolCall
  <2>2. CASE Objection(call) # Continue
    <3>1. PICK said \in BOOLEAN :
            EndToolStep(Objection(call),
              IF Objection(call) = "needs_human"
              THEN [s EXCEPT !.state = "needs_human", !.error = TRUE]
              ELSE StoppedBy(s, said))
      BY <2>2 DEF ScreenToolCall, Says
    <3> HIDE DEF s, call
    <3>2. QED
      BY <1>4, <3>1 DEF EndToolStep
  <2>3. QED
    BY <2>1, <2>2
<1>6. ASSUME NEW t \in StepType, t.reply = None, UpdateStep(t)
      PROVE  /\ \A i \in DOMAIN steps' :
                  steps'[i].reply # None =>
                    \E j \in DOMAIN executed' : executed'[j][1] = steps'[i].tool
             /\ Current' = t
  BY <1>1, <1>6, TracedUpdate
<1> HIDE DEF s
<1>7. CASE UpdateStep(s) /\ pc' = "execute"
  BY <1>1, <1>3, <1>6, <1>7 DEF Traced, ExecutedFor
<1>8. CASE \E t \in StepType : t.reply = None /\ UpdateStep(t) /\ pc' = "recordTool"
  BY <1>6, <1>8 DEF Traced, ExecutedFor, Calling
<1>9. QED
  BY <1>5, <1>7, <1>8

(* The reply is the reply of the call that was executed.                   *)
LEMMA TracedExecutes ==
  ASSUME Typed, Traced, ToolRaises \/ \E reply \in ToolReplies : ToolReturns(reply)
  PROVE  Traced'
<1>1. /\ pc = "execute" /\ pc \in InStep /\ executed \in Seq(Calls)
      /\ decision.call \in Calls /\ Current.tool = decision.call[1]
      /\ executed' = Append(executed, decision.call)
  BY DEF ToolRaises, ToolReturns, InStep, Typed, TypeOK, Shape, Traced, Decisions
<1>2. ASSUME NEW t, t.tool = Current.tool
      PROVE  \E j \in DOMAIN executed' : executed'[j][1] = t.tool
  <2>1. /\ Len(executed) + 1 \in DOMAIN executed'
        /\ executed'[Len(executed) + 1] = decision.call
    BY <1>1
  <2>2. QED
    BY <1>1, <1>2, <2>1
<1>3. ASSUME NEW t \in StepType, t.tool = Current.tool, UpdateStep(t),
             pc' \in {"executed", "recordTool"}
      PROVE  Traced'
  <2>1. \E j \in DOMAIN executed' : executed'[j][1] = t.tool
    BY <1>2, <1>3
  <2>2. \A j \in DOMAIN executed : j \in DOMAIN executed' /\ executed'[j] = executed[j]
    BY <1>1
  <2>3. \A i \in DOMAIN steps' :
          steps'[i].reply # None =>
            \E j \in DOMAIN executed' : executed'[j][1] = steps'[i].tool
    BY <1>1, <1>3, <2>1, <2>2, TracedUpdate
  <2>4. QED
    BY <1>3, <2>3 DEF Traced, ExecutedFor, Calling
<1>4. CASE ToolRaises
  <2>1. PICK said \in BOOLEAN : EndToolStep("tool_error_limit", StoppedBy(Current, said))
    BY <1>4 DEF ToolRaises, Says
  <2>2. Carries(Current)
    BY <1>1, OpenStep DEF Carries
  <2>3. Carries(StoppedBy(Current, said))
    BY <2>2, StoppingCarries
  <2>4. QED
    BY <1>3, <2>1, <2>3 DEF EndToolStep, Carries
<1>5. ASSUME NEW reply \in ToolReplies, ToolReturns(reply) PROVE Traced'
  <2> DEFINE s == [Current EXCEPT !.reply = reply]
  <2>1. s \in StepType /\ s.tool = Current.tool
    BY <1>1, OpenStep DEF StepType
  <2>2. \/ UpdateStep(Stopped(s)) /\ pc' = "recordTool"
        \/ /\ reply.tokens # Malformed
           /\ UpdateStep(WithToolUsage(s, reply)) /\ pc' = "executed"
    BY <1>5 DEF ToolReturns, EndToolStep
  <2> HIDE DEF s
  <2>3. CASE UpdateStep(Stopped(s)) /\ pc' = "recordTool"
    <3>1. Stopped(s) \in StepType /\ Stopped(s).tool = s.tool
      BY <2>1 DEF Stopped, StepType, AgentStates
    <3>2. QED
      BY <1>3, <2>1, <2>3, <3>1
  <2>4. CASE /\ reply.tokens # Malformed
             /\ UpdateStep(WithToolUsage(s, reply)) /\ pc' = "executed"
    <3>1. reply.tokens \in Nat /\ reply.cost \in Nat
      BY <2>4, ReplyTypes
    <3> DEFINE tokens == s.tokens + reply.tokens
               cost == s.cost + reply.cost
    <3>2. WithToolUsage(s, reply) = [s EXCEPT !.tokens = tokens, !.cost = cost]
      BY DEF WithToolUsage
    <3>3. tokens \in Nat /\ cost \in Nat
      BY <2>1, <3>1 DEF StepType
    <3> HIDE DEF tokens, cost
    <3>4. WithToolUsage(s, reply) \in StepType /\ WithToolUsage(s, reply).tool = s.tool
      BY <2>1, <3>2, <3>3 DEF StepType
    <3>5. QED
      BY <1>3, <2>1, <2>4, <3>4
  <2>5. QED
    BY <2>2, <2>3, <2>4
<1>6. QED
  BY <1>4, <1>5

LEMMA TracedStores ==
  ASSUME Typed, Traced,
         \/ RecordStoppedStep \/ RejectDecision \/ RecordAnswerStep \/ RecordToolStep
         \/ GuardAnswer \/ CheckToolStep
  PROVE  Traced'
<1>1. pc \in InStep /\ UNCHANGED executed /\ pc' \notin Calling \cup {"planned"}
  BY DEF RecordStoppedStep, RejectDecision, RecordAnswerStep, RecordToolStep, GuardAnswer,
         CheckToolStep, EndToolStep, InStep, Calling
<1>2. Carries(Current)
  BY <1>1, OpenStep DEF Carries
<1>3. /\ Carries(Stopped(Current)) /\ Carries([Current EXCEPT !.error = TRUE])
      /\ Carries([Current EXCEPT !.state = "completed"])
      /\ Carries([Current EXCEPT !.state = "stopped"])
      /\ Carries(Stopped([Current EXCEPT !.state = "completed"]))
  BY <1>2, StoppingCarries DEF AgentStates
<1>4. UNCHANGED steps \/ \E s : Carries(s) /\ UpdateStep(s)
  <2>1. CASE RecordStoppedStep \/ RejectDecision \/ RecordToolStep \/ GuardAnswer
    BY <1>3, <2>1 DEF RecordStoppedStep, RejectDecision, RecordToolStep, GuardAnswer
  <2>2. CASE RecordAnswerStep
    BY <1>3, <2>2 DEF RecordAnswerStep
  <2>3. CASE CheckToolStep
    BY <1>3, <2>3 DEF CheckToolStep, EndToolStep
  <2>4. QED
    BY <2>1, <2>2, <2>3
<1>5. QED
  BY <1>1, <1>4, TracedCarried DEF Calling

LEMMA TracedStep ==
  ASSUME Typed, Ordered, Traced, [Next]_vars
  PROVE  Traced'
<1>1. CASE \/ \E r \in Requests : Submit(r)
           \/ ResetPlanner \/ StartClock \/ RecordStarted \/ Finish
  BY <1>1 DEF Submit, ResetPlanner, StartClock, Refuse, RecordStarted, Finish, Traced,
              ExecutedFor, Calling
<1>2. CASE CheckBudget
  <2>1. /\ pc = "loop" /\ UNCHANGED executed
        /\ \/ pc' = "finish" /\ UNCHANGED steps
           \/ pc' = "plan" /\ steps' = Append(steps, NewStep)
    BY <1>2 DEF CheckBudget
  <2>2. CASE pc' = "finish" /\ UNCHANGED steps
    BY <2>1, <2>2 DEF Traced, ExecutedFor, Calling
  <2>3. CASE pc' = "plan" /\ steps' = Append(steps, NewStep)
    <3>1. NewStep \in StepType /\ NewStep.reply = None
      BY DEF NewStep, StepType, AgentStates
    <3>2. steps \in Seq(StepType)
      BY DEF Typed, TypeOK
    <3>3. /\ DOMAIN steps' = 1..(Len(steps) + 1) /\ Current' = NewStep
          /\ steps'[Len(steps) + 1] = NewStep
          /\ \A i \in DOMAIN steps : steps'[i] = steps[i]
      BY <2>3, <3>1, <3>2 DEF Current
    <3>4. \A i \in DOMAIN steps' : i \in DOMAIN steps \/ i = Len(steps) + 1
      BY <3>2, <3>3
    <3>5. QED
      BY <2>1, <2>3, <3>1, <3>3, <3>4 DEF Traced, ExecutedFor
  <2>4. QED
    BY <2>1, <2>2, <2>3
<1>3. CASE \/ \E f \in PlannerFailures : PlannerRaises(f)
           \/ \E p \in PlannerResults : PlannerReturns(p)
           \/ CheckDecision
  BY <1>3, TracedPlans
<1>4. CASE ScreenToolCall
  BY <1>4, TracedScreens
<1>5. CASE ToolRaises \/ \E reply \in ToolReplies : ToolReturns(reply)
  BY <1>5, TracedExecutes
<1>6. CASE \/ RecordStoppedStep \/ RejectDecision \/ RecordAnswerStep \/ RecordToolStep
           \/ GuardAnswer \/ CheckToolStep
  BY <1>6, TracedStores
<1>7. CASE UNCHANGED vars
  BY <1>7 DEF vars, Traced, ExecutedFor, Current
<1>8. QED
  BY <1>1, <1>2, <1>3, <1>4, <1>5, <1>6, <1>7 DEF Next, RunnerStep

LEMMA TracedAlways == Spec => []Traced
<1>1. Init => Traced
  BY DEF Init, Traced, Calling
<1>2. QED
  BY <1>1, TracedStep, TypedAlways, OrderedAlways, PTL DEF Spec

(* The result of a finished run.                                           *)
LEMMA QuotedFinish ==
  ASSUME Finish
  PROVE  Quoted'
<1> SUFFICES ASSUME result'.status = "grounded"
             PROVE  /\ result'.reason = "completed"
                    /\ \E i \in DOMAIN steps :
                         /\ GroundsAnswers(steps[i])
                         /\ CitesOne(result'.cites, Elements(steps[i].reply.sources))
  BY DEF Finish, Quoted, GroundsAnswers
<1>1. result' = FinishedResult(ending)
  BY DEF Finish
<1>2. AnswerStatus(ending) = "grounded"
  BY <1>1 DEF FinishedResult
<1>3. /\ ending.reason = "completed"
      /\ CitesOne(ending.cites, GroundingSources)
  BY <1>2 DEF AnswerStatus
<1>4. result'.reason = "completed" /\ result'.cites = ending.cites
  BY <1>1, <1>2, <1>3 DEF FinishedResult
<1>5. PICK source \in GroundingSources :
        Label(source) # NoLabel /\ {Label(source), source.index} \cap ending.cites # {}
  BY <1>3 DEF CitesOne
<1>6. PICK i \in DOMAIN steps :
        GroundsAnswers(steps[i]) /\ source \in Elements(steps[i].reply.sources)
  BY <1>5 DEF GroundingSources, Elements
<1>7. CitesOne(ending.cites, Elements(steps[i].reply.sources))
  BY <1>5, <1>6 DEF CitesOne
<1>8. QED
  BY <1>4, <1>6, <1>7

LEMMA QuotedStep ==
  ASSUME Typed, Quoted, [Next]_vars
  PROVE  Quoted'
<1>1. CASE Finish
  BY <1>1, QuotedFinish
<1>2. CASE (\E r \in Requests : Submit(r)) \/ ResetPlanner \/ StartClock
  BY <1>2 DEF Submit, ResetPlanner, StartClock, Refuse, RefusedResult, Quoted
<1>3. CASE UNCHANGED vars
  BY <1>3 DEF vars, Quoted, GroundsAnswers
<1>4. CASE RunnerStep /\ ~Finish /\ ~ResetPlanner /\ ~StartClock
  <2>1. CASE CheckDecision
    BY <2>1 DEF CheckDecision, EndWith, Typed, Shape, Decisions, Quoted
  <2>2. CASE ~CheckDecision
    BY <1>4, <2>2 DEF Quoted, RunnerStep, RecordStarted, CheckBudget, PlannerRaises, PlannerReturns, EndWith,
       RecordStoppedStep, RejectDecision, RecordAnswerStep, GuardAnswer, ScreenToolCall,
       ToolRaises, ToolReturns, CheckToolStep, RecordToolStep, EndToolStep
  <2>3. QED
    BY <2>1, <2>2
<1>5. QED
  BY <1>1, <1>2, <1>3, <1>4 DEF Next

(* What a grounded answer quotes is in the store.                          *)
LEMMA QuotedIsStored ==
  ASSUME Typed, Ordered, Final, Traced, Quoted
  PROVE  GroundedOnStoredEvidence
<1> SUFFICES ASSUME pc = "done", result.status = "grounded"
             PROVE  GroundedOnStoredEvidence
  BY DEF GroundedOnStoredEvidence
<1>1. PICK i \in DOMAIN steps :
        GroundsAnswers(steps[i]) /\ CitesOne(result.cites, Elements(steps[i].reply.sources))
  BY DEF Quoted
<1>2. result.reason = "completed"
  BY DEF Quoted
<1>3. /\ steps \in Seq(StepType) /\ Len(steps) \in Nat /\ log \in Seq(EventType)
      /\ log # << >> /\ Len(log) = Len(steps) + 2 /\ i \in 1..Len(steps)
  BY <1>1, LengthsAreNaturals DEF Ordered, Logged
<1>4. i + 1 \in DOMAIN log /\ i + 1 # 1 /\ i + 1 # Len(log)
  BY <1>3
<1>5. log[i + 1].kind = "step" /\ log[i + 1].index = i
  <2>1. log[i + 1] \in EventType
    BY <1>3, <1>4
  <2>2. log[i + 1].kind \in {"started", "step", "completed"}
    BY <2>1 DEF EventType
  <2>3. QED
    BY <1>3, <1>4, <2>2 DEF Ordered, InOrder
<1>6. log[i + 1].outcome # "failed"
  BY <1>2, <1>4, <1>5 DEF Final, Failing, Refusal, Stops
<1>7. log[i + 1].step = steps[i]
  BY <1>4, <1>5, <1>6 DEF Final, Kept
<1>8. /\ steps[i].reply # None /\ steps[i].reply.ok /\ steps[i].reply.hasEvidence
      /\ PhaseOf[steps[i].tool] = "knowledge_retrieval"
  BY <1>1 DEF GroundsAnswers
<1>9. ExecutedFor(steps[i])
  BY <1>1, <1>8 DEF Traced
<1>10. QED
  BY <1>1, <1>4, <1>5, <1>6, <1>7, <1>8, <1>9 DEF GroundedOnStoredEvidence, ExecutedFor

(* A grounded answer cites a source of a stored step whose tool, a         *)
(* retrieval tool, was executed in this run.                               *)
THEOREM AnswersRestOnStoredEvidence == Spec => []GroundedOnStoredEvidence
<1>1. Init => Quoted
  BY DEF Init, Quoted
<1>2. Typed /\ Ordered /\ LastStep /\ Final /\ Quoted /\ [Next]_vars => Final' /\ Quoted'
  BY FinalStep, QuotedStep
<1>3. Init => Final
  BY DEF Init, Final, Kept, Failing, Refusal
<1>4. Typed /\ Ordered /\ Final /\ Traced /\ Quoted => GroundedOnStoredEvidence
  BY QuotedIsStored
<1>5. QED
  BY <1>1, <1>2, <1>3, <1>4, TypedAlways, OrderedAlways, LastStepAlways, TracedAlways, PTL
     DEF Spec

-----------------------------------------------------------------------------
(* The runner implements the contract of a run.                            *)
Unanswered == pc # "done" => result = None

Stage ==
  CASE pc = "idle" -> "idle" [] pc = "done" -> "closed" [] OTHER -> "open"
Performed == Elements(executed)
Outcome == IF result = None THEN "none" ELSE result.status

(* A step of the contract in which nothing is performed and nothing closed. *)
LEMMA StaysOpen ==
  ASSUME pc \notin {"idle", "done"}, pc' \notin {"idle", "done"},
         UNCHANGED <<executed, result>>
  PROVE  UNCHANGED <<Stage, Performed, Outcome>>
  BY DEF Stage, Performed, Outcome, Elements

LEMMA ContractCloses ==
  ASSUME Typed, Unanswered, pc # "done", pc' = "done", UNCHANGED executed,
         result' \in ResultType,
         result'.status = "grounded" =>
           \E c \in Elements(executed) : c \in Calls /\ PhaseOf[c[1]] = "knowledge_retrieval"
  PROVE  Contract!Close
<1>1. result' # None /\ result = None
  BY RunnerAssumption DEF Unanswered
<1>2. result'.status \in {"grounded", "abstain", "guardrails_fallback"}
  BY DEF ResultType
<1>3. Stage \in {"idle", "open"} /\ Stage' = "closed" /\ Outcome' = result'.status
      /\ UNCHANGED Performed
  BY <1>1 DEF Stage, Outcome, Performed, Elements
<1>4. QED
  BY <1>2, <1>3 DEF Contract!Close, Stage, Outcome, Performed

LEMMA ContractFinish ==
  ASSUME Typed, Traced, Unanswered, Finish
  PROVE  Contract!Close
<1>1. pc = "finish" /\ pc' = "done" /\ UNCHANGED <<executed, steps>>
      /\ result' = FinishedResult(ending) /\ ending \in EndingType
  BY DEF Finish, Typed, Shape
<1>2. result' \in ResultType /\ executed \in Seq(Calls)
  BY <1>1, FinishedType DEF Typed, TypeOK
<1>3. ASSUME result'.status = "grounded"
      PROVE  \E c \in Elements(executed) :
               c \in Calls /\ PhaseOf[c[1]] = "knowledge_retrieval"
  <2>1. PICK i \in DOMAIN steps : GroundsAnswers(steps[i])
    BY <1>1, <1>3, QuotedFinish DEF Quoted, GroundsAnswers
  <2>2. steps[i].reply # None /\ PhaseOf[steps[i].tool] = "knowledge_retrieval"
    BY <2>1 DEF GroundsAnswers
  <2>3. PICK j \in DOMAIN executed : executed[j][1] = steps[i].tool
    BY <2>1, <2>2 DEF Traced, ExecutedFor
  <2>4. QED
    BY <1>2, <2>2, <2>3 DEF Elements
<1>4. QED
  BY <1>1, <1>2, <1>3, ContractCloses

LEMMA ContractPerforms ==
  ASSUME Typed, Screened, ToolRaises \/ \E reply \in ToolReplies : ToolReturns(reply)
  PROVE  \E call \in {c \in ValidCalls : c[1] \notin WriteTools} : Contract!Perform(call)
<1>1. /\ pc = "execute" /\ pc' \in {"executed", "recordTool"} /\ UNCHANGED result
      /\ executed' = Append(executed, decision.call)
  BY DEF ToolRaises, ToolReturns, EndToolStep
<1>2. executed \in Seq(Calls) /\ decision.call \in Calls
  BY <1>1 DEF Typed, TypeOK, Shape, Decisions
<1>3. /\ decision.call \in ValidCalls /\ decision.call[1] \notin WriteTools
      /\ decision.call \notin Elements(executed)
  BY <1>1 DEF Screened
<1>4. /\ \A i \in DOMAIN executed : i \in DOMAIN executed' /\ executed'[i] = executed[i]
      /\ Len(executed) + 1 \in DOMAIN executed'
      /\ executed'[Len(executed) + 1] = decision.call
      /\ \A i \in DOMAIN executed' : i \in DOMAIN executed \/ i = Len(executed) + 1
  BY <1>1, <1>2
<1>5. Elements(executed') = Elements(executed) \cup {decision.call}
  BY <1>4 DEF Elements
<1>6. Contract!Perform(decision.call)
  BY <1>1, <1>3, <1>5 DEF Contract!Perform
<1>7. QED
  BY <1>3, <1>6

LEMMA UnansweredStep ==
  ASSUME Unanswered, [Next]_vars
  PROVE  Unanswered'
<1>1. CASE \E r \in Requests : Submit(r)
  BY <1>1 DEF Submit, Unanswered
<1>2. CASE UNCHANGED vars
  BY <1>2 DEF vars, Unanswered
<1>3. CASE RunnerStep
  BY <1>3 DEF Unanswered, RunnerStep, ResetPlanner, StartClock, Refuse, RecordStarted, CheckBudget,
     PlannerRaises, PlannerReturns, CheckDecision, RecordStoppedStep, RejectDecision,
     RecordAnswerStep, GuardAnswer, ScreenToolCall, ToolRaises, ToolReturns, CheckToolStep,
     RecordToolStep, Finish
<1>4. QED
  BY <1>1, <1>2, <1>3 DEF Next

LEMMA ContractStep ==
  ASSUME Typed, Screened, Traced, Unanswered, [Next]_vars
  PROVE  [Contract!Next]_(Contract!vars)
<1>1. CASE UNCHANGED vars
  BY <1>1 DEF vars, Contract!vars, Elements
<1>2. ASSUME NEW r \in Requests, Submit(r) PROVE Contract!Next
  <2>1. pc = "idle" /\ UNCHANGED executed
    BY <1>2 DEF Submit
  <2>2. CASE r.hasRunId
    BY <1>2, <2>1, <2>2 DEF Submit, Contract!Next, Contract!Open, Elements
  <2>3. CASE ~r.hasRunId
    <3>1. pc' = "done" /\ result' = RefusedResult("invalid_decision")
      BY <1>2, <2>3 DEF Submit
    <3>2. result' \in ResultType /\ result'.status # "grounded"
      BY <3>1, RefusedType DEF RefusedResult
    <3>3. QED
      BY <2>1, <3>1, <3>2, ContractCloses DEF Contract!Next
  <2>4. QED
    BY <2>2, <2>3
<1>3. CASE ResetPlanner \/ StartClock
  <2>1. pc \in {"reset", "startClock"} /\ UNCHANGED executed
    BY <1>3 DEF ResetPlanner, StartClock
  <2>2. \/ pc' \in {"startClock", "started"} /\ UNCHANGED result
        \/ pc' = "done" /\ result' = RefusedResult("llm_error")
    BY <1>3 DEF ResetPlanner, StartClock, Refuse
  <2>3. CASE pc' \in {"startClock", "started"} /\ UNCHANGED result
    BY <2>1, <2>3, StaysOpen DEF Contract!vars, Stage, Performed, Outcome
  <2>4. CASE pc' = "done" /\ result' = RefusedResult("llm_error")
    <3>1. result' \in ResultType /\ result'.status # "grounded"
      BY <2>4, RefusedType DEF RefusedResult
    <3>2. QED
      BY <2>1, <2>4, <3>1, ContractCloses DEF Contract!Next
  <2>5. QED
    BY <2>2, <2>3, <2>4
<1>4. CASE ToolRaises \/ \E reply \in ToolReplies : ToolReturns(reply)
  BY <1>4, ContractPerforms DEF Contract!Next
<1>5. CASE Finish
  BY <1>5, ContractFinish DEF Contract!Next
<1>6. CASE \/ RecordStarted \/ CheckBudget
           \/ \E f \in PlannerFailures : PlannerRaises(f)
           \/ \E p \in PlannerResults : PlannerReturns(p)
           \/ CheckDecision \/ RecordStoppedStep \/ RejectDecision
           \/ RecordAnswerStep \/ GuardAnswer \/ ScreenToolCall
           \/ CheckToolStep \/ RecordToolStep
  <2>1. /\ pc \notin {"idle", "done"} /\ UNCHANGED <<executed, result>>
        /\ pc' \notin {"idle", "done"}
    <3>1. CASE CheckDecision
      BY <3>1 DEF CheckDecision, EndWith, Typed, Shape, Decisions
    <3>2. CASE ~CheckDecision
      BY <1>6, <3>2 DEF RecordStarted, CheckBudget, PlannerRaises, PlannerReturns, EndWith,
         RecordStoppedStep, RejectDecision, RecordAnswerStep, GuardAnswer, ScreenToolCall,
         EndToolStep, CheckToolStep, RecordToolStep
    <3>3. QED
      BY <3>1, <3>2
  <2>2. QED
    BY <2>1, StaysOpen DEF Contract!vars, Stage, Performed, Outcome
<1>7. QED
  BY <1>1, <1>2, <1>3, <1>4, <1>5, <1>6 DEF Next, RunnerStep

(* A run performs allowed calls, each at most once, and closes once,       *)
(* grounded only if it performed a retrieval call: the runner implements   *)
(* RunContract, for every set of tools, requests and limits.               *)
THEOREM RunnerImplementsContract == Spec => ImplementsContract
<1>1. Init => Contract!Init
  BY DEF Init, Contract!Init, Elements
<1>2. Init => Unanswered
  BY DEF Init, Unanswered
<1>3. Unanswered /\ [Next]_vars => Unanswered'
  BY UnansweredStep
<1>4. Typed /\ Screened /\ Traced /\ Unanswered /\ [Next]_vars
        => [Contract!Next]_(Contract!vars)
  BY ContractStep
<1>5. QED
  BY <1>1, <1>2, <1>3, <1>4, TypedAlways, ScreenedAlways, TracedAlways, PTL
     DEF Spec, ImplementsContract, Contract!Spec

-----------------------------------------------------------------------------
(* The phases a result reports are read off its steps alone.  So each step *)
(* must say what became of it, the last one why the run ended, and every   *)
(* executed call must have its step.  A failure without a message leaves a *)
(* step that does not say it failed: the ports must not do that.           *)
PlannerSpeaks == "planner" \notin Messageless
ToolsSpeak == {"security", "executor"} \cap Messageless = {}

Coherent(s) ==
  /\ s.phase # None =>
       s.tool = None /\ s.reply = None /\ s.state = "stopped" /\ (PlannerSpeaks => s.error)
  /\ s.state = "completed" =>
       s.tool = None /\ s.reply = None /\ s.phase = None /\ ~s.error
  /\ s.tool # None /\ s.reply = None /\ ToolsSpeak => s.error

(* The step has no tool yet.                                               *)
Planned == {"plan", "planned", "other", "final_answer", "tool_call"}

Coherently ==
  /\ \A i \in DOMAIN steps :
       /\ i # Len(steps) => Coherent(steps[i]) /\ steps[i].reply # None
       /\ i = Len(steps) /\ pc # "execute" => Coherent(steps[i])
  /\ pc = "loop" /\ steps # << >> => Current.reply # None
  /\ pc \in Planned \cup {"execute"} => Current.phase = None /\ Current.reply = None
  /\ pc \in Planned => Current.tool = None /\ ~Current.error
  /\ pc \in {"execute", "executed", "recordTool"} => Current.tool # None

(* Tool errors are counted against their limit after each tool, whatever   *)
(* the clock says: only there can they end the run.                        *)
Unspent == run.toolErrors < request.limits.toolErrorLimit

Patient ==
  /\ pc \in Planned \cup {"execute"} => Unspent
  /\ pc = "executed" => (Current.reply.ok => Unspent)
  /\ (pc = "recordTool" /\ ending = None) \/ (pc = "loop" /\ steps # << >>) => Unspent

(* The last step bears the reason why the run ended.                       *)
Bears(s, reason) ==
  /\ s.phase # None => reason = "llm_error"
  /\ reason = "tool_error_limit" =>
       s.tool \in Registered /\ (s.reply # None => s.error \/ ~s.reply.ok)

Blames(reason) ==
  /\ reason \in {"completed", "guardrail_triggered"} => steps # << >>
  /\ steps # << >> => Bears(Current, reason)

Blamed ==
  /\ pc \in {"recordStop", "finish"} \/ (pc = "recordTool" /\ ending # None) =>
       Blames(ending.reason)
  /\ pc = "done" => Blames(result.reason)

Rendered ==
  \A j \in DOMAIN executed : \E i \in DOMAIN steps : steps[i].tool = executed[j][1]

Told == Coherently /\ Patient /\ Blamed /\ Rendered

LEMMA OpenStepWritten ==
  ASSUME Typed, pc \in InStep, NEW s \in StepType, UpdateStep(s)
  PROVE  /\ Len(steps) \in DOMAIN steps /\ steps' # << >>
         /\ DOMAIN steps' = DOMAIN steps /\ Len(steps') = Len(steps)
         /\ Current' = s /\ steps'[Len(steps)] = s
         /\ \A i \in DOMAIN steps : i # Len(steps) => steps'[i] = steps[i]
<1>1. steps \in Seq(StepType) /\ steps # << >> /\ Len(steps) \in Nat \ {0}
  BY OpenStep
<1>2. Current' = s /\ DOMAIN steps' = DOMAIN steps /\ Len(steps') = Len(steps) /\ steps' # << >>
  BY <1>1, UpdateStepTypes, UpdatesKeepLength
<1>3. QED
  BY <1>1, <1>2 DEF UpdateStep

(* The open step is written, and a call may be executed for it.            *)
LEMMA ToldWritten ==
  ASSUME Typed, Told, pc \in InStep, NEW s \in StepType, UpdateStep(s),
         pc' \notin {"loop", "done"}, Patient',
         pc' # "execute" => Coherent(s),
         pc' \in Planned \cup {"execute"} => s.phase = None /\ s.reply = None,
         pc' \in Planned => s.tool = None /\ ~s.error,
         pc' \in {"execute", "executed", "recordTool"} => s.tool # None,
         Current.tool # None => s.tool = Current.tool,
         \/ UNCHANGED executed
         \/ \E c : executed' = Append(executed, c) /\ s.tool = c[1],
         pc' \in {"recordStop", "finish"} \/ (pc' = "recordTool" /\ ending' # None) =>
           Bears(s, ending'.reason)
  PROVE  Told'
<1> DEFINE n == Len(steps)
<1>1. /\ n \in DOMAIN steps /\ steps' # << >> /\ Current = steps[n]
      /\ DOMAIN steps' = DOMAIN steps /\ Len(steps') = n
      /\ Current' = s /\ steps'[n] = s
      /\ \A i \in DOMAIN steps : i # n => steps'[i] = steps[i]
  BY OpenStepWritten DEF Current
<1> HIDE DEF n
<1>2. \A t : Coherent(t)' = Coherent(t)
  BY DEF Coherent, PlannerSpeaks, ToolsSpeak
<1>3. Coherently'
  <2>1. \A i \in DOMAIN steps : i # n => Coherent(steps[i]) /\ steps[i].reply # None
    BY DEF Told, Coherently, n
  <2>2. \A i \in DOMAIN steps' :
          /\ i # n => Coherent(steps'[i]) /\ steps'[i].reply # None
          /\ i = n /\ pc' # "execute" => Coherent(steps'[i])
    BY <1>1, <2>1
  <2>3. QED
    BY <1>1, <1>2, <2>2 DEF Coherently, Coherent, PlannerSpeaks, ToolsSpeak
<1>4. Blamed'
  BY <1>1 DEF Blamed, Blames, Bears
<1>5. Rendered'
  <2>1. \A i \in DOMAIN steps : steps[i].tool # None => steps'[i].tool = steps[i].tool
    BY <1>1
  <2>2. ASSUME NEW j \in DOMAIN executed PROVE \E i \in DOMAIN steps' : steps'[i].tool = executed[j][1]
    <3>1. PICK i \in DOMAIN steps : steps[i].tool = executed[j][1]
      BY DEF Told, Rendered
    <3>2. executed[j] \in Calls
      BY DEF Typed, TypeOK
    <3>3. executed[j][1] # None
      BY <3>2, RunnerAssumption DEF Calls
    <3>4. QED
      BY <1>1, <2>1, <3>1, <3>3
  <2>3. CASE UNCHANGED executed
    BY <2>2, <2>3 DEF Rendered
  <2>4. ASSUME NEW c, executed' = Append(executed, c), s.tool = c[1] PROVE Rendered'
    <3>1. /\ executed \in Seq(Calls) /\ Len(executed) \in Nat
          /\ DOMAIN executed' = 1..(Len(executed) + 1)
          /\ \A j \in DOMAIN executed : executed'[j] = executed[j]
          /\ executed'[Len(executed) + 1] = c
      BY <2>4 DEF Typed, TypeOK
    <3>2. \A j \in DOMAIN executed' : j \in DOMAIN executed \/ j = Len(executed) + 1
      BY <3>1
    <3>3. ASSUME NEW j \in DOMAIN executed'
          PROVE  \E i \in DOMAIN steps' : steps'[i].tool = executed'[j][1]
      <4>1. CASE j \in DOMAIN executed
        BY <2>2, <3>1, <4>1
      <4>2. CASE j = Len(executed) + 1
        <5>1. steps'[n].tool = executed'[j][1] /\ n \in DOMAIN steps'
          BY <1>1, <2>4, <3>1, <4>2
        <5>2. QED
          BY <5>1
      <4>3. QED
        BY <3>2, <4>1, <4>2
    <3>4. QED
      BY <3>3 DEF Rendered
  <2>5. QED
    BY <2>3, <2>4
<1>6. QED
  BY <1>3, <1>4, <1>5 DEF Told

(* The steps stay as they are.                                             *)
LEMMA ToldQuietly ==
  ASSUME Told, UNCHANGED <<steps, executed>>, Patient',
         pc # "execute", pc' # "execute",
         pc' = "loop" /\ steps # << >> => Current.reply # None,
         pc' \in Planned => pc \in Planned,
         pc' \in {"executed", "recordTool"} => Current.tool # None,
         pc' \in {"recordStop", "finish"} \/ (pc' = "recordTool" /\ ending' # None) =>
           Blames(ending'.reason),
         pc' = "done" => Blames(result'.reason)
  PROVE  Told'
<1>1. Coherently'
  BY DEF Told, Coherently, Coherent, Current, PlannerSpeaks, ToolsSpeak
<1>2. Blamed' /\ Rendered'
  BY DEF Told, Blamed, Blames, Bears, Rendered, Current
<1>3. QED
  BY <1>1, <1>2 DEF Told

(* What stopping makes of a step.                                          *)
LEMMA StoppingIsCoherent ==
  ASSUME NEW s \in StepType, s.phase # None => s.tool = None /\ s.reply = None
  PROVE  /\ Stopped(s) \in StepType /\ Coherent(Stopped(s))
         /\ Stopped(s).tool = s.tool /\ Stopped(s).reply = s.reply
         /\ Stopped(s).phase = s.phase /\ Stopped(s).error
BY StoppedTypes DEF Stopped, Coherent, StepType

LEMMA StoppingByIsCoherent ==
  ASSUME NEW s \in StepType, NEW said \in BOOLEAN,
         s.phase # None => s.tool = None /\ s.reply = None /\ (PlannerSpeaks => said),
         s.tool # None /\ s.reply = None /\ ToolsSpeak => said
  PROVE  LET t == StoppedBy(s, said)
         IN  /\ t \in StepType /\ Coherent(t)
             /\ t.tool = s.tool /\ t.reply = s.reply /\ t.phase = s.phase /\ t.error = said
BY StoppedTypes DEF Stopped, StoppedBy, Coherent, StepType

LEMMA ToldPlans ==
  ASSUME Typed, LastStep, Told,
         \/ \E f \in PlannerFailures : PlannerRaises(f)
         \/ \E p \in PlannerResults : PlannerReturns(p)
  PROVE  Told'
<1>1. /\ pc = "plan" /\ pc \in InStep /\ UNCHANGED <<request, executed>>
      /\ Current \in StepType /\ run \in RunType
      /\ Current.tool = None /\ Current.reply = None /\ Current.phase = None /\ ~Current.error
      /\ Current.state = "running" /\ Unspent
  <2>1. pc = "plan" /\ pc \in InStep /\ UNCHANGED <<request, executed>>
    BY DEF PlannerRaises, PlannerReturns, InStep
  <2>2. QED
    BY <2>1, OpenStep DEF Told, Coherently, Patient, Planned, LastStep
<1>2. ASSUME NEW reason \in StopReasons, NEW s \in StepType, EndWith(reason, s), Coherent(s),
             s.tool = None, reason = "llm_error"
      PROVE  Told'
  <2>1. pc' = "recordStop" /\ UpdateStep(s) /\ ending' = Fallback(reason)
    BY <1>2 DEF EndWith
  <2>2. ending'.reason = "llm_error"
    BY <1>2, <2>1, FallbackReason
  <2>3. Patient'
    BY <2>1 DEF Patient, Planned
  <2>4. Bears(s, ending'.reason)
    BY <2>2 DEF Bears
  <2>5. QED
    BY <1>1, <1>2, <2>1, <2>3, <2>4, ToldWritten DEF Planned
<1>3. ASSUME NEW f \in PlannerFailures, PlannerRaises(f) PROVE Told'
  <2> DEFINE s == [Current EXCEPT !.phase = f.phase, !.cloud = f.cloud,
                                  !.tokens = Counted(f.tokens)]
             said == f.said \/ f.tokens = Malformed
  <2>1. /\ f.phase \in Phases \cup {None} /\ f.cloud \in BOOLEAN /\ f.said \in BOOLEAN
        /\ Counted(f.tokens) \in Nat
    BY CountedType DEF PlannerFailures, Says
  <2>2. PlannerSpeaks => f.said
    BY DEF PlannerFailures, Says, PlannerSpeaks
  <2>3. s \in StepType /\ s.tool = None /\ s.reply = None
    BY <1>1, <2>1 DEF StepType
  <2>4. said \in BOOLEAN /\ (PlannerSpeaks => said)
    BY <2>1, <2>2
  <2>5. EndWith("llm_error", StoppedBy(s, said))
    BY <1>3 DEF PlannerRaises
  <2> HIDE DEF s, said
  <2> DEFINE t == StoppedBy(s, said)
  <2>6. t \in StepType /\ Coherent(t) /\ t.tool = None
    BY <2>3, <2>4, StoppingByIsCoherent
  <2> HIDE DEF t
  <2>7. EndWith("llm_error", t)
    BY <2>5 DEF t
  <2>8. QED
    BY <1>2, <2>6, <2>7 DEF StopReasons
<1>4. ASSUME NEW p \in PlannerResults, PlannerReturns(p) PROVE Told'
  <2> DEFINE s == [Current EXCEPT !.cloud = p.cloud, !.tokens = Counted(p.tokens)]
  <2>1. p.cloud \in BOOLEAN /\ Counted(p.tokens) \in Nat
    BY CountedType DEF PlannerResults
  <2>2. /\ s \in StepType /\ s.tool = None /\ s.reply = None /\ s.phase = None /\ ~s.error
        /\ s.state = "running"
    BY <1>1, <2>1 DEF StepType
  <2>3. \/ EndWith("llm_error", Stopped(s))
        \/ UpdateStep(s) /\ pc' = "planned" /\ UNCHANGED ending
    BY <1>4 DEF PlannerReturns
  <2>4. run'.toolErrors = run.toolErrors
    BY <1>1, <1>4 DEF PlannerReturns, RunType
  <2> HIDE DEF s
  <2>5. CASE EndWith("llm_error", Stopped(s))
    <3>1. Stopped(s) \in StepType /\ Coherent(Stopped(s)) /\ Stopped(s).tool = None
      BY <2>2, StoppingIsCoherent
    <3>2. QED
      BY <1>2, <2>5, <3>1 DEF StopReasons
  <2>6. CASE UpdateStep(s) /\ pc' = "planned" /\ UNCHANGED ending
    <3>1. Patient'
      BY <1>1, <2>4, <2>6 DEF Patient, Unspent
    <3>2. Coherent(s)
      BY <2>2 DEF Coherent
    <3>3. QED
      BY <1>1, <2>2, <2>6, <3>1, <3>2, ToldWritten
  <2>7. QED
    BY <2>3, <2>5, <2>6
<1>5. QED
  BY <1>3, <1>4

(* A check of the limits that does not stop the run, and one that does     *)
(* while tool errors are affordable.                                       *)
LEMMA UnspentStops ==
  ASSUME NEW counting, NEW t, Unspent, run \in RunType, request.limits \in RunLimits,
         ~run.guardrail, ~run.repairFailed
  PROVE  EvaluateStop(run, request.limits, counting, t) # "tool_error_limit"
<1>1. ~TooManyErrors(run, request.limits)
  BY DEF Unspent, TooManyErrors, RunType, RunLimits
<1>2. QED
  BY <1>1 DEF EvaluateStop, Continue

LEMMA ToldChecks ==
  ASSUME Typed, LastStep, Told, CheckDecision
  PROVE  Told'
<1>1. /\ pc = "planned" /\ pc \in InStep /\ UNCHANGED <<request, run, executed>>
      /\ Current \in StepType /\ run \in RunType /\ request.limits \in RunLimits
      /\ Current.tool = None /\ Current.reply = None /\ Current.phase = None /\ ~Current.error
      /\ Unspent /\ ~run.guardrail /\ ~run.repairFailed
  <2>1. pc = "planned" /\ pc \in InStep /\ UNCHANGED <<request, run, executed>>
    BY DEF CheckDecision, InStep
  <2>2. QED
    BY <2>1, OpenStep, LimitsAreTyped DEF Told, Coherently, Patient, Planned, LastStep
<1>2. decision.action \in {"final_answer", "tool_call", "other"}
  BY <1>1 DEF Typed, Shape, Decisions
<1>3. \/ \E reason \in Stops \ {"tool_error_limit"} : EndWith(reason, Stopped(Current))
      \/ pc' = decision.action /\ UNCHANGED <<steps, ending>>
  <2>1. CASE EndWith("llm_error", Stopped(Current))
    BY <2>1, StopsAreReasons
  <2>2. CASE ~EndWith("llm_error", Stopped(Current))
    BY <1>1, <2>2, LimitsStop, UnspentStops DEF CheckDecision
  <2>3. QED
    BY <2>1, <2>2
<1>4. ASSUME NEW reason \in Stops \ {"tool_error_limit"}, EndWith(reason, Stopped(Current))
      PROVE  Told'
  <2> DEFINE s == Stopped(Current)
  <2>1. s \in StepType /\ Coherent(s) /\ s.tool = None /\ s.phase = None
    BY <1>1, StoppingIsCoherent
  <2> HIDE DEF s
  <2>2. UpdateStep(s) /\ pc' = "recordStop" /\ ending'.reason = reason
    BY <1>4, FallbackReason, StopsAreReasons DEF EndWith, s
  <2>3. Patient' /\ Bears(s, ending'.reason)
    BY <1>4, <2>1, <2>2 DEF Patient, Planned, Bears
  <2>4. QED
    BY <1>1, <2>1, <2>2, <2>3, ToldWritten DEF Planned
<1>5. CASE pc' = decision.action /\ UNCHANGED <<steps, ending>>
  <2>1. Patient'
    BY <1>1, <1>2, <1>5 DEF Patient, Unspent
  <2>2. QED
    BY <1>1, <1>2, <1>5, <2>1, ToldQuietly DEF Planned
<1>6. QED
  BY <1>3, <1>4, <1>5

LEMMA ToldStored ==
  ASSUME Typed, LastStep, Told, RecordStoppedStep \/ RejectDecision \/ RecordAnswerStep
  PROVE  Told'
<1>1. /\ pc \in InStep /\ pc \in {"recordStop", "other", "final_answer"}
      /\ UNCHANGED <<request, run, executed>> /\ Current \in StepType
      /\ steps # << >> /\ Len(steps) \in DOMAIN steps
  <2>1. pc \in InStep /\ pc \in {"recordStop", "other", "final_answer"}
        /\ UNCHANGED <<request, run, executed>>
    BY DEF RecordStoppedStep, RejectDecision, RecordAnswerStep, InStep
  <2>2. QED
    BY <2>1, OpenStep
<1>2. Coherent(Current)
  BY <1>1 DEF Told, Coherently, Current
<1>3. pc' \in {"finish", "guard"}
  BY DEF RecordStoppedStep, RejectDecision, RecordAnswerStep
<1>4. Patient'
  BY <1>3 DEF Patient, Planned
<1>5. ASSUME NEW s \in StepType, UpdateStep(s), Coherent(s), Current.tool # None => s.tool = Current.tool,
             pc' = "finish" => Bears(s, ending'.reason)
      PROVE  Told'
  BY <1>1, <1>3, <1>4, <1>5, ToldWritten DEF Planned
<1>6. CASE RecordStoppedStep
  <2> DEFINE s == [Current EXCEPT !.error = TRUE]
  <2>1. pc = "recordStop" /\ pc' = "finish" /\ UNCHANGED ending /\ (UNCHANGED steps \/ UpdateStep(s))
    BY <1>6 DEF RecordStoppedStep
  <2>2. Blames(ending.reason) /\ Current.state = "stopped"
    BY <2>1 DEF Told, Blamed, LastStep
  <2>3. /\ s \in StepType /\ s.tool = Current.tool /\ s.reply = Current.reply
        /\ s.phase = Current.phase /\ s.state = "stopped" /\ s.error
    BY <1>1, <2>2 DEF StepType
  <2> HIDE DEF s
  <2>4. CASE UpdateStep(s)
    <3>1. Coherent(s)
      BY <1>2, <2>3 DEF Coherent
    <3>2. Bears(s, ending'.reason)
      BY <1>1, <2>1, <2>2, <2>3 DEF Blames, Bears
    <3>3. QED
      BY <1>5, <2>3, <2>4, <3>1, <3>2
  <2>5. CASE UNCHANGED steps
    BY <1>1, <1>4, <2>1, <2>2, <2>5, ToldQuietly DEF Planned
  <2>6. QED
    BY <2>1, <2>4, <2>5
<1>7. CASE RejectDecision
  <2> DEFINE s == Stopped(Current)
  <2>1. Current.tool = None /\ Current.phase = None
    BY <1>7 DEF RejectDecision, Told, Coherently, Planned
  <2>2. s \in StepType /\ Coherent(s) /\ s.tool = None /\ s.phase = None
    BY <1>1, <2>1, StoppingIsCoherent
  <2>3. UpdateStep(s) /\ \E reason \in {"llm_error", "invalid_decision"} : ending' = Fallback(reason)
    BY <1>7 DEF RejectDecision
  <2> HIDE DEF s
  <2>4. ending'.reason \in {"llm_error", "invalid_decision"}
    BY <2>3, FallbackReason DEF StopReasons
  <2>5. Bears(s, ending'.reason)
    BY <2>2, <2>4 DEF Bears
  <2>6. QED
    BY <1>5, <2>1, <2>2, <2>3, <2>5
<1>8. CASE RecordAnswerStep
  <2> DEFINE s == [Current EXCEPT !.state = "completed"]
  <2>1. Current.tool = None /\ Current.phase = None /\ Current.reply = None /\ ~Current.error
    BY <1>8 DEF RecordAnswerStep, Told, Coherently, Planned
  <2>2. s \in StepType /\ s.tool = None /\ s.phase = None /\ s.reply = None /\ ~s.error
    BY <1>1, <2>1 DEF StepType, AgentStates
  <2>3. \/ UpdateStep(Stopped(s)) /\ ending' = Fallback("llm_error") /\ pc' = "finish"
        \/ UpdateStep(s) /\ pc' = "guard" /\ UNCHANGED ending
    BY <1>8 DEF RecordAnswerStep
  <2> HIDE DEF s
  <2>4. CASE UpdateStep(Stopped(s)) /\ ending' = Fallback("llm_error") /\ pc' = "finish"
    <3> DEFINE t == Stopped(s)
    <3>1. t \in StepType /\ Coherent(t) /\ t.tool = None /\ t.phase = None
      BY <2>2, StoppingIsCoherent
    <3>2. ending'.reason = "llm_error"
      BY <2>4, FallbackReason DEF StopReasons
    <3> HIDE DEF t
    <3>3. Bears(t, ending'.reason)
      BY <3>1, <3>2 DEF Bears
    <3>4. UpdateStep(t)
      BY <2>4 DEF t
    <3>5. QED
      BY <1>5, <2>1, <3>1, <3>3, <3>4
  <2>5. CASE UpdateStep(s) /\ pc' = "guard" /\ UNCHANGED ending
    <3>1. Coherent(s)
      BY <2>2 DEF Coherent
    <3>2. QED
      BY <1>5, <2>1, <2>2, <2>5, <3>1
  <2>6. QED
    BY <2>3, <2>4, <2>5
<1>9. QED
  BY <1>6, <1>7, <1>8

LEMMA ToldGuarded ==
  ASSUME Typed, LastStep, Told, GuardAnswer
  PROVE  Told'
<1>1. pc = "guard" /\ pc \in InStep /\ pc' = "finish" /\ UNCHANGED <<steps, executed>>
  BY DEF GuardAnswer, InStep
<1>2. steps # << >> /\ Len(steps) \in DOMAIN steps
  BY <1>1, OpenStep
<1>3. Current.phase = None
  BY <1>1, <1>2 DEF Told, Coherently, Coherent, LastStep, Current
<1>4. ending'.reason \in {"completed", "guardrail_triggered"}
  <2>1. Fallback("guardrail_triggered").reason = "guardrail_triggered"
    BY FallbackReason DEF StopReasons
  <2>2. CASE ending' = Fallback("guardrail_triggered")
    BY <2>1, <2>2
  <2>3. CASE ending' # Fallback("guardrail_triggered")
    BY <2>3 DEF GuardAnswer
  <2>4. QED
    BY <2>2, <2>3
<1>5. Blames(ending'.reason) /\ Patient'
  BY <1>1, <1>2, <1>3, <1>4 DEF Blames, Bears, Patient, Planned
<1>6. QED
  BY <1>1, <1>5, ToldQuietly DEF Planned

LEMMA ToldScreens ==
  ASSUME Typed, LastStep, Told, ScreenToolCall
  PROVE  Told'
<1> DEFINE call == decision.call
           s == [Current EXCEPT !.state = "tool_call", !.tool = call[1]]
           waiting == [s EXCEPT !.state = "needs_human", !.error = TRUE]
<1>1. /\ pc = "tool_call" /\ pc \in InStep /\ UNCHANGED <<request, executed, decision>>
      /\ decision \in Decisions /\ decision.action = "tool_call"
      /\ Current \in StepType /\ run \in RunType
      /\ Current.tool = None /\ Current.phase = None /\ Current.reply = None /\ ~Current.error
      /\ Unspent
  <2>1. pc = "tool_call" /\ pc \in InStep /\ UNCHANGED <<request, executed, decision>>
    BY DEF ScreenToolCall, InStep
  <2>2. QED
    BY <2>1, OpenStep DEF Told, Coherently, Patient, Planned, Typed, Shape
<1>2. call[1] \in Names /\ call[1] # None
  BY <1>1, RunnerAssumption DEF Decisions, Calls
<1>3. /\ s \in StepType /\ s.tool = call[1] /\ s.phase = None /\ s.reply = None
  BY <1>1, <1>2 DEF StepType, AgentStates
<1>4. /\ waiting \in StepType /\ waiting.tool = call[1] /\ waiting.phase = None
      /\ waiting.reply = None /\ Coherent(waiting)
  <2> HIDE DEF s
  <2>1. QED
    BY <1>3 DEF StepType, AgentStates, Coherent
<1>5. Objection(call) \in ((Stops \cup {"needs_human"}) \ {"tool_error_limit", "llm_error"}) \cup {Continue}
  BY DEF Objection, Stops, StopReasons
<1>6. \/ /\ UpdateStep(s) /\ pc' = "execute" /\ UNCHANGED ending
         /\ run' = [run EXCEPT !.calls = @ \cup {call}]
      \/ /\ UNCHANGED run /\ Objection(call) # Continue
         /\ \E said \in Says("security") \cup {TRUE} :
              EndToolStep(Objection(call),
                IF Objection(call) = "needs_human" THEN waiting ELSE StoppedBy(s, said))
  BY DEF ScreenToolCall
<1>7. \A said \in Says("security") \cup {TRUE} : said \in BOOLEAN /\ (ToolsSpeak => said)
  BY DEF Says, ToolsSpeak
<1>8. s.tool # None /\ waiting.tool # None
  BY <1>2, <1>3, <1>4
<1> HIDE DEF s, waiting, call
<1>9. CASE /\ UpdateStep(s) /\ pc' = "execute" /\ UNCHANGED ending
           /\ run' = [run EXCEPT !.calls = @ \cup {call}]
  <2>1. run'.toolErrors = run.toolErrors
    BY <1>1, <1>9 DEF RunType
  <2>2. Patient'
    BY <1>1, <1>9, <2>1 DEF Patient, Unspent
  <2>3. QED
    BY <1>1, <1>3, <1>8, <1>9, <2>2, ToldWritten DEF Planned
<1>10. ASSUME NEW t \in StepType, Coherent(t), t.tool # None, t.phase = None,
              Objection(call) # Continue, EndToolStep(Objection(call), t)
       PROVE  Told'
  <2>1. Objection(call) \in StopReasons \ {"tool_error_limit", "llm_error"}
    BY <1>5, <1>10 DEF Stops, StopReasons
  <2>2. UpdateStep(t) /\ pc' = "recordTool" /\ ending'.reason = Objection(call) /\ ending' # None
    BY <1>10, <2>1, FallbackReason DEF EndToolStep
  <2>3. Patient' /\ Bears(t, ending'.reason)
    BY <1>10, <2>1, <2>2 DEF Patient, Planned, Bears
  <2>4. QED
    BY <1>1, <1>10, <2>2, <2>3, ToldWritten DEF Planned
<1>11. ASSUME Objection(call) # Continue, NEW said \in Says("security") \cup {TRUE},
              EndToolStep(Objection(call),
                IF Objection(call) = "needs_human" THEN waiting ELSE StoppedBy(s, said))
       PROVE  Told'
  <2>1. CASE Objection(call) = "needs_human"
    BY <1>4, <1>8, <1>10, <1>11, <2>1
  <2>2. CASE Objection(call) # "needs_human"
    <3> DEFINE t == StoppedBy(s, said)
    <3>1. t \in StepType /\ Coherent(t) /\ t.tool = s.tool /\ t.phase = s.phase
      BY <1>3, <1>7, <1>11, StoppingByIsCoherent
    <3>2. EndToolStep(Objection(call), t)
      BY <1>11, <2>2
    <3> HIDE DEF t
    <3>3. QED
      BY <1>3, <1>8, <1>10, <1>11, <3>1, <3>2
  <2>3. QED
    BY <2>1, <2>2
<1>12. QED
  BY <1>6, <1>9, <1>11

LEMMA ToldExecutes ==
  ASSUME Typed, LastStep, Screened, Traced, Told,
         ToolRaises \/ \E reply \in ToolReplies : ToolReturns(reply)
  PROVE  Told'
<1>1. /\ pc = "execute" /\ pc \in InStep /\ UNCHANGED request
      /\ Current \in StepType /\ run \in RunType /\ request.limits \in RunLimits
      /\ executed' = Append(executed, decision.call) /\ Current.tool = decision.call[1]
      /\ Current.phase = None /\ Current.reply = None /\ Current.tool # None
      /\ Current.state = "tool_call" /\ Unspent
  <2>1. /\ pc = "execute" /\ pc \in InStep /\ UNCHANGED request
        /\ executed' = Append(executed, decision.call)
    BY DEF ToolRaises, ToolReturns, InStep
  <2>2. QED
    BY <2>1, OpenStep, LimitsAreTyped DEF Told, Coherently, Patient, LastStep, Traced
<1>2. Current.tool \in Registered
  BY <1>1, RunnerAssumption DEF Screened
<1>3. ASSUME NEW s \in StepType, EndToolStep("tool_error_limit", s), Coherent(s), s.error,
             s.tool = Current.tool, s.phase = None
      PROVE  Told'
  <2>1. /\ pc' = "recordTool" /\ UpdateStep(s) /\ ending'.reason = "tool_error_limit"
        /\ ending' # None
    BY <1>3, FallbackReason DEF EndToolStep, StopReasons
  <2>2. Patient' /\ Bears(s, ending'.reason)
    BY <1>2, <1>3, <2>1 DEF Patient, Planned, Bears
  <2>3. QED
    BY <1>1, <1>3, <2>1, <2>2, ToldWritten DEF Planned
<1>4. CASE ToolRaises
  <2>1. PICK said \in Says("executor") : EndToolStep("tool_error_limit", StoppedBy(Current, said))
    BY <1>4 DEF ToolRaises
  <2>2. said \in BOOLEAN /\ (ToolsSpeak => said)
    BY DEF Says, ToolsSpeak
  <2> DEFINE s == StoppedBy(Current, said)
  <2>3. s \in StepType /\ Coherent(s) /\ s.tool = Current.tool /\ s.phase = None
        /\ s.reply = None
    BY <1>1, <2>2, StoppingByIsCoherent
  <2> HIDE DEF s
  <2>4. EndToolStep("tool_error_limit", s)
    BY <2>1 DEF s
  <2>5. /\ pc' = "recordTool" /\ UpdateStep(s) /\ ending'.reason = "tool_error_limit"
        /\ ending' # None
    BY <2>4, FallbackReason DEF EndToolStep, StopReasons
  <2>6. Patient' /\ Bears(s, ending'.reason)
    BY <1>2, <2>3, <2>5 DEF Patient, Planned, Bears
  <2>7. QED
    BY <1>1, <2>3, <2>5, <2>6, ToldWritten DEF Planned
<1>5. ASSUME NEW reply \in ToolReplies, ToolReturns(reply) PROVE Told'
  <2> DEFINE s == [Current EXCEPT !.reply = reply]
  <2>1. /\ s \in StepType /\ s.tool = Current.tool /\ s.reply = reply /\ s.phase = None
        /\ s.state = "tool_call" /\ s.tokens \in Nat /\ s.cost \in Nat
    BY <1>1 DEF StepType
  <2>2. reply # None
    BY RunnerAssumption
  <2>3. \/ EndToolStep("tool_error_limit", Stopped(s))
        \/ /\ reply.tokens # Malformed
           /\ UpdateStep(WithToolUsage(s, reply)) /\ pc' = "executed" /\ UNCHANGED ending
           /\ run' = [run EXCEPT !.tokens = @ + reply.tokens, !.cost = @ + reply.cost,
                                 !.priced = @ \/ reply.priced,
                                 !.toolErrors = ToolErrors(@, reply.ok)]
    BY <1>5 DEF ToolReturns
  <2> HIDE DEF s
  <2>4. CASE EndToolStep("tool_error_limit", Stopped(s))
    <3> DEFINE t == Stopped(s)
    <3>1. t \in StepType /\ Coherent(t) /\ t.tool = Current.tool /\ t.phase = None /\ t.error
      BY <2>1, StoppingIsCoherent
    <3> HIDE DEF t
    <3>2. EndToolStep("tool_error_limit", t)
      BY <2>4 DEF t
    <3>3. QED
      BY <1>3, <3>1, <3>2
  <2>5. CASE /\ reply.tokens # Malformed
             /\ UpdateStep(WithToolUsage(s, reply)) /\ pc' = "executed" /\ UNCHANGED ending
             /\ run' = [run EXCEPT !.tokens = @ + reply.tokens, !.cost = @ + reply.cost,
                                   !.priced = @ \/ reply.priced,
                                   !.toolErrors = ToolErrors(@, reply.ok)]
    <3>1. reply.tokens \in Nat /\ reply.cost \in Nat
      BY <2>5, ReplyTypes
    <3> DEFINE tokens == s.tokens + reply.tokens
               cost == s.cost + reply.cost
               t == WithToolUsage(s, reply)
    <3>2. t = [s EXCEPT !.tokens = tokens, !.cost = cost]
      BY DEF WithToolUsage
    <3>3. tokens \in Nat /\ cost \in Nat
      BY <2>1, <3>1
    <3> HIDE DEF tokens, cost, t
    <3>4. /\ t \in StepType /\ t.tool = Current.tool /\ t.reply = reply /\ t.phase = None
          /\ t.state = "tool_call"
      BY <2>1, <3>2, <3>3 DEF StepType
    <3>5. Coherent(t)
      BY <2>2, <3>4 DEF Coherent
    <3>6. UpdateStep(t)
      BY <2>5 DEF t
    <3>7. run'.toolErrors = ToolErrors(run.toolErrors, reply.ok)
      BY <1>1, <2>5 DEF RunType
    <3>8. Current' = t
      BY <1>1, <3>4, <3>6, OpenStepWritten
    <3>9. reply.ok => Unspent'
      BY <1>1, <3>7 DEF Unspent, ToolErrors, RunType, RunLimits
    <3>10. Patient'
      BY <2>5, <3>4, <3>8, <3>9 DEF Patient, Planned
    <3>11. QED
      BY <1>1, <2>5, <3>4, <3>5, <3>6, <3>10, ToldWritten DEF Planned
  <2>6. QED
    BY <2>3, <2>4, <2>5
<1>6. QED
  BY <1>4, <1>5

LEMMA ToldChecksTool ==
  ASSUME Typed, LastStep, Traced, Screened, Told, CheckToolStep
  PROVE  Told'
<1>1. /\ pc = "executed" /\ pc \in InStep /\ UNCHANGED <<request, run, executed>>
      /\ Current \in StepType /\ run \in RunType /\ request.limits \in RunLimits
      /\ Current.reply \in ToolReplies /\ Current.reply # None /\ Current.tool # None
      /\ Current.state = "tool_call" /\ ~run.guardrail /\ ~run.repairFailed /\ ending = None
      /\ steps # << >> /\ Len(steps) \in DOMAIN steps
      /\ (Current.reply.ok => Unspent)
  <2>1. pc = "executed" /\ pc \in InStep /\ UNCHANGED <<request, run, executed>>
    BY DEF CheckToolStep, InStep
  <2>2. Current.reply \in ToolReplies /\ Current.reply # None
    BY <2>1, RunnerAssumption DEF Typed, Shape
  <2>3. Current.state = "tool_call" /\ ~run.guardrail /\ ~run.repairFailed /\ ending = None
    BY <2>1 DEF LastStep
  <2>4. QED
    BY <2>1, <2>2, <2>3, OpenStep, LimitsAreTyped DEF Told, Coherently, Patient
<1>2. Coherent(Current) /\ Current.phase = None
  <2>1. Coherent(Current)
    BY <1>1 DEF Told, Coherently, Current
  <2>2. QED
    BY <1>1, <2>1 DEF Coherent
<1>3. Current.tool \in Registered
  <2>1. ExecutedFor(Current)
    BY <1>1 DEF Traced, Current
  <2>2. PICK j \in DOMAIN executed : executed[j][1] = Current.tool
    BY <2>1 DEF ExecutedFor
  <2>3. executed[j] \in ValidCalls
    BY DEF Screened, ScreenedExecution
  <2>4. QED
    BY <2>2, <2>3, RunnerAssumption
<1>4. ASSUME NEW s \in StepType, NEW reason \in Stops, EndToolStep(reason, s), Coherent(s),
             s.tool = Current.tool, s.phase = None, s.reply = Current.reply,
             reason = "tool_error_limit" => ~Current.reply.ok
      PROVE  Told'
  <2>1. /\ pc' = "recordTool" /\ UpdateStep(s) /\ ending'.reason = reason /\ ending' # None
    BY <1>4, FallbackReason, StopsAreReasons DEF EndToolStep
  <2>2. Patient' /\ Bears(s, ending'.reason)
    BY <1>3, <1>4, <2>1 DEF Patient, Planned, Bears
  <2>3. QED
    BY <1>1, <1>4, <2>1, <2>2, ToldWritten DEF Planned
<1>5. CASE EndToolStep("llm_error", Stopped(Current))
  <2> DEFINE s == Stopped(Current)
  <2>1. s \in StepType /\ Coherent(s) /\ s.tool = Current.tool /\ s.phase = None
        /\ s.reply = Current.reply
    BY <1>1, <1>2, StoppingIsCoherent
  <2> HIDE DEF s
  <2>2. EndToolStep("llm_error", s)
    BY <1>5 DEF s
  <2>3. QED
    BY <1>4, <2>1, <2>2, StopsAreReasons
<1>6. ASSUME NEW t, EvaluateStop(run, request.limits, FALSE, t) # Continue,
             EndToolStep(EvaluateStop(run, request.limits, FALSE, t),
                         [Current EXCEPT !.state = "stopped"])
      PROVE  Told'
  <2> DEFINE s == [Current EXCEPT !.state = "stopped"]
             stop == EvaluateStop(run, request.limits, FALSE, t)
  <2>1. s \in StepType /\ s.tool = Current.tool /\ s.phase = None
        /\ s.reply = Current.reply /\ s.state = "stopped"
    BY <1>1, <1>2 DEF StepType, AgentStates
  <2>2. stop \in Stops
    BY <1>1, <1>6, LimitsStop
  <2>3. stop = "tool_error_limit" => ~Current.reply.ok
    BY <1>1, UnspentStops
  <2> HIDE DEF s, stop
  <2>4. Coherent(s)
    BY <1>1, <2>1 DEF Coherent
  <2>5. EndToolStep(stop, s)
    BY <1>6 DEF s, stop
  <2>6. QED
    BY <1>4, <2>1, <2>2, <2>3, <2>4, <2>5
<1>7. ASSUME NEW t, EvaluateStop(run, request.limits, FALSE, t) = Continue,
             pc' = "recordTool", UNCHANGED <<steps, ending>>
      PROVE  Told'
  <2>1. ~TooManyErrors(run, request.limits)
    BY <1>1, <1>7 DEF EvaluateStop, Continue
  <2>2. Unspent'
    BY <1>1, <2>1 DEF Unspent, TooManyErrors, RunType, RunLimits
  <2>3. Patient'
    BY <1>7, <2>2 DEF Patient, Planned
  <2>4. QED
    BY <1>1, <1>7, <2>3, ToldQuietly DEF Planned
<1>8. QED
  BY <1>5, <1>6, <1>7 DEF CheckToolStep

LEMMA ToldStoresTool ==
  ASSUME Typed, LastStep, Told, RecordToolStep
  PROVE  Told'
<1>1. /\ pc = "recordTool" /\ pc \in InStep /\ UNCHANGED <<request, run, executed>>
      /\ Current \in StepType /\ Current.tool # None
      /\ steps # << >> /\ Len(steps) \in DOMAIN steps
  <2>1. pc = "recordTool" /\ pc \in InStep /\ UNCHANGED <<request, run, executed>>
    BY DEF RecordToolStep, InStep
  <2>2. QED
    BY <2>1, OpenStep DEF Told, Coherently
<1>2. Coherent(Current)
  BY <1>1 DEF Told, Coherently, Current
<1>3. CASE UpdateStep(Stopped(Current)) /\ ending' = Fallback("llm_error") /\ pc' = "finish"
  <2> DEFINE s == Stopped(Current)
  <2>1. s \in StepType /\ Coherent(s) /\ s.tool = Current.tool
    BY <1>1, <1>2, StoppingIsCoherent DEF Coherent
  <2> HIDE DEF s
  <2>2. UpdateStep(s) /\ ending'.reason = "llm_error"
    BY <1>3, FallbackReason, StopsAreReasons DEF s
  <2>3. Patient' /\ Bears(s, ending'.reason)
    BY <1>3, <2>2 DEF Patient, Planned, Bears
  <2>4. QED
    BY <1>1, <1>3, <2>1, <2>2, <2>3, ToldWritten DEF Planned
<1>4. CASE ending # None /\ pc' = "finish" /\ UNCHANGED <<steps, ending>>
  <2>1. Blames(ending.reason) /\ Patient'
    BY <1>1, <1>4 DEF Told, Blamed, Patient, Planned
  <2>2. QED
    BY <1>1, <1>4, <2>1, ToldQuietly DEF Planned
<1>5. CASE ending = None /\ pc' = "loop" /\ UNCHANGED <<steps, ending>>
  <2>1. Current.reply # None /\ Unspent
    BY <1>1, <1>5, RunnerAssumption DEF Typed, Shape, Told, Patient
  <2>2. Patient'
    BY <1>1, <1>5, <2>1 DEF Patient, Unspent, Planned
  <2>3. QED
    BY <1>1, <1>5, <2>1, <2>2, ToldQuietly DEF Planned
<1>6. QED
  BY <1>3, <1>4, <1>5 DEF RecordToolStep

LEMMA ToldOpens ==
  ASSUME Typed, LastStep, Told, CheckBudget
  PROVE  Told'
<1>1. /\ pc = "loop" /\ UNCHANGED <<request, executed>>
      /\ run \in RunType /\ request.limits \in RunLimits /\ steps \in Seq(StepType)
      /\ ~run.guardrail /\ ~run.repairFailed
  <2>1. pc = "loop" /\ UNCHANGED <<request, executed>>
    BY DEF CheckBudget
  <2>2. QED
    BY <2>1, LimitsAreTyped DEF LastStep
<1>2. steps # << >> => Coherent(Current) /\ Current.reply # None /\ Current.phase = None /\ Unspent
  <2>1. steps # << >> => Len(steps) \in DOMAIN steps
    BY <1>1
  <2>2. steps # << >> => Coherent(Current) /\ Current.reply # None /\ Unspent
    BY <1>1, <2>1 DEF Told, Coherently, Patient, Current
  <2>3. QED
    BY <2>2 DEF Coherent
<1>3. ASSUME NEW reason \in Stops, steps # << >> => reason # "tool_error_limit",
             ending' = Fallback(reason), pc' = "finish", UNCHANGED steps
      PROVE  Told'
  <2>1. ending'.reason = reason
    BY <1>3, FallbackReason, StopsAreReasons
  <2>2. Blames(reason) /\ Patient'
    BY <1>2, <1>3 DEF Blames, Bears, Stops, Patient, Planned
  <2>3. QED
    BY <1>1, <1>3, <2>1, <2>2, ToldQuietly DEF Planned
<1>4. ASSUME NEW t, EvaluateStop(run, request.limits, TRUE, t) = Continue, pc' = "plan",
             steps' = Append(steps, NewStep), run' = [run EXCEPT !.stepCount = @ + 1],
             UNCHANGED ending
      PROVE  Told'
  <2> DEFINE n == Len(steps)
  <2>1. /\ n \in Nat /\ DOMAIN steps = 1..n /\ DOMAIN steps' = 1..(n + 1) /\ Len(steps') = n + 1
        /\ \A i \in DOMAIN steps : steps'[i] = steps[i]
        /\ steps'[n + 1] = NewStep /\ Current' = NewStep
        /\ steps = << >> <=> n = 0
    <3>1. NewStep \in StepType
      BY DEF NewStep, StepType, AgentStates
    <3>2. QED
      BY <1>1, <1>4, <3>1 DEF Current
  <2>2. n # 0 => steps[n] = Current
    BY DEF Current
  <2>3. \A i \in DOMAIN steps : Coherent(steps[i]) /\ steps[i].reply # None
    <3>1. \A i \in DOMAIN steps : i # n => Coherent(steps[i]) /\ steps[i].reply # None
      BY DEF Told, Coherently, n
    <3> HIDE DEF n
    <3>2. QED
      BY <1>2, <2>1, <2>2, <3>1
  <2> HIDE DEF n
  <2>4. /\ NewStep.phase = None /\ NewStep.reply = None /\ NewStep.tool = None
        /\ ~NewStep.error /\ Coherent(NewStep)
    BY DEF NewStep, Coherent
  <2>5. \A i \in DOMAIN steps' : i \in DOMAIN steps \/ i = n + 1
    BY <2>1
  <2>6. \A i \in DOMAIN steps' :
          /\ i # Len(steps') => Coherent(steps'[i]) /\ steps'[i].reply # None
          /\ i = Len(steps') => Coherent(steps'[i])
    BY <2>1, <2>3, <2>4, <2>5
  <2>7. Coherently'
    BY <1>4, <2>1, <2>4, <2>6 DEF Coherently, Coherent, PlannerSpeaks, ToolsSpeak
  <2>8. Patient'
    <3>1. ~TooManyErrors(run, request.limits)
      BY <1>1, <1>4 DEF EvaluateStop, Continue
    <3>2. run'.toolErrors = run.toolErrors
      BY <1>1, <1>4 DEF RunType
    <3>3. Unspent'
      BY <1>1, <3>1, <3>2 DEF Unspent, TooManyErrors, RunType, RunLimits
    <3>4. QED
      BY <1>4, <3>3 DEF Patient
  <2>9. Blamed' /\ Rendered'
    BY <1>1, <1>4, <2>1 DEF Told, Blamed, Rendered
  <2>10. QED
    BY <2>7, <2>8, <2>9 DEF Told
<1>5. CASE ending' = Fallback("llm_error") /\ pc' = "finish" /\ UNCHANGED steps
  BY <1>3, <1>5, StopsAreReasons
<1>6. ASSUME NEW t, EvaluateStop(run, request.limits, TRUE, t) # Continue,
             ending' = Fallback(EvaluateStop(run, request.limits, TRUE, t)),
             pc' = "finish", UNCHANGED steps
      PROVE  Told'
  <2> DEFINE stop == EvaluateStop(run, request.limits, TRUE, t)
  <2>1. stop \in Stops
    BY <1>1, <1>6, LimitsStop
  <2>2. steps # << >> => stop # "tool_error_limit"
    BY <1>1, <1>2, UnspentStops
  <2>3. ending' = Fallback(stop)
    BY <1>6
  <2> HIDE DEF stop
  <2>4. QED
    BY <1>3, <1>6, <2>1, <2>2, <2>3
<1>7. QED
  BY <1>4, <1>5, <1>6 DEF CheckBudget

LEMMA ToldStarts ==
  ASSUME Typed, Ordered, Told,
         \/ \E r \in Requests : Submit(r)
         \/ ResetPlanner \/ StartClock \/ RecordStarted
  PROVE  Told'
<1>1. pc \in Unstarted /\ steps = << >> /\ UNCHANGED <<steps, executed>>
  BY DEF Submit, ResetPlanner, StartClock, RecordStarted, Refuse, Unstarted, Ordered, Logged
<1>2. pc' \in {"reset", "startClock", "started", "loop", "finish", "done"}
  BY DEF Submit, ResetPlanner, StartClock, RecordStarted, Refuse
<1>3. pc' = "finish" => ending'.reason = "llm_error"
  BY FallbackReason, StopsAreReasons DEF Submit, ResetPlanner, StartClock, RecordStarted, Refuse
<1>4. pc' = "done" => result'.reason \in {"llm_error", "invalid_decision"}
  BY DEF Submit, ResetPlanner, StartClock, RecordStarted, Refuse, RefusedResult
<1>5. Patient'
  BY <1>1, <1>2 DEF Patient, Planned
<1>6. \A reason \in {"llm_error", "invalid_decision"} : Blames(reason)
  BY <1>1 DEF Blames
<1>7. QED
  BY <1>1, <1>2, <1>3, <1>4, <1>5, <1>6, ToldQuietly DEF Unstarted, Planned

LEMMA ToldFinish ==
  ASSUME Told, Finish
  PROVE  Told'
<1>1. /\ pc = "finish" /\ pc' = "done" /\ UNCHANGED <<steps, executed>>
      /\ result'.reason = ending.reason
  BY DEF Finish, FinishedResult
<1>2. Blames(ending.reason) /\ Patient'
  BY <1>1 DEF Told, Blamed, Patient, Planned
<1>3. QED
  BY <1>1, <1>2, ToldQuietly DEF Planned

LEMMA ToldStep ==
  ASSUME Typed, Ordered, LastStep, Screened, Traced, Told, [Next]_vars
  PROVE  Told'
<1>1. CASE UNCHANGED vars
  BY <1>1 DEF vars, Told, Coherently, Coherent, PlannerSpeaks, ToolsSpeak, Patient, Unspent,
              Blamed, Blames, Bears, Rendered, Current
<1>2. QED
  BY <1>1, ToldStarts, ToldOpens, ToldPlans, ToldChecks, ToldStored, ToldGuarded, ToldScreens,
     ToldExecutes, ToldChecksTool, ToldStoresTool, ToldFinish DEF Next, RunnerStep

LEMMA ToldInit == Init => Told
  BY DEF Init, Told, Coherently, Patient, Blamed, Rendered, Planned

LEMMA ToldAlways == Spec => []Told
  BY ToldInit, ToldStep, TypedAlways, OrderedAlways, LastStepAlways, ScreenedAlways,
     TracedAlways, PTL DEF Spec

(* What the invariants say of a finished run's steps.                      *)
LEMMA FinishedSteps ==
  ASSUME Typed, Screened, Traced, LastStep, Told, pc = "done"
  PROVE  /\ steps \in Seq(StepType)
         /\ \A i \in DOMAIN steps :
              /\ steps[i] \in StepType /\ Coherent(steps[i])
              /\ i # Len(steps) => steps[i].reply # None
              /\ i = Len(steps) => steps[i] = Current /\ steps # << >>
              /\ steps[i].reply # None => steps[i].tool \in Registered /\ ExecutedFor(steps[i])
         /\ result.reason \in {"completed", "guardrail_triggered"} =>
              steps # << >> /\ Len(steps) \in DOMAIN steps
<1>1. /\ steps \in Seq(StepType)
      /\ \A i \in DOMAIN steps : steps[i] \in StepType
      /\ steps # << >> => Len(steps) \in DOMAIN steps
  BY DEF Typed, TypeOK
<1>2. ASSUME NEW i \in DOMAIN steps
      PROVE  /\ Coherent(steps[i])
             /\ i # Len(steps) => steps[i].reply # None
             /\ i = Len(steps) => steps[i] = Current /\ steps # << >>
  BY DEF Told, Coherently, Current
<1>3. ASSUME NEW i \in DOMAIN steps, steps[i].reply # None
      PROVE  steps[i].tool \in Registered /\ ExecutedFor(steps[i])
  <2>1. ExecutedFor(steps[i])
    BY <1>3 DEF Traced
  <2>2. PICK j \in DOMAIN executed : executed[j][1] = steps[i].tool
    BY <2>1 DEF ExecutedFor
  <2>3. executed[j] \in ValidCalls
    BY DEF Screened, ScreenedExecution
  <2>4. QED
    BY <2>1, <2>2, <2>3, RunnerAssumption
<1>4. result.reason \in {"completed", "guardrail_triggered"} => steps # << >>
  BY DEF Told, Blamed, Blames
<1>5. QED
  BY <1>1, <1>2, <1>3, <1>4

(* The phase of a tool is none of the runner's own phases.                 *)
LEMMA PhasesOfTools ==
  ASSUME NEW n \in Names
  PROVE  PhaseOf[n] \in ToolPhases \cup {None} /\ PhaseOf[n] # "final_validation"
BY RunnerAssumption DEF ToolPhases, Phases

(* The steps of the last phase are the failed planner calls that were made *)
(* in its name, and a completed last step.                                 *)
LEMMA FinalSteps ==
  ASSUME Typed, Screened, Traced, LastStep, Told, pc = "done", NEW i \in StepsIn("final_validation")
  PROVE  /\ i = Len(steps) /\ steps[i] = Current /\ steps # << >> /\ Coherent(Current)
         /\ Current.phase # None \/ Current.state = "completed"
<1>1. /\ i \in DOMAIN steps /\ steps[i] \in StepType /\ Coherent(steps[i])
      /\ i # Len(steps) => steps[i].reply # None
      /\ i = Len(steps) => steps[i] = Current /\ steps # << >>
  BY FinishedSteps DEF StepsIn
<1>2. steps[i].phase # None \/ steps[i].state = "completed"
  <2>1. PhaseOfStep(steps[i]) = "final_validation" /\ None # "final_validation"
    BY RunnerAssumption DEF StepsIn, Phases
  <2>2. steps[i].tool # None => PhaseOf[steps[i].tool] # "final_validation"
    BY <1>1, PhasesOfTools DEF StepType
  <2>3. QED
    BY <2>1, <2>2 DEF PhaseOfStep
<1>3. steps[i].reply = None
  BY <1>1, <1>2 DEF Coherent
<1>4. QED
  BY <1>1, <1>2, <1>3

(* The last phase tells how the run ended, for every planner whose         *)
(* exceptions carry a message.                                             *)
THEOREM FinalValidationIsTrue ==
  ASSUME PlannerSpeaks
  PROVE  Spec => []FinalValidationTellsTheEnd
<1>1. ASSUME Typed, Screened, Traced, LastStep, Told PROVE FinalValidationTellsTheEnd
  <2> SUFFICES ASSUME pc = "done"
               PROVE  /\ FinalValidation = "completed" <=> result.reason = "completed"
                      /\ result.reason = "guardrail_triggered" => FinalValidation = "failed"
                      /\ FinalValidation = "failed" =>
                           result.reason \in {"guardrail_triggered", "llm_error"}
    BY DEF FinalValidationTellsTheEnd
  <2>1. ASSUME NEW i \in StepsIn("final_validation")
        PROVE  \/ steps[i].error /\ result.reason = "llm_error"
               \/ ~steps[i].error /\ result.reason \in {"completed", "guardrail_triggered"}
    <3>1. /\ steps[i] = Current /\ steps # << >> /\ Coherent(Current)
          /\ Current.phase # None \/ Current.state = "completed"
      BY <1>1, FinalSteps
    <3>2. CASE Current.phase # None
      BY <1>1, <3>1, <3>2 DEF Coherent, Told, Blamed, Blames, Bears
    <3>3. CASE Current.state = "completed"
      BY <1>1, <3>1, <3>3 DEF Coherent, LastStep, Tells
    <3>4. QED
      BY <3>1, <3>2, <3>3
  <2>2. ASSUME result.reason = "completed" PROVE StepsIn("final_validation") # {}
    <3>1. /\ steps # << >> /\ Len(steps) \in DOMAIN steps
          /\ steps[Len(steps)] = Current /\ Coherent(Current)
      BY <1>1, <2>2, FinishedSteps DEF Current
    <3>2. Current.state = "completed"
      BY <1>1, <2>2, <3>1 DEF LastStep, Tells
    <3>3. PhaseOfStep(Current) = "final_validation"
      BY <3>1, <3>2 DEF Coherent, PhaseOfStep
    <3>4. QED
      BY <3>1, <3>3 DEF StepsIn
  <2>3. QED
    BY <2>1, <2>2 DEF FinalValidation
<1>2. QED
  BY <1>1, TypedAlways, ScreenedAlways, TracedAlways, LastStepAlways, ToldAlways, PTL

(* A phase that is shown as completed had a tool executed in it, one that  *)
(* had a tool executed is not shown as skipped, and the phase of the tool  *)
(* whose errors ended the run is shown as failed, for all ports whose      *)
(* exceptions carry a message.                                             *)
THEOREM ToolPhasesAreTrue ==
  ASSUME PlannerSpeaks, ToolsSpeak
  PROVE  Spec => []ToolPhasesTellWhatRan
<1>1. ASSUME Typed, Screened, Traced, LastStep, Told, pc = "done",
             NEW phase \in ReportedPhases \ {"final_validation"}
      PROVE  LET wasExecuted == \E j \in DOMAIN executed : PhaseOf[executed[j][1]] = phase
             IN  /\ Status(phase) = "completed" => wasExecuted
                 /\ wasExecuted => Status(phase) # "skipped"
  <2>1. phase # None /\ phase # "final_validation" /\ Status(phase) = ToolPhase(phase)
    BY RunnerAssumption DEF ReportedPhases, Status
  <2>2. ASSUME NEW i \in StepsIn(phase), ~FailsPhase(steps[i])
        PROVE  \E j \in DOMAIN executed : PhaseOf[executed[j][1]] = phase
    <3>1. /\ Coherent(steps[i]) /\ ~steps[i].error
          /\ steps[i].reply # None => ExecutedFor(steps[i])
      BY <1>1, <2>2, FinishedSteps DEF StepsIn, FailsPhase
    <3>2. steps[i].phase = None
      BY <3>1 DEF Coherent
    <3>3. steps[i].tool # None /\ PhaseOf[steps[i].tool] = phase
      BY <2>1, <2>2, <3>2 DEF StepsIn, PhaseOfStep
    <3>4. ExecutedFor(steps[i])
      BY <3>1, <3>3 DEF Coherent
    <3>5. QED
      BY <3>3, <3>4 DEF ExecutedFor
  <2>3. Status(phase) = "completed" => \E i \in StepsIn(phase) : ~FailsPhase(steps[i])
    BY <2>1 DEF ToolPhase
  <2>4. ASSUME NEW j \in DOMAIN executed, PhaseOf[executed[j][1]] = phase
        PROVE  StepsIn(phase) # {}
    <3>1. PICK i \in DOMAIN steps : steps[i].tool = executed[j][1]
      BY <1>1 DEF Told, Rendered
    <3>2. executed[j] \in Calls
      BY <1>1 DEF Typed, TypeOK
    <3>3. steps[i].tool # None
      BY <3>1, <3>2, RunnerAssumption DEF Calls
    <3>4. steps[i].phase = None
      BY <1>1, <3>3, FinishedSteps DEF Coherent
    <3>5. PhaseOfStep(steps[i]) = phase
      BY <2>1, <2>4, <3>1, <3>3, <3>4 DEF PhaseOfStep
    <3>6. QED
      BY <3>5 DEF StepsIn
  <2>5. StepsIn(phase) # {} => Status(phase) # "skipped"
    BY <2>1 DEF ToolPhase
  <2>6. QED
    BY <2>2, <2>3, <2>4, <2>5
<1>2. ASSUME Typed, Screened, Traced, LastStep, Told, pc = "done",
             result.reason = "tool_error_limit", steps # << >>
      PROVE  /\ Current.tool # None
             /\ EveryToolHasAPhase => Status(PhaseOf[Current.tool]) = "failed"
  <2>1. /\ Current.tool \in Registered
        /\ Current.reply # None => Current.error \/ ~Current.reply.ok
    BY <1>2 DEF Told, Blamed, Blames, Bears
  <2>2. Len(steps) \in DOMAIN steps /\ steps[Len(steps)] = Current
    BY <1>2 DEF Typed, TypeOK, Current
  <2>3. Coherent(Current) /\ Current.tool # None /\ Current.tool \in Names
    BY <1>2, <2>1, <2>2, FinishedSteps, RunnerAssumption
  <2>4. FailsPhase(Current) /\ Current.phase = None
    BY <2>1, <2>3 DEF FailsPhase, Coherent
  <2>5. ASSUME EveryToolHasAPhase PROVE Status(PhaseOf[Current.tool]) = "failed"
    <3> DEFINE phase == PhaseOf[Current.tool]
    <3>1. phase # None /\ phase # "final_validation"
      BY <2>1, <2>3, <2>5, PhasesOfTools DEF EveryToolHasAPhase
    <3>2. PhaseOfStep(Current) = phase
      BY <2>3, <2>4, <3>1 DEF PhaseOfStep
    <3>3. Len(steps) \in StepsIn(phase)
      BY <2>2, <3>2 DEF StepsIn
    <3> HIDE DEF phase
    <3>4. Status(phase) = "failed"
      BY <2>2, <2>4, <3>1, <3>3 DEF Status, ToolPhase
    <3>5. QED
      BY <3>4 DEF phase
  <2>6. QED
    BY <2>3, <2>5
<1>3. Typed /\ Screened /\ Traced /\ LastStep /\ Told => ToolPhasesTellWhatRan
  BY <1>1, <1>2 DEF ToolPhasesTellWhatRan
<1>4. QED
  BY <1>3, TypedAlways, ScreenedAlways, TracedAlways, LastStepAlways, ToldAlways, PTL

-----------------------------------------------------------------------------
(* The usage that is shown, phase by phase.                                *)
ShownTokens == [phase \in Phases |-> PhaseTokens(phase)]
StepsOf(P) == {i \in DOMAIN steps : PhaseOfStep(steps[i]) \in P}
AddsUp(P) == Total(P, ShownTokens) = Total(StepsOf(P), StepTokens)

LEMMA StepTokensAreNaturals ==
  ASSUME Typed
  PROVE  /\ \A i \in DOMAIN steps : StepTokens[i] \in Nat
         /\ \A I \in SUBSET DOMAIN steps :
              IsFiniteSet(I) /\ Total(I, StepTokens) \in Nat
         /\ \A phase \in Phases : ShownTokens[phase] = Total(StepsIn(phase), StepTokens)
         /\ \A phase \in Phases : ShownTokens[phase] \in Nat
<1>1. ASSUME NEW i \in DOMAIN steps PROVE StepTokens[i] \in Nat
  <2>1. StepTokens[i] = steps[i].tokens /\ steps[i] \in StepType
    BY DEF Typed, TypeOK, StepTokens
  <2>2. QED
    BY <2>1 DEF StepType
<1>2. ASSUME NEW I \in SUBSET DOMAIN steps
      PROVE  IsFiniteSet(I) /\ Total(I, StepTokens) \in Nat
  <2>1. DOMAIN steps = 1..Len(steps) /\ Len(steps) \in Nat
    BY DEF Typed, TypeOK
  <2>2. IsFiniteSet(DOMAIN steps)
    BY <2>1, FS_Interval
  <2>3. IsFiniteSet(I)
    BY <2>2, FS_Subset
  <2>4. QED
    BY <1>1, <2>3, UnitsAreFinite
<1>3. \A phase \in Phases : StepsIn(phase) \in SUBSET DOMAIN steps
  BY DEF StepsIn
<1>4. \A phase \in Phases : ShownTokens[phase] = Total(StepsIn(phase), StepTokens)
  BY DEF ShownTokens, PhaseTokens
<1>5. QED
  BY <1>1, <1>2, <1>3, <1>4

(* Two phases share no step.                                               *)
LEMMA PhasesAddUp ==
  ASSUME Typed, NEW P \in SUBSET Phases, IsFiniteSet(P), AddsUp(P),
         NEW phase \in Phases \ P
  PROVE  AddsUp(P \cup {phase}) /\ IsFiniteSet(P \cup {phase})
<1>1. IsFiniteSet({phase}) /\ P \cap {phase} = {}
  BY FS_Singleton, Zenon
<1>2. \A p \in P \cup {phase} : ShownTokens[p] \in Nat
  BY StepTokensAreNaturals
<1>3. Total(P \cup {phase}, ShownTokens) = Total(P, ShownTokens) + Total({phase}, ShownTokens)
  BY <1>1, <1>2, TotalOfBoth
<1>4. Total({phase}, ShownTokens) = Total(StepsIn(phase), StepTokens)
  BY <1>2, TotalOfOne, StepTokensAreNaturals
<1>5. /\ StepsOf(P \cup {phase}) = StepsOf(P) \cup StepsIn(phase)
      /\ StepsOf(P) \cap StepsIn(phase) = {}
      /\ StepsOf(P) \in SUBSET DOMAIN steps /\ StepsIn(phase) \in SUBSET DOMAIN steps
  BY DEF StepsOf, StepsIn
<1>6. /\ IsFiniteSet(StepsOf(P)) /\ IsFiniteSet(StepsIn(phase))
      /\ \A i \in StepsOf(P) \cup StepsIn(phase) : StepTokens[i] \in Nat
  BY <1>5, StepTokensAreNaturals
<1>7. Total(StepsOf(P) \cup StepsIn(phase), StepTokens)
        = Total(StepsOf(P), StepTokens) + Total(StepsIn(phase), StepTokens)
  BY <1>5, <1>6, TotalOfBoth
<1>8. IsFiniteSet(P \cup {phase})
  BY <1>1, FS_Union
<1>9. QED
  BY <1>3, <1>4, <1>5, <1>7, <1>8 DEF AddsUp

LEMMA AllPhasesAddUp ==
  ASSUME Typed
  PROVE  AddsUp(Phases)
<1> DEFINE P1 == {} \cup {"scenario_selection"}
           P2 == P1 \cup {"learner_context"}
           P3 == P2 \cup {"knowledge_retrieval"}
           P4 == P3 \cup {"practice_branch"}
           P5 == P4 \cup {"final_validation"}
<1>1. AddsUp({}) /\ IsFiniteSet({})
  <2>1. StepsOf({}) = {}
    BY DEF StepsOf
  <2>2. QED
    BY <2>1, TotalOfNone, FS_EmptySet DEF AddsUp
<1>2. AddsUp(P1) /\ IsFiniteSet(P1)
  BY <1>1, PhasesAddUp DEF Phases
<1>3. AddsUp(P2) /\ IsFiniteSet(P2)
  BY <1>2, PhasesAddUp DEF Phases
<1>4. AddsUp(P3) /\ IsFiniteSet(P3)
  BY <1>3, PhasesAddUp DEF Phases
<1>5. AddsUp(P4) /\ IsFiniteSet(P4)
  BY <1>4, PhasesAddUp DEF Phases
<1>6. AddsUp(P5)
  BY <1>5, PhasesAddUp DEF Phases
<1>7. P5 = Phases
  BY DEF Phases
<1>8. QED
  BY <1>6, <1>7

(* The phases of a finished run show its whole usage, but for that of a    *)
(* last step that was stopped before its tool was known or executed.       *)
THEOREM PhasesAccountForTheUsage == Spec => []PhasesShowTheUsage
<1>1. ASSUME Typed, Screened, Traced, LastStep, Ledger, Told, pc = "done", EveryToolHasAPhase
      PROVE  LET shown == Total(Phases, ShownTokens)
             IN  \/ shown = run.tokens
                 \/ /\ shown + Current.tokens = run.tokens
                    /\ Current.reply = None
                    /\ result.reason \notin {"completed", "guardrail_triggered"}
  <2> DEFINE Rest == DOMAIN steps \ StepsOf(Phases)
  <2>1. Total(Phases, ShownTokens) = Total(StepsOf(Phases), StepTokens)
    BY <1>1, AllPhasesAddUp DEF AddsUp
  <2>2. run.tokens = Total(DOMAIN steps, StepTokens)
    BY <1>1 DEF Ledger
  <2>3. StepsOf(Phases) \cup Rest = DOMAIN steps /\ StepsOf(Phases) \cap Rest = {}
        /\ StepsOf(Phases) \in SUBSET DOMAIN steps /\ Rest \in SUBSET DOMAIN steps
    BY DEF StepsOf
  <2>4. ASSUME NEW i \in Rest
        PROVE  /\ i = Len(steps) /\ steps[i] = Current /\ Current.reply = None
               /\ Current.state # "completed" /\ steps # << >>
    <3>1. /\ i \in DOMAIN steps /\ steps[i] \in StepType /\ Coherent(steps[i])
          /\ i # Len(steps) => steps[i].reply # None
          /\ i = Len(steps) => steps[i] = Current /\ steps # << >>
          /\ steps[i].reply # None => steps[i].tool \in Registered
      BY <1>1, <2>3, FinishedSteps
    <3>2. PhaseOfStep(steps[i]) \notin Phases
      BY <3>1 DEF StepsOf
    <3>3. steps[i].phase = None /\ steps[i].state # "completed"
      BY <3>1, <3>2 DEF PhaseOfStep, StepType, Phases, Coherent
    <3>4. ASSUME steps[i].reply # None PROVE FALSE
      <4>1. steps[i].tool \in Registered /\ steps[i].tool \in Names /\ steps[i].tool # None
        BY <3>1, <3>4, RunnerAssumption
      <4>2. PhaseOf[steps[i].tool] \in Phases /\ PhaseOf[steps[i].tool] # None
        BY <1>1, <4>1, PhasesOfTools DEF EveryToolHasAPhase, ToolPhases, Phases
      <4>3. QED
        BY <3>2, <3>3, <4>1, <4>2 DEF PhaseOfStep
    <3>5. QED
      BY <3>1, <3>3, <3>4
  <2>5. IsFiniteSet(StepsOf(Phases)) /\ IsFiniteSet(Rest)
        /\ \A i \in StepsOf(Phases) \cup Rest : StepTokens[i] \in Nat
    BY <1>1, <2>3, StepTokensAreNaturals
  <2> HIDE DEF Rest
  <2>6. run.tokens = Total(StepsOf(Phases), StepTokens) + Total(Rest, StepTokens)
    BY <2>2, <2>3, <2>5, TotalOfBoth
  <2>7. Total(StepsOf(Phases), StepTokens) \in Nat
    BY <1>1, <2>3, StepTokensAreNaturals
  <2>8. CASE Rest = {}
    BY <2>1, <2>6, <2>7, <2>8, TotalOfNone
  <2>9. CASE Rest # {}
    <3>1. PICK i : i \in Rest
      BY <2>9
    <3>2. /\ i = Len(steps) /\ steps[i] = Current /\ Current.reply = None
          /\ Current.state # "completed" /\ steps # << >>
      BY <2>4, <3>1
    <3>3. Rest = {i}
      BY <2>4, <3>1, <3>2
    <3>4. StepTokens[i] = Current.tokens /\ StepTokens[i] \in Nat
      BY <2>3, <2>5, <3>1, <3>2 DEF StepTokens
    <3>5. Total(Rest, StepTokens) = Current.tokens
      BY <3>3, <3>4, TotalOfOne
    <3>6. result.reason \notin {"completed", "guardrail_triggered"}
      BY <1>1, <3>2 DEF LastStep, Tells
    <3>7. QED
      BY <2>1, <2>6, <3>2, <3>5, <3>6
  <2>10. QED
    BY <2>8, <2>9
<1>2. Typed /\ Screened /\ Traced /\ LastStep /\ Ledger /\ Told => PhasesShowTheUsage
  BY <1>1 DEF PhasesShowTheUsage, ShownTokens
<1>3. QED
  BY <1>2, TypedAlways, ScreenedAlways, TracedAlways, LastStepAlways, LedgerAlways, ToldAlways,
     PTL
=============================================================================
