--------------------------- MODULE LiveRunProofs ---------------------------
(***************************************************************************)
(* Theorems about LiveRun, for every set of tools and requests and every   *)
(* provider: whatever it answers, run after run.                           *)
(***************************************************************************)
EXTENDS LiveRun, RunStoreProofs

(* What the runner's own proofs say of every state of a run.  A live run   *)
(* is a run of AgentRunner, begun again when the last one is over.         *)
Sane == Typed /\ Ordered /\ LastStep /\ Screened /\ Traced /\ Told

LEMMA SaneInit == Init => Sane
<1> SUFFICES ASSUME Init PROVE Sane
  OBVIOUS
<1>1. Typed /\ Told
  BY TypedInit, ToldInit
<1>2. Ordered
  BY DEF Init, Ordered, Logged, InOrder, Unstarted, Open, InStep
<1>3. LastStep
  BY DEF Init, LastStep, NewRun
<1>4. Screened
  BY DEF Init, Screened, ScreenedExecution, Elements
<1>5. Traced
  BY DEF Init, Traced, Calling
<1>6. QED
  BY <1>1, <1>2, <1>3, <1>4, <1>5 DEF Sane

LEMMA SaneStep ==
  ASSUME Sane, [Next]_vars
  PROVE  Sane'
BY TypedStep, OrderedStep, LastStepStep, ScreenedStep, TracedStep, ToldStep DEF Sane

-----------------------------------------------------------------------------
(* The planner's part of a step is one the runner's planner port may take. *)

LEMMA FirstOfMany ==
  ASSUME NEW T, NEW s \in Seq(T), s # << >>
  PROVE  s[1] \in T
OBVIOUS

LEMMA ResponseTypes ==
  ASSUME NEW r \in Responses
  PROVE  /\ r.usage \in Usage
         /\ \A role \in {"planner", "synthesizer"} :
              /\ Planner!DecisionOf(role, r) \in Decisions
              /\ Planner!RolePhase(role) \in Phases
         /\ Planner!FailureUsage(r) \in Usage
<1>1. r \in ResponseType
  BY LiveAssumption
<1>2. /\ r.usage \in Usage /\ r.cites \in SUBSET Marks
      /\ r.abstains \in BOOLEAN /\ r.empty \in BOOLEAN
      /\ r.calls \in Seq([id : CallIds, call : Calls])
  BY <1>1 DEF ResponseType
<1>3. ASSUME NEW role \in {"planner", "synthesizer"}
      PROVE  Planner!DecisionOf(role, r) \in Decisions
  <2>1. CASE r.calls # << >>
    <3>1. r.calls[1] \in [id : CallIds, call : Calls]
      BY <1>2, <2>1, FirstOfMany, Zenon
    <3>2. r.calls[1].call \in Calls
      BY <3>1
    <3>3. QED
      BY <2>1, <3>2 DEF Planner!DecisionOf, Decisions
  <2>2. CASE r.calls = << >>
    BY <1>2, <2>2 DEF Planner!DecisionOf, Decisions
  <2>3. QED
    BY <2>1, <2>2
<1>4. \A role \in {"planner", "synthesizer"} : Planner!RolePhase(role) \in Phases
  BY DEF Planner!RolePhase, Phases
<1>5. Planner!FailureUsage(r) \in Usage
  BY <1>2, LiveAssumption DEF Planner!FailureUsage, Usage
<1>6. QED
  BY <1>2, <1>3, <1>4, <1>5

LEMMA RoleTypes == CurrentRole \in {"planner", "synthesizer"}
  BY DEF CurrentRole, Planner!Role

LEMMA FailureTypes ==
  ASSUME NEW role \in {"planner", "synthesizer"}, NEW tokens \in Usage
  PROVE  Failure(role, tokens) \in PlannerFailures
<1>1. Planner!RolePhase(role) \in Phases
  BY DEF Planner!RolePhase, Phases
<1>2. TRUE \in Says("planner")
  BY DEF Says
<1>3. QED
  BY <1>1, <1>2 DEF Failure, PlannerFailures

(* A step that the planner takes part in.                                  *)
PlannerPart ==
  \/ \E f \in PlannerFailures : PlannerRaises(f)
  \/ \E p \in PlannerResults : PlannerReturns(p)

LEMMA AnswersArePlannerSteps ==
  ASSUME NEW r \in Responses, ProviderAnswers(r)
  PROVE  PlannerPart
<1>1. CASE \E role \in {"planner", "synthesizer"} : PlannerRaises(Failure(role, Planner!FailureUsage(r)))
  BY <1>1, ResponseTypes, FailureTypes DEF PlannerPart
<1>2. CASE \E role \in {"planner", "synthesizer"} :
             PlannerReturns([decision |-> Planner!DecisionOf(role, r), cloud |-> TRUE,
                             tokens |-> r.usage])
  <2>1. PICK role \in {"planner", "synthesizer"} :
             PlannerReturns([decision |-> Planner!DecisionOf(role, r), cloud |-> TRUE,
                             tokens |-> r.usage])
    BY <1>2
  <2>2. [decision |-> Planner!DecisionOf(role, r), cloud |-> TRUE, tokens |-> r.usage]
          \in PlannerResults
    BY ResponseTypes DEF PlannerResults
  <2>3. QED
    BY <2>1, <2>2 DEF PlannerPart
<1>3. QED
  BY <1>1, <1>2, RoleTypes DEF ProviderAnswers

LEMMA FailuresArePlannerSteps ==
  ASSUME RequiredToolIsUnknown \/ ProviderFails
  PROVE  PlannerPart
<1>1. 0 \in Usage
  BY LiveAssumption DEF Usage
<1>2. CASE ProviderFails
  BY <1>1, <1>2, RoleTypes, FailureTypes DEF ProviderFails, PlannerPart
<1>3. CASE RequiredToolIsUnknown
  <2>1. [phase |-> None, cloud |-> FALSE, tokens |-> 0, said |-> TRUE] \in PlannerFailures
    BY <1>1 DEF PlannerFailures, Says
  <2>2. QED
    BY <1>3, <2>1 DEF RequiredToolIsUnknown, PlannerPart
<1>4. QED
  BY <1>2, <1>3

LEMMA LiveStepOfRunner ==
  ASSUME [LiveNext]_liveVars
  PROVE  [Next]_vars \/ Init'
<1>1. CASE RunnerAlone \/ ResetLivePlanner
  BY <1>1 DEF RunnerAlone, ResetLivePlanner, Next, RunnerStep
<1>2. CASE RequiredToolIsUnknown \/ ProviderFails \/ \E r \in Responses : ProviderAnswers(r)
  BY <1>2, FailuresArePlannerSteps, AnswersArePlannerSteps DEF PlannerPart, Next, RunnerStep
<1>3. CASE NextRun
  BY <1>3 DEF NextRun, Init
<1>4. CASE UNCHANGED liveVars
  BY <1>4 DEF liveVars
<1>5. QED
  BY <1>1, <1>2, <1>3, <1>4 DEF LiveNext

LEMMA SaneAlways == LiveSpec => []Sane
<1>1. LiveInit => Init
  BY DEF LiveInit
<1>2. Sane /\ [LiveNext]_liveVars => Sane' \/ Init'
  BY LiveStepOfRunner, SaneStep
<1>3. QED
  BY <1>1, <1>2, SaneInit, PTL DEF LiveSpec

(* What is proved of the runner holds of a live run: with a planner that   *)
(* keeps a conversation, in the first run and in every later one, tools    *)
(* are executed as screened, the store is offered what happened, and the   *)
(* answer is grounded in what was stored or is a fallback.                 *)
THEOREM RunnerHoldsLive ==
  LiveSpec => [](/\ TypeOK /\ ScreenedExecution /\ StoreOrder /\ StoredStepsAreFinal
                 /\ SourcesComeFromStoredSteps /\ GroundedOnStoredEvidence
                 /\ GroundedOrFallback)
<1> DEFINE More == Final /\ Quoted /\ Abstained /\ Sourced
<1>1. Init => More
  BY SourcedInit DEF Init, Final, Kept, Failing, Refusal, Quoted,
     Abstained, EndsWithFallback, GroundedOrFallback
<1>2. LiveInit => Init
  BY DEF LiveInit
<1>3. Sane /\ Sane' /\ More /\ [LiveNext]_liveVars => More' \/ Init'
  BY LiveStepOfRunner, FinalStep, QuotedStep, AbstainedStep, SourcedStep DEF Sane
<1>4. Sane /\ More =>
        /\ TypeOK /\ ScreenedExecution /\ StoreOrder /\ StoredStepsAreFinal
        /\ SourcesComeFromStoredSteps /\ GroundedOnStoredEvidence
        /\ GroundedOrFallback
  <2> SUFFICES ASSUME Sane, More
               PROVE  /\ TypeOK /\ ScreenedExecution /\ StoreOrder /\ StoredStepsAreFinal
                      /\ SourcesComeFromStoredSteps /\ GroundedOnStoredEvidence
                      /\ GroundedOrFallback
    OBVIOUS
  <2>1. TypeOK /\ ScreenedExecution /\ GroundedOrFallback
    BY DEF Sane, Typed, Screened, Abstained
  <2>2. StoreOrder
    BY DEF Sane, Ordered, Logged, InOrder, StoreOrder
  <2>3. StoredStepsAreFinal
    BY DEF Sane, LastStep, Final, Kept, Failing, Refusal, Tells, Stops, StoredStepsAreFinal
  <2>4. SourcesComeFromStoredSteps
    BY DEF Sourced
  <2>5. GroundedOnStoredEvidence
    BY QuotedIsStored DEF Sane
  <2>6. QED
    BY <2>1, <2>2, <2>3, <2>4, <2>5
<1>5. QED
  BY <1>1, <1>2, <1>3, <1>4, SaneAlways, PTL DEF LiveSpec

-----------------------------------------------------------------------------
(* The replies of the tools.  Only a tool that returns adds one; all other *)
(* steps of a run keep those there are.                                    *)
KeepsReplies ==
  /\ Observed' = Observed
  /\ \A i \in Observed : steps'[i].reply = steps[i].reply

LEMMA ObservedSteps ==
  ASSUME Typed, NEW i \in Observed
  PROVE  i \in DOMAIN steps /\ i \in Nat \ {0} /\ steps[i].reply \in ToolReplies
<1>1. i \in DOMAIN steps /\ steps[i].reply # None /\ steps \in Seq(StepType)
  BY DEF Observed, Typed, TypeOK
<1>2. steps[i] \in StepType /\ i \in Nat \ {0}
  BY <1>1
<1>3. QED
  BY <1>1, <1>2 DEF StepType

LEMMA QuietlyKept ==
  ASSUME UNCHANGED steps
  PROVE  KeepsReplies
BY DEF KeepsReplies, Observed

LEMMA WritingKeeps ==
  ASSUME Typed, pc \in InStep, NEW s \in StepType, s.reply = Current.reply, UpdateStep(s)
  PROVE  KeepsReplies
<1>1. /\ Len(steps) \in DOMAIN steps /\ DOMAIN steps' = DOMAIN steps
      /\ steps'[Len(steps)] = s
      /\ \A i \in DOMAIN steps : i # Len(steps) => steps'[i] = steps[i]
  BY OpenStepWritten
<1>2. \A i \in DOMAIN steps : steps'[i].reply = steps[i].reply
  BY <1>1 DEF Current
<1>3. QED
  BY <1>1, <1>2 DEF KeepsReplies, Observed

LEMMA OpeningKeeps ==
  ASSUME Typed, steps' = Append(steps, NewStep)
  PROVE  KeepsReplies
<1> DEFINE n == Len(steps) + 1
<1>1. /\ DOMAIN steps' = DOMAIN steps \cup {n} /\ n \notin DOMAIN steps
      /\ steps'[n] = NewStep
      /\ \A i \in DOMAIN steps : steps'[i] = steps[i]
  BY DEF Typed, TypeOK
<1>2. NewStep.reply = None
  BY DEF NewStep
<1> HIDE DEF n
<1>3. QED
  BY <1>1, <1>2 DEF KeepsReplies, Observed

(* What the runner writes to the open step when no tool returns.           *)
LEMMA PlannerPartWrites ==
  ASSUME Typed, PlannerPart
  PROVE  \E s : Carries(s) /\ UpdateStep(s)
<1>1. pc = "plan" /\ pc \in InStep
  BY DEF PlannerPart, PlannerRaises, PlannerReturns, InStep
<1>2. Carries(Current)
  BY <1>1, OpenStep DEF Carries
<1>3. ASSUME NEW f \in PlannerFailures, PlannerRaises(f)
      PROVE  \E s : Carries(s) /\ UpdateStep(s)
  <2>1. /\ f.phase \in Phases \cup {None} /\ f.cloud \in BOOLEAN /\ f.said \in BOOLEAN
        /\ Counted(f.tokens) \in Nat
    BY CountedType DEF PlannerFailures, Says
  <2> DEFINE s == [Current EXCEPT !.phase = f.phase, !.cloud = f.cloud,
                                  !.tokens = Counted(f.tokens)]
             t == StoppedBy(s, f.said \/ f.tokens = Malformed)
  <2>2. Carries(s)
    BY <1>2, <2>1, StoppingCarries
  <2>3. Carries(t)
    <3> HIDE DEF s
    <3>1. QED
      BY <2>1, <2>2, StoppingCarries
  <2>4. UpdateStep(t)
    BY <1>3 DEF PlannerRaises, EndWith
  <2> HIDE DEF t
  <2>5. QED
    BY <2>3, <2>4
<1>4. ASSUME NEW p \in PlannerResults, PlannerReturns(p)
      PROVE  \E s : Carries(s) /\ UpdateStep(s)
  <2>1. p.cloud \in BOOLEAN /\ Counted(p.tokens) \in Nat
    BY CountedType DEF PlannerResults
  <2> DEFINE s == [Current EXCEPT !.cloud = p.cloud, !.tokens = Counted(p.tokens)]
  <2>2. Carries(s)
    BY <1>2, <2>1, StoppingCarries
  <2>3. UpdateStep(Stopped(s)) \/ UpdateStep(s)
    BY <1>4 DEF PlannerReturns, EndWith
  <2> HIDE DEF s
  <2>4. QED
    BY <2>2, <2>3, StoppingCarries
<1>5. QED
  BY <1>3, <1>4 DEF PlannerPart

LEMMA CarryingKeeps ==
  ASSUME Typed, pc \in InStep, UNCHANGED steps \/ \E s : Carries(s) /\ UpdateStep(s)
  PROVE  KeepsReplies
<1>1. ASSUME NEW s, Carries(s), UpdateStep(s) PROVE KeepsReplies
  BY <1>1, WritingKeeps DEF Carries
<1>2. QED
  BY <1>1, QuietlyKept

LEMMA PlannerPartKeeps ==
  ASSUME Typed, PlannerPart
  PROVE  KeepsReplies
<1>1. pc \in InStep
  BY DEF PlannerPart, PlannerRaises, PlannerReturns, InStep
<1>2. QED
  BY <1>1, PlannerPartWrites, CarryingKeeps

LEMMA ScreeningKeeps ==
  ASSUME Typed, ScreenToolCall
  PROVE  KeepsReplies
<1> DEFINE call == decision.call
           s == [Current EXCEPT !.state = "tool_call", !.tool = call[1]]
<1>1. /\ pc = "tool_call" /\ pc \in InStep /\ decision \in Decisions
      /\ decision.action = "tool_call"
  BY DEF ScreenToolCall, InStep, Typed, Shape
<1>2. call[1] \in Names
  BY <1>1 DEF Decisions, Calls
<1>3. s \in StepType /\ s.reply = Current.reply
  BY <1>1, <1>2, OpenStep DEF StepType, AgentStates
<1>4. /\ [s EXCEPT !.state = "needs_human", !.error = TRUE] \in StepType
      /\ [s EXCEPT !.state = "needs_human", !.error = TRUE].reply = s.reply
      /\ \A said \in BOOLEAN :
           StoppedBy(s, said) \in StepType /\ StoppedBy(s, said).reply = s.reply
  <2> HIDE DEF s
  <2>1. QED
    BY <1>3 DEF StoppedBy, Stopped, StepType, AgentStates
<1>5. \E t \in StepType : t.reply = Current.reply /\ UpdateStep(t)
  <2>1. CASE Objection(call) = Continue
    BY <1>3, <2>1 DEF ScreenToolCall
  <2>2. CASE Objection(call) = "needs_human"
    <3>1. UpdateStep([s EXCEPT !.state = "needs_human", !.error = TRUE])
      BY <2>2 DEF ScreenToolCall, EndToolStep, Continue
    <3> HIDE DEF s
    <3>2. QED
      BY <1>3, <1>4, <3>1
  <2>3. CASE Objection(call) \notin {Continue, "needs_human"}
    <3>1. PICK said \in BOOLEAN : UpdateStep(StoppedBy(s, said))
      BY <2>3 DEF ScreenToolCall, EndToolStep, Says
    <3> HIDE DEF s
    <3>2. QED
      BY <1>3, <1>4, <3>1
  <2>4. QED
    BY <2>1, <2>2, <2>3
<1>6. QED
  BY <1>1, <1>5, WritingKeeps

(* The steps of the runner alone, but the return of a tool.                *)
RunnerAside ==
  \/ \E r \in Requests : Submit(r)
  \/ StartClock \/ RecordStarted \/ CheckBudget
  \/ CheckDecision \/ RecordStoppedStep \/ RecordAnswerStep \/ GuardAnswer
  \/ ScreenToolCall \/ ToolRaises
  \/ CheckToolStep \/ RecordToolStep \/ Finish

LEMMA AsideKeeps ==
  ASSUME Typed, RunnerAside
  PROVE  KeepsReplies
<1>1. CASE \/ \E r \in Requests : Submit(r)
           \/ StartClock \/ RecordStarted \/ GuardAnswer \/ Finish
  BY <1>1, QuietlyKept DEF Submit, StartClock, RecordStarted, GuardAnswer, Finish
<1>2. CASE CheckBudget
  BY <1>2, QuietlyKept, OpeningKeeps DEF CheckBudget
<1>3. CASE ScreenToolCall
  BY <1>3, ScreeningKeeps
<1>4. CASE \/ CheckDecision \/ RecordStoppedStep \/ RecordAnswerStep
           \/ ToolRaises \/ CheckToolStep \/ RecordToolStep
  <2>1. pc \in InStep
    BY <1>4 DEF CheckDecision, RecordStoppedStep, RecordAnswerStep, ToolRaises,
       CheckToolStep, RecordToolStep, InStep
  <2>2. Carries(Current) /\ Carries(Stopped(Current))
        /\ \A said \in BOOLEAN : Carries(StoppedBy(Current, said))
        /\ Carries([Current EXCEPT !.error = TRUE])
        /\ Carries([Current EXCEPT !.state = "stopped"])
        /\ Carries([Current EXCEPT !.state = "completed"])
    <3>1. Carries(Current)
      BY <2>1, OpenStep DEF Carries
    <3>2. QED
      BY <3>1, StoppingCarries DEF AgentStates
  <2>3. Carries(Stopped([Current EXCEPT !.state = "completed"]))
    BY <2>2, StoppingCarries
  <2>4. UNCHANGED steps \/ \E s : Carries(s) /\ UpdateStep(s)
    <3>1. CASE CheckDecision \/ RecordStoppedStep
      BY <2>2, <3>1 DEF CheckDecision, RecordStoppedStep, EndWith
    <3>2. CASE RecordAnswerStep
      BY <2>2, <2>3, <3>2 DEF RecordAnswerStep
    <3>3. CASE ToolRaises
      BY <2>2, <3>3 DEF ToolRaises, EndToolStep, Says
    <3>4. CASE CheckToolStep \/ RecordToolStep
      BY <2>2, <3>4 DEF CheckToolStep, RecordToolStep, EndToolStep
    <3>5. QED
      BY <1>4, <3>1, <3>2, <3>3, <3>4
  <2>5. QED
    BY <2>1, <2>4, CarryingKeeps
<1>5. QED
  BY <1>1, <1>2, <1>3, <1>4 DEF RunnerAside

(* A tool that returns adds the reply of the open step.                    *)
LEMMA ReturningAdds ==
  ASSUME Typed, Traced, NEW reply \in ToolReplies, ToolReturns(reply)
  PROVE  LET n == Len(steps)
         IN  /\ n \in DOMAIN steps /\ n \notin Observed /\ Observed' = Observed \cup {n}
             /\ steps'[n].reply = reply /\ Len(steps') = n
             /\ \A i \in Observed : steps'[i].reply = steps[i].reply
<1>1. pc = "execute" /\ pc \in InStep /\ Current.reply = None
  BY DEF ToolReturns, InStep, Traced, Calling
<1> DEFINE s == [Current EXCEPT !.reply = reply]
<1>2. Current \in StepType /\ s \in StepType /\ s.reply = reply
  BY <1>1, OpenStep DEF StepType
<1>3. \E t \in StepType : t.reply = reply /\ UpdateStep(t)
  <2>1. CASE reply.tokens = Malformed
    <3>1. UpdateStep(Stopped(s))
      BY <2>1 DEF ToolReturns, EndToolStep
    <3> HIDE DEF s
    <3>2. Stopped(s) \in StepType /\ Stopped(s).reply = reply
      BY <1>2, StoppedTypes DEF Stopped, StepType
    <3>3. QED
      BY <3>1, <3>2
  <2>2. CASE reply.tokens # Malformed
    <3>1. UpdateStep(WithToolUsage(s, reply))
      BY <2>2 DEF ToolReturns
    <3>2. reply \in ToolReplyType
      BY RunnerAssumption
    <3>3. reply.tokens \in Nat /\ reply.cost \in Nat
      BY <2>2, <3>2 DEF ToolReplyType
    <3> HIDE DEF s
    <3>4. s.tokens + reply.tokens \in Nat /\ s.cost + reply.cost \in Nat
      BY <1>2, <3>3 DEF StepType
    <3>5. \A a, b \in Nat : /\ [s EXCEPT !.tokens = a, !.cost = b] \in StepType
                           /\ [s EXCEPT !.tokens = a, !.cost = b].reply = reply
      BY <1>2 DEF StepType
    <3>6. WithToolUsage(s, reply) \in StepType /\ WithToolUsage(s, reply).reply = reply
      BY <3>4, <3>5 DEF WithToolUsage
    <3>7. QED
      BY <3>1, <3>6
  <2>3. QED
    BY <2>1, <2>2
<1>4. PICK t \in StepType : t.reply = reply /\ UpdateStep(t)
  BY <1>3
<1>5. /\ Len(steps) \in DOMAIN steps /\ DOMAIN steps' = DOMAIN steps
      /\ steps'[Len(steps)] = t /\ Len(steps') = Len(steps)
      /\ \A i \in DOMAIN steps : i # Len(steps) => steps'[i] = steps[i]
  BY <1>1, <1>4, OpenStepWritten
<1>6. reply # None
  BY RunnerAssumption
<1>7. Len(steps) \notin Observed
  BY <1>1 DEF Observed, Current
<1>8. Observed' = Observed \cup {Len(steps)}
  BY <1>4, <1>5, <1>6 DEF Observed
<1>9. \A i \in Observed : steps'[i].reply = steps[i].reply
  BY <1>5, <1>7 DEF Observed
<1>10. QED
  BY <1>4, <1>5, <1>7, <1>8, <1>9

-----------------------------------------------------------------------------
(* What the provider and the tools reported is what the run was charged.   *)
Replied == [i \in Observed |-> Counted(steps[i].reply.tokens)]

Charged ==
  /\ run.tokens = billed + Total(Observed, Replied)
  /\ billed \in Nat
  /\ pc \in Unstarted => billed = 0 /\ steps = << >>

LEMMA RepliedNumbers ==
  ASSUME Typed
  PROVE  /\ IsFiniteSet(Observed) /\ Total(Observed, Replied) \in Nat
         /\ \A i \in Observed : Replied[i] \in Nat
<1>1. IsFiniteSet(Observed)
  <2>1. DOMAIN steps = 1..Len(steps) /\ Len(steps) \in Nat
    BY DEF Typed, TypeOK
  <2>2. IsFiniteSet(DOMAIN steps)
    BY <2>1, FS_Interval
  <2>3. Observed \in SUBSET DOMAIN steps
    BY DEF Observed
  <2>4. QED
    BY <2>2, <2>3, FS_Subset
<1>2. ASSUME NEW i \in Observed PROVE Replied[i] \in Nat
  <2>1. steps[i].reply \in ToolReplies
    BY ObservedSteps
  <2>2. steps[i].reply \in ToolReplyType
    BY <2>1, RunnerAssumption
  <2>3. steps[i].reply.tokens \in Nat \cup {Malformed}
    BY <2>2 DEF ToolReplyType
  <2>4. QED
    BY <2>3 DEF Replied, Counted
<1>3. QED
  BY <1>1, <1>2, UnitsAreFinite

(* No reply is added: the run is charged what the provider has billed.     *)
LEMMA ChargedAside ==
  ASSUME Typed, Charged, KeepsReplies, NEW d \in Nat,
         run'.tokens = run.tokens + d, billed' = billed + d,
         pc' \in Unstarted => pc \in Unstarted /\ d = 0 /\ UNCHANGED steps
  PROVE  Charged'
<1>1. \A i \in Observed : Replied[i] = Replied'[i]
  BY DEF KeepsReplies, Replied
<1>2. Total(Observed, Replied) = Total(Observed, Replied')
  BY <1>1, TotalOfSame
<1>3. Total(Observed, Replied)' = Total(Observed, Replied)
  BY <1>2 DEF KeepsReplies
<1>4. Total(Observed, Replied) \in Nat /\ billed \in Nat /\ billed' \in Nat
  BY RepliedNumbers DEF Charged
<1>5. run'.tokens = billed' + Total(Observed, Replied)
  BY <1>4 DEF Charged
<1>6. pc' \in Unstarted => billed' = 0 /\ steps' = << >>
  BY DEF Charged
<1>7. QED
  BY <1>3, <1>4, <1>5, <1>6 DEF Charged

(* Steps that do not start the run again keep its account.                 *)
LEMMA AsideCharges ==
  ASSUME Typed, Charged, RunnerAside
  PROVE  run'.tokens = run.tokens
<1>1. run \in RunType
  BY DEF Typed, TypeOK
<1>2. CASE StartClock
  <2>1. pc \in Unstarted
    BY <1>2 DEF StartClock, Unstarted
  <2>2. Observed = {} /\ billed = 0
    BY <2>1 DEF Observed, Charged
  <2>3. run.tokens = 0
    BY <2>2, TotalOfNone DEF Charged
  <2>4. run'.tokens = 0
    BY <1>2, <2>3 DEF StartClock, Refuse, NewRun
  <2>5. QED
    BY <2>3, <2>4
<1>3. CASE ~StartClock
  <2>1. \/ UNCHANGED run
        \/ run' = [run EXCEPT !.stepCount = @ + 1]
        \/ run' = [run EXCEPT !.guardrail = TRUE]
        \/ run' = [run EXCEPT !.calls = @ \cup {decision.call}]
    BY <1>3 DEF RunnerAside, Submit, RecordStarted, CheckBudget, CheckDecision,
       RecordStoppedStep, RecordAnswerStep, GuardAnswer, ScreenToolCall, ToolRaises,
       CheckToolStep, RecordToolStep, Finish
  <2>2. QED
    BY <1>1, <2>1 DEF RunType
<1>4. QED
  BY <1>2, <1>3

LEMMA PlannerCharges ==
  ASSUME Typed, Charged,
         RequiredToolIsUnknown \/ ProviderFails \/ \E r \in Responses : ProviderAnswers(r)
  PROVE  \E d \in Nat : run'.tokens = run.tokens + d /\ billed' = billed + d
<1>1. run \in RunType /\ run.tokens \in Nat
  BY DEF Typed, TypeOK, RunType
<1>2. \A b, n : [run EXCEPT !.unpriced = b, !.tokens = n].tokens = n
  BY <1>1 DEF RunType
<1>3. ASSUME NEW f, PlannerRaises(f) PROVE run'.tokens = run.tokens + Counted(f.tokens)
  BY <1>2, <1>3 DEF PlannerRaises
<1>4. ASSUME NEW p, PlannerReturns(p) PROVE run'.tokens = run.tokens + Counted(p.tokens)
  <2>1. run' = [run EXCEPT !.unpriced = @ \/ p.cloud, !.tokens = @ + Counted(p.tokens)]
    BY <1>4 DEF PlannerReturns
  <2>2. QED
    BY <1>2, <2>1
<1>5. Counted(0) = 0 /\ 0 \in Nat /\ billed + 0 = billed
  BY RunnerAssumption DEF Counted, Charged
<1>6. CASE RequiredToolIsUnknown \/ ProviderFails
  <2>1. \E f : f.tokens = 0 /\ PlannerRaises(f)
    BY <1>6 DEF RequiredToolIsUnknown, ProviderFails, Failure
  <2>2. run'.tokens = run.tokens + 0
    BY <1>3, <1>5, <2>1
  <2>3. billed' = billed + 0
    BY <1>5, <1>6 DEF RequiredToolIsUnknown, ProviderFails
  <2>4. QED
    BY <1>5, <2>2, <2>3
<1>7. ASSUME NEW r \in Responses, ProviderAnswers(r)
      PROVE  \E d \in Nat : run'.tokens = run.tokens + d /\ billed' = billed + d
  <2>1. Counted(r.usage) \in Nat
    BY ResponseTypes, CountedType
  <2>2. billed' = billed + Counted(r.usage)
    BY <1>7 DEF ProviderAnswers
  <2>3. Counted(Planner!FailureUsage(r)) = Counted(r.usage)
    BY <1>5 DEF Counted, Planner!FailureUsage
  <2>4. \/ \E p : p.tokens = r.usage /\ PlannerReturns(p)
        \/ \E f : f.tokens = Planner!FailureUsage(r) /\ PlannerRaises(f)
    BY <1>7 DEF ProviderAnswers, Failure
  <2>5. run'.tokens = run.tokens + Counted(r.usage)
    BY <1>3, <1>4, <2>3, <2>4
  <2>6. QED
    BY <2>1, <2>2, <2>5
<1>8. QED
  BY <1>6, <1>7

LEMMA ReturningCharges ==
  ASSUME Typed, Traced, Charged, NEW reply \in ToolReplies, ToolReturns(reply), UNCHANGED billed
  PROVE  Charged'
<1> DEFINE n == Len(steps)
<1>1. /\ n \notin Observed /\ Observed' = Observed \cup {n}
      /\ steps'[n].reply = reply
      /\ \A i \in Observed : steps'[i].reply = steps[i].reply
  BY ReturningAdds
<1>2. Counted(reply.tokens) \in Nat
  <2>1. reply \in ToolReplyType
    BY RunnerAssumption
  <2>2. reply.tokens \in Nat \cup {Malformed}
    BY <2>1 DEF ToolReplyType
  <2>3. QED
    BY <2>2 DEF Counted
<1>3. run'.tokens = run.tokens + Counted(reply.tokens)
  <2>1. run \in RunType /\ run.tokens \in Nat
    BY DEF Typed, TypeOK, RunType
  <2>2. CASE reply.tokens = Malformed
    BY <2>1, <2>2 DEF ToolReturns, Counted
  <2>3. CASE reply.tokens # Malformed
    <3>1. \A a, b, c, d :
            [run EXCEPT !.tokens = a, !.cost = b, !.priced = c, !.toolErrors = d].tokens = a
      BY <2>1 DEF RunType
    <3>2. run' = [run EXCEPT !.tokens = @ + reply.tokens, !.cost = @ + reply.cost,
                             !.priced = @ \/ reply.priced,
                             !.toolErrors = ToolErrors(@, reply.ok)]
      BY <2>3 DEF ToolReturns
    <3>3. QED
      BY <2>3, <3>1, <3>2 DEF Counted
  <2>4. QED
    BY <2>2, <2>3
<1> HIDE DEF n
<1>4. /\ \A i \in Observed : Replied'[i] = Replied[i]
      /\ Replied'[n] = Counted(reply.tokens)
  BY <1>1 DEF Replied
<1>5. /\ IsFiniteSet(Observed) /\ Total(Observed, Replied) \in Nat
      /\ \A i \in Observed : Replied[i] \in Nat
  BY RepliedNumbers
<1>6. IsFiniteSet({n}) /\ Observed \cap {n} = {}
  BY <1>1, FS_Singleton, Zenon
<1>7. \A i \in Observed \cup {n} : Replied'[i] \in Nat
  BY <1>2, <1>4, <1>5
<1>8. Total(Observed \cup {n}, Replied') = Total(Observed, Replied') + Total({n}, Replied')
  BY <1>5, <1>6, <1>7, TotalOfBoth
<1>9. Total({n}, Replied') = Counted(reply.tokens)
  BY <1>2, <1>4, TotalOfOne
<1>10. Total(Observed, Replied') = Total(Observed, Replied)
  BY <1>4, TotalOfSame
<1>11. Total(Observed, Replied)' = Total(Observed, Replied) + Counted(reply.tokens)
  BY <1>1, <1>8, <1>9, <1>10
<1>12. run'.tokens = billed' + Total(Observed, Replied)' /\ billed' \in Nat
  BY <1>2, <1>3, <1>5, <1>11 DEF Charged
<1>13. pc' \notin Unstarted
  BY DEF ToolReturns, EndToolStep, Unstarted
<1>14. QED
  BY <1>12, <1>13 DEF Charged

LEMMA ChargedStep ==
  ASSUME Sane, Charged, [LiveNext]_liveVars
  PROVE  Charged'
<1>1. CASE RunnerAside /\ UNCHANGED billed
  <2>1. run'.tokens = run.tokens + 0 /\ billed' = billed + 0 /\ 0 \in Nat
    <3>1. run'.tokens = run.tokens /\ run.tokens \in Nat
      BY <1>1, AsideCharges DEF Sane, Typed, TypeOK, RunType
    <3>2. QED
      BY <1>1, <3>1 DEF Charged
  <2>2. pc' \in Unstarted => pc \in Unstarted /\ UNCHANGED steps
    <3>1. CASE CheckDecision
      BY <3>1 DEF CheckDecision, EndWith, Unstarted, Sane, Typed, Shape, Decisions
    <3>2. CASE ~CheckDecision
      BY <1>1, <3>2 DEF RunnerAside, Submit, StartClock, RecordStarted, CheckBudget,
         RecordStoppedStep, RecordAnswerStep, GuardAnswer, ScreenToolCall, ToolRaises,
         CheckToolStep, RecordToolStep, Finish, EndToolStep, Unstarted
    <3>3. QED
      BY <3>1, <3>2
  <2>3. KeepsReplies
    BY <1>1, AsideKeeps DEF Sane
  <2>4. QED
    BY <2>1, <2>2, <2>3, ChargedAside DEF Sane
<1>2. ASSUME NEW reply \in ToolReplies, ToolReturns(reply), UNCHANGED billed
      PROVE  Charged'
  BY <1>2, ReturningCharges DEF Sane
<1>3. CASE ResetLivePlanner \/ UNCHANGED liveVars
  <2>1. UNCHANGED <<run, steps, billed>> /\ (pc' \in Unstarted => pc \in Unstarted)
    BY <1>3 DEF ResetLivePlanner, ResetPlanner, Refuse, Unstarted, liveVars, vars
  <2>2. run'.tokens = run.tokens + 0 /\ billed' = billed + 0 /\ 0 \in Nat
    BY <2>1 DEF Charged, Sane, Typed, TypeOK, RunType
  <2>3. KeepsReplies
    BY <2>1, QuietlyKept
  <2>4. QED
    BY <2>1, <2>2, <2>3, ChargedAside DEF Sane
<1>4. CASE RequiredToolIsUnknown \/ ProviderFails \/ \E r \in Responses : ProviderAnswers(r)
  <2>1. PlannerPart
    BY <1>4, FailuresArePlannerSteps, AnswersArePlannerSteps
  <2>2. PICK d \in Nat : run'.tokens = run.tokens + d /\ billed' = billed + d
    BY <1>4, PlannerCharges DEF Sane
  <2>3. KeepsReplies
    BY <2>1, PlannerPartKeeps DEF Sane
  <2>4. pc' \notin Unstarted
    BY <2>1 DEF PlannerPart, PlannerRaises, PlannerReturns, EndWith, Unstarted
  <2>5. QED
    BY <2>2, <2>3, <2>4, ChargedAside DEF Sane
<1>5. CASE NextRun
  <2>1. /\ run'.tokens = 0 /\ billed' = 0 /\ steps' = << >>
    BY <1>5 DEF NextRun, NewRun
  <2>2. Observed' = {}
    BY <2>1 DEF Observed
  <2>3. QED
    BY <2>1, <2>2, TotalOfNone DEF Charged
<1>6. QED
  BY <1>1, <1>2, <1>3, <1>4, <1>5 DEF LiveNext, RunnerAlone, RunnerAside

(* What an unreadable response cost is known to nobody, but the run is over. *)
Lossless == unread = 0 \/ pc \in {"recordStop", "finish", "done"}

LEMMA LosslessStep ==
  ASSUME Sane, Lossless, [LiveNext]_liveVars
  PROVE  Lossless'
<1>1. CASE RunnerAlone /\ UNCHANGED unread
  <2>1. CASE unread = 0
    BY <1>1, <2>1 DEF Lossless
  <2>2. CASE pc \in {"recordStop", "finish", "done"}
    BY <1>1, <2>2 DEF Lossless, RunnerAlone, Submit, StartClock, RecordStarted, CheckBudget,
       CheckDecision, RecordStoppedStep, RecordAnswerStep, GuardAnswer, ScreenToolCall,
       ToolRaises, ToolReturns, CheckToolStep, RecordToolStep, Finish
  <2>3. QED
    BY <2>1, <2>2 DEF Lossless
<1>2. CASE ProviderFails
  BY <1>2 DEF ProviderFails, PlannerRaises, EndWith, Lossless
<1>3. CASE \/ ResetLivePlanner \/ RequiredToolIsUnknown
           \/ \E r \in Responses : ProviderAnswers(r)
  <2>1. UNCHANGED unread /\ pc \in {"reset", "plan"}
    BY <1>3 DEF ResetLivePlanner, ResetPlanner, RequiredToolIsUnknown, ProviderAnswers,
       PlannerRaises, PlannerReturns
  <2>2. QED
    BY <2>1 DEF Lossless
<1>4. CASE NextRun
  BY <1>4 DEF NextRun, Lossless
<1>5. CASE UNCHANGED liveVars
  BY <1>5 DEF liveVars, vars, Lossless
<1>6. QED
  BY <1>1, <1>2, <1>3, <1>4, <1>5 DEF LiveNext

(* Every token of a response the client could read, and every token a tool *)
(* reported, is charged to the run, whether the response was accepted or   *)
(* rejected; the tokens of one it could not read were the last of the run. *)
THEOREM TokensAreCharged == LiveSpec => []LimitsSeeEveryToken
<1>1. LiveInit => Charged /\ Lossless
  <2> SUFFICES ASSUME LiveInit PROVE Charged /\ Lossless
    OBVIOUS
  <2>1. run.tokens = 0 /\ billed = 0 /\ Observed = {} /\ steps = << >> /\ unread = 0
    BY DEF LiveInit, Init, NewRun, Observed
  <2>2. QED
    BY <2>1, TotalOfNone DEF Charged, Lossless
<1>2. Charged /\ Lossless => LimitsSeeEveryToken
  BY DEF Charged, Lossless, LimitsSeeEveryToken, Replied
<1>3. QED
  BY <1>1, <1>2, ChargedStep, LosslessStep, SaneAlways, PTL DEF LiveSpec

-----------------------------------------------------------------------------
(* Each step of a run that goes on has executed one call.                  *)
Paced ==
  /\ pc \in Unstarted => executed = << >>
  /\ pc \in Planned \cup {"execute"} => Len(executed) = Len(steps) - 1
  /\ pc \in {"loop", "executed"} \/ (pc = "recordTool" /\ ending = None) =>
       Len(executed) = Len(steps)

LEMMA PacedWriting ==
  ASSUME Typed, pc \in InStep, Paced, UNCHANGED executed, Len(steps') = Len(steps),
         pc' \notin Unstarted \cup {"loop", "executed"},
         pc' \in Planned \cup {"execute"} => pc \in Planned,
         pc' = "recordTool" /\ ending' = None => pc = "executed"
  PROVE  Paced'
BY DEF Paced

LEMMA PacedExecutes ==
  ASSUME Typed, Paced, ToolRaises \/ \E reply \in ToolReplies : ToolReturns(reply)
  PROVE  Paced'
<1>1. /\ pc = "execute" /\ pc \in InStep /\ executed \in Seq(Calls) /\ decision.call \in Calls
      /\ executed' = Append(executed, decision.call)
  BY DEF ToolRaises, ToolReturns, InStep, Typed, TypeOK, Shape, Decisions
<1>2. Len(executed') = Len(executed) + 1
  BY <1>1
<1>3. \/ pc' = "executed"
      \/ pc' = "recordTool" /\ ending' = Fallback("tool_error_limit")
  BY DEF ToolRaises, ToolReturns, EndToolStep
<1>4. ending' = Fallback("tool_error_limit") => ending' # None
  BY FallbackReason DEF StopReasons
<1>5. \E s : UpdateStep(s)
  BY DEF ToolRaises, ToolReturns, EndToolStep
<1>6. Len(steps') = Len(steps)
  BY <1>5, UpdatesKeepLength
<1>7. Len(executed) = Len(steps) - 1 /\ Len(steps) \in Nat
  BY <1>1, LengthsAreNaturals DEF Paced
<1>8. QED
  BY <1>2, <1>3, <1>4, <1>6, <1>7 DEF Paced, Unstarted, Planned

LEMMA PacedStep ==
  ASSUME Sane, Paced, [Next]_vars
  PROVE  Paced'
<1>1. Typed /\ executed \in Seq(Calls) /\ Len(executed) \in Nat /\ Len(steps) \in Nat
  BY LengthsAreNaturals DEF Sane, Typed, TypeOK
<1>2. CASE (\E r \in Requests : Submit(r)) \/ ResetPlanner \/ StartClock
  <2>1. pc \in Unstarted /\ pc' \in Unstarted \cup {"done"} /\ UNCHANGED executed
    BY <1>2 DEF Submit, ResetPlanner, StartClock, Refuse, Unstarted
  <2>2. QED
    BY <2>1 DEF Paced, Unstarted, Planned
<1>3. CASE RecordStarted
  <2>1. /\ pc = "started" /\ pc' \in {"loop", "finish"} /\ UNCHANGED <<executed, steps>>
        /\ steps = << >> /\ executed = << >>
    BY <1>3 DEF RecordStarted, Unstarted, Sane, Ordered, Logged, Paced
  <2>2. QED
    BY <2>1 DEF Paced, Unstarted, Planned
<1>4. CASE CheckBudget
  <2>1. /\ pc = "loop" /\ UNCHANGED executed
        /\ pc' = "finish" \/ (pc' = "plan" /\ steps' = Append(steps, NewStep))
    BY <1>4 DEF CheckBudget
  <2>2. steps' = Append(steps, NewStep) => Len(steps') = Len(steps) + 1
    BY <1>1, LengthsAreNaturals
  <2>3. QED
    BY <1>1, <2>1, <2>2 DEF Paced, Unstarted, Planned
<1>5. CASE PlannerPart
  <2>1. /\ pc \in InStep /\ pc' \in {"planned", "recordStop"} /\ UNCHANGED executed
        /\ pc \in Planned
    BY <1>5 DEF PlannerPart, PlannerRaises, PlannerReturns, EndWith, InStep, Planned
  <2>2. Len(steps') = Len(steps)
    BY <1>1, <1>5, PlannerPartWrites, UpdatesKeepLength
  <2>3. QED
    BY <1>1, <2>1, <2>2, PacedWriting DEF Unstarted
<1>6. CASE CheckDecision \/ ScreenToolCall \/ CheckToolStep
  <2>1. UNCHANGED executed /\ pc \in {"planned", "tool_call", "executed"} /\ pc \in InStep
    BY <1>6 DEF CheckDecision, ScreenToolCall, CheckToolStep, InStep
  <2>2. UNCHANGED steps \/ \E s : UpdateStep(s)
    BY <1>6 DEF CheckDecision, ScreenToolCall, CheckToolStep, EndWith, EndToolStep
  <2>3. Len(steps') = Len(steps)
    BY <1>1, <2>2, UpdatesKeepLength
  <2>4. CASE CheckDecision
    BY <1>1, <2>1, <2>3, <2>4, PacedWriting
       DEF CheckDecision, EndWith, Typed, Shape, Decisions, Unstarted, Planned
  <2>5. CASE ScreenToolCall
    <3>1. \/ pc' = "execute"
          \/ /\ pc' = "recordTool" /\ ending' = Fallback(Objection(decision.call))
             /\ Objection(decision.call) # Continue
      BY <2>5 DEF ScreenToolCall, EndToolStep
    <3>2. Objection(decision.call) # Continue => Objection(decision.call) \in StopReasons
      BY DEF Objection, StopReasons
    <3>3. pc' = "recordTool" => ending' # None
      BY <3>1, <3>2, FallbackReason
    <3>4. pc \in Planned
      BY <2>5 DEF ScreenToolCall, Planned
    <3>5. QED
      BY <1>1, <2>1, <2>3, <3>1, <3>3, <3>4, PacedWriting DEF Unstarted
  <2>6. CASE CheckToolStep
    <3>1. pc = "executed" /\ pc' = "recordTool"
      BY <2>6 DEF CheckToolStep, EndToolStep
    <3>2. QED
      BY <1>1, <2>1, <2>3, <3>1, PacedWriting DEF Unstarted, Planned
  <2>7. QED
    BY <1>6, <2>4, <2>5, <2>6
<1>7. CASE RecordStoppedStep \/ RejectDecision \/ RecordAnswerStep \/ GuardAnswer \/ Finish
  <2>1. pc' \in {"finish", "guard", "done"}
    BY <1>7 DEF RecordStoppedStep, RejectDecision, RecordAnswerStep, GuardAnswer, Finish
  <2>2. QED
    BY <2>1 DEF Paced, Unstarted, Planned
<1>8. CASE ToolRaises \/ \E reply \in ToolReplies : ToolReturns(reply)
  BY <1>1, <1>8, PacedExecutes
<1>9. CASE RecordToolStep
  <2>1. /\ pc = "recordTool" /\ UNCHANGED executed
        /\ \/ pc' = "finish"
           \/ pc' = "loop" /\ ending = None /\ UNCHANGED steps
    BY <1>9 DEF RecordToolStep
  <2>2. QED
    BY <2>1 DEF Paced, Unstarted, Planned
<1>10. CASE UNCHANGED vars
  BY <1>10 DEF vars, Paced
<1>11. QED
  BY <1>2, <1>3, <1>4, <1>5, <1>6, <1>7, <1>8, <1>9, <1>10 DEF Next, RunnerStep, PlannerPart

LEMMA PacedInit == Init => Paced
  BY DEF Init, Paced, Planned

LEMMA PacedAlways == LiveSpec => []Paced
<1>1. LiveInit => Init
  BY DEF LiveInit
<1>2. Sane /\ Paced /\ [LiveNext]_liveVars => Paced' \/ Init'
  BY LiveStepOfRunner, PacedStep
<1>3. QED
  BY <1>1, <1>2, PacedInit, SaneAlways, PTL DEF LiveSpec

-----------------------------------------------------------------------------
(* What the runner does with a decision: it is about to make the call, or  *)
(* to give the answer.                                                     *)
Asked == pc \in {"planned", "tool_call", "execute"} /\ decision.action = "tool_call"
Answering == pc \in {"planned", "final_answer", "guard"} /\ decision.action = "final_answer"

Succeeded == \E i \in Observed : steps[i].reply.ok

(* No call is made after one has succeeded, none but the required one, and *)
(* without its success there is no answer.                                 *)
Led ==
  /\ NothingAfterSuccess
  /\ Asked => ~Succeeded /\ (required # None => decision.call = required)
  /\ required # None =>
       /\ \A i \in DOMAIN executed : executed[i] = required
       /\ Answering => Succeeded
       /\ pc = "finish" /\ ending.reason = "completed" => Succeeded
       /\ pc = "done" /\ result.reason = "completed" => Succeeded

LEMMA SuccessKept ==
  ASSUME KeepsReplies
  PROVE  Succeeded' <=> Succeeded
BY DEF KeepsReplies, Succeeded

(* A step that takes the run further on its way, and executes nothing.     *)
LEMMA LedAside ==
  ASSUME Led, KeepsReplies, UNCHANGED <<executed, required>>,
         Asked' => Asked /\ UNCHANGED decision,
         Answering' => Answering,
         pc' = "finish" => Answering \/ ending'.reason # "completed",
         pc' = "done" => result'.reason # "completed"
                         \/ (pc = "finish" /\ ending.reason = "completed")
  PROVE  Led'
<1>1. Succeeded' <=> Succeeded
  BY SuccessKept
<1>2. NothingAfterSuccess'
  BY DEF Led, NothingAfterSuccess, KeepsReplies
<1>3. Asked' => ~Succeeded' /\ (required' # None => decision'.call = required')
  BY <1>1 DEF Led
<1>4. QED
  BY <1>1, <1>2, <1>3 DEF Led

(* Every way to end but a guarded answer.                                  *)
LEMMA EndsUncompleted ==
  ASSUME Typed, LastStep, pc' = "finish",
         \/ RecordStarted \/ CheckBudget \/ RecordStoppedStep \/ RecordAnswerStep
         \/ RecordToolStep
  PROVE  ending'.reason # "completed"
<1>1. \A reason \in StopReasons : Fallback(reason).reason = reason
  BY FallbackReason
<1>2. Stops \subseteq StopReasons /\ "llm_error" \in Stops /\ "completed" \notin Stops
  BY StopsAreReasons DEF Stops
<1>3. CASE RecordStarted \/ RecordAnswerStep
  BY <1>1, <1>2, <1>3 DEF RecordStarted, RecordAnswerStep
<1>4. CASE CheckBudget
  <2>1. pc = "loop" /\ ~run.guardrail /\ ~run.repairFailed
    BY <1>4 DEF CheckBudget, LastStep
  <2>2. \E reason \in Stops : ending' = Fallback(reason)
    BY <1>2, <1>4, <2>1, LimitsStop DEF CheckBudget
  <2>3. QED
    BY <1>1, <1>2, <2>2
<1>5. CASE RecordStoppedStep
  BY <1>2, <1>5 DEF RecordStoppedStep, LastStep
<1>6. CASE RecordToolStep
  BY <1>1, <1>2, <1>6 DEF RecordToolStep, LastStep
<1>7. QED
  BY <1>3, <1>4, <1>5, <1>6

LEMMA LedRunnerAside ==
  ASSUME Sane, Led, RunnerAside, ~ToolRaises, UNCHANGED required
  PROVE  Led'
<1>1. KeepsReplies /\ Typed /\ LastStep
  BY AsideKeeps DEF Sane
<1>2. UNCHANGED <<executed, decision>>
  BY DEF RunnerAside, Submit, StartClock, RecordStarted, CheckBudget, CheckDecision,
     RecordStoppedStep, RecordAnswerStep, GuardAnswer, ScreenToolCall, CheckToolStep,
     RecordToolStep, Finish
<1>3. CASE (\E r \in Requests : Submit(r)) \/ StartClock
  <2>1. pc' \in {"reset", "started", "done"}
        /\ (pc' = "done" => result'.reason # "completed")
    BY <1>3 DEF Submit, StartClock, Refuse, RefusedResult
  <2>2. QED
    BY <1>1, <1>2, <2>1, LedAside DEF Asked, Answering
<1>4. CASE RecordStarted \/ CheckBudget \/ RecordStoppedStep \/ RecordToolStep
  <2>1. pc' \in {"loop", "plan", "finish"}
    BY <1>4 DEF RecordStarted, CheckBudget, RecordStoppedStep, RecordToolStep
  <2>2. pc' = "finish" => ending'.reason # "completed"
    BY <1>1, <1>4, EndsUncompleted
  <2>3. QED
    BY <1>1, <1>2, <2>1, <2>2, LedAside DEF Asked, Answering
<1>5. CASE CheckDecision
  <2>1. pc = "planned" /\ (pc' = "recordStop" \/ pc' = decision.action)
    BY <1>5 DEF CheckDecision, EndWith
  <2>2. decision.action \in {"final_answer", "tool_call", "other"}
    BY <1>1, <2>1 DEF Typed, Shape, Decisions
  <2>3. QED
    BY <1>1, <1>2, <2>1, <2>2, LedAside DEF Asked, Answering
<1>6. CASE RecordAnswerStep
  <2>1. pc = "final_answer" /\ pc' \in {"guard", "finish"}
        /\ decision.action = "final_answer"
    BY <1>1, <1>6 DEF RecordAnswerStep, Typed, Shape
  <2>2. QED
    BY <1>1, <1>2, <2>1, LedAside DEF Asked, Answering
<1>7. CASE GuardAnswer
  <2>1. pc = "guard" /\ pc' = "finish" /\ decision.action = "final_answer"
    BY <1>1, <1>7 DEF GuardAnswer, Typed, Shape
  <2>2. QED
    BY <1>1, <1>2, <2>1, LedAside DEF Asked, Answering
<1>8. CASE ScreenToolCall \/ CheckToolStep
  <2>1. pc' \in {"execute", "recordTool"} /\ (pc' = "execute" => pc = "tool_call")
    BY <1>8 DEF ScreenToolCall, CheckToolStep, EndToolStep
  <2>2. QED
    BY <1>1, <1>2, <2>1, LedAside DEF Asked, Answering
<1>9. CASE Finish
  <2>1. pc = "finish" /\ pc' = "done" /\ result'.reason = ending.reason
    BY <1>9 DEF Finish, FinishedResult
  <2>2. QED
    BY <1>1, <1>2, <2>1, LedAside DEF Asked, Answering
<1>10. QED
  BY <1>3, <1>4, <1>5, <1>6, <1>7, <1>8, <1>9 DEF RunnerAside

(* A tool is executed: none had succeeded, and it is the required one.     *)
LEMMA LedExecutes ==
  ASSUME Sane, Paced, Led, UNCHANGED required,
         ToolRaises \/ \E reply \in ToolReplies : ToolReturns(reply)
  PROVE  Led'
<1>1. /\ pc = "execute" /\ pc' \in {"executed", "recordTool"} /\ UNCHANGED decision
      /\ executed' = Append(executed, decision.call)
      /\ decision.action = "tool_call" /\ Typed
      /\ executed \in Seq(Calls) /\ decision.call \in Calls
  BY DEF ToolRaises, ToolReturns, EndToolStep, Sane, Typed, TypeOK, Shape, Decisions
<1>2. ~Succeeded /\ (required # None => decision.call = required)
  BY <1>1 DEF Led, Asked
<1>3. /\ Len(executed') = Len(executed) + 1
      /\ \A i \in DOMAIN executed' :
           \/ i \in DOMAIN executed /\ executed'[i] = executed[i]
           \/ executed'[i] = decision.call
  BY <1>1
<1>4. required # None => \A i \in DOMAIN executed' : executed'[i] = required
  BY <1>2, <1>3 DEF Led
<1>5. NothingAfterSuccess'
  <2>1. CASE ToolRaises
    <3>1. KeepsReplies
      BY <1>1, <2>1, AsideKeeps DEF RunnerAside
    <3>2. ~Succeeded'
      BY <1>2, <3>1, SuccessKept
    <3>3. QED
      BY <3>2 DEF NothingAfterSuccess, Succeeded
  <2>2. ASSUME NEW reply \in ToolReplies, ToolReturns(reply) PROVE NothingAfterSuccess'
    <3>1. /\ Observed' = Observed \cup {Len(steps)}
          /\ \A i \in Observed : steps'[i].reply = steps[i].reply
      BY <1>1, <2>2, ReturningAdds DEF Sane
    <3>2. Len(executed') = Len(steps)
      BY <1>1, <1>3, LengthsAreNaturals DEF Paced
    <3>3. \A i \in Observed : ~steps'[i].reply.ok
      BY <1>2, <3>1 DEF Succeeded
    <3>4. QED
      BY <3>1, <3>2, <3>3 DEF NothingAfterSuccess
  <2>3. QED
    BY <2>1, <2>2
<1>6. QED
  BY <1>1, <1>4, <1>5 DEF Led, Asked, Answering

(* The router: the planner is asked until a tool has succeeded.            *)
LEMMA RoleFollowsSuccess == CurrentRole = "synthesizer" <=> Succeeded
  BY DEF CurrentRole, Planner!Role, Succeeded

LEMMA LedPlans ==
  ASSUME Sane, Led,
         RequiredToolIsUnknown \/ ProviderFails \/ \E r \in Responses : ProviderAnswers(r)
  PROVE  Led'
<1>1. PlannerPart /\ UNCHANGED required /\ Typed
  BY FailuresArePlannerSteps, AnswersArePlannerSteps
     DEF RequiredToolIsUnknown, ProviderFails, ProviderAnswers, Sane
<1>2. KeepsReplies /\ UNCHANGED executed
  BY <1>1, PlannerPartKeeps DEF PlannerPart, PlannerRaises, PlannerReturns
<1>3. Succeeded' <=> Succeeded
  BY <1>2, SuccessKept
<1>4. pc' = "recordStop" \/ (pc' = "planned" /\ \E p : PlannerReturns(p))
  BY <1>1 DEF PlannerPart, PlannerRaises, PlannerReturns, EndWith
<1>5. CASE pc' = "recordStop"
  BY <1>2, <1>5, LedAside, <1>1 DEF Asked, Answering
<1>6. CASE pc' = "planned"
  <2>1. PICK r \in Responses : ProviderAnswers(r)
    BY <1>6 DEF RequiredToolIsUnknown, ProviderFails, PlannerRaises, EndWith
  <2>2. /\ IF CurrentRole = "planner"
           THEN Planner!PlannerAccepts(r) ELSE Planner!SynthesizerAccepts(r)
        /\ decision' = Planner!DecisionOf(CurrentRole, r)
    BY <1>6, <2>1 DEF ProviderAnswers, PlannerRaises, EndWith, PlannerReturns
  <2>3. CurrentRole = "planner" <=> ~Succeeded
    BY RoleTypes, RoleFollowsSuccess
  <2>4. ASSUME Asked' PROVE ~Succeeded /\ (required # None => decision'.call = required)
    <3>1. r.calls # << >> /\ decision'.call = r.calls[1].call
      BY <2>2, <2>4 DEF Asked, Planner!DecisionOf
    <3>2. CurrentRole = "planner"
      BY <2>2, <3>1 DEF Planner!SynthesizerAccepts
    <3>3. Planner!AcceptsCall(r.calls[1], r)
      BY <2>2, <3>1, <3>2 DEF Planner!PlannerAccepts
    <3>4. QED
      BY <2>3, <3>1, <3>2, <3>3 DEF Planner!AcceptsCall
  <2>5. ASSUME Answering', required # None PROVE Succeeded
    <3>1. r.calls = << >>
      BY <2>2, <2>5 DEF Answering, Planner!DecisionOf
    <3>2. CurrentRole # "planner"
      BY <2>2, <2>5, <3>1 DEF Planner!PlannerAccepts
    <3>3. QED
      BY <2>3, <3>2
  <2>6. NothingAfterSuccess'
    BY <1>2 DEF Led, NothingAfterSuccess, KeepsReplies
  <2>7. QED
    BY <1>1, <1>2, <1>3, <1>6, <2>4, <2>5, <2>6 DEF Led
<1>7. QED
  BY <1>4, <1>5, <1>6

LEMMA LedStep ==
  ASSUME Sane, Paced, Led, [LiveNext]_liveVars
  PROVE  Led'
<1>1. CASE RunnerAside /\ ~ToolRaises /\ UNCHANGED required
  BY <1>1, LedRunnerAside
<1>2. CASE /\ ToolRaises \/ \E reply \in ToolReplies : ToolReturns(reply)
           /\ UNCHANGED required
  BY <1>2, LedExecutes
<1>3. CASE ResetLivePlanner
  <2>1. pc' = "startClock" /\ UNCHANGED <<steps, executed, required, decision>>
    BY <1>3 DEF ResetLivePlanner, ResetPlanner
  <2>2. QED
    BY <2>1, QuietlyKept, LedAside DEF Asked, Answering
<1>4. CASE RequiredToolIsUnknown \/ ProviderFails \/ \E r \in Responses : ProviderAnswers(r)
  BY <1>4, LedPlans
<1>5. CASE NextRun
  <2>1. pc' = "idle" /\ steps' = << >> /\ executed' = << >> /\ UNCHANGED required
    BY <1>5 DEF NextRun
  <2>2. Observed' = {}
    BY <2>1 DEF Observed
  <2>3. QED
    BY <2>1, <2>2 DEF Led, NothingAfterSuccess, Asked, Answering
<1>6. CASE UNCHANGED liveVars
  BY <1>6 DEF liveVars, vars, Led, NothingAfterSuccess, Asked, Answering, Succeeded, Observed
<1>7. QED
  BY <1>1, <1>2, <1>3, <1>4, <1>5, <1>6 DEF LiveNext, RunnerAlone, RunnerAside

LEMMA LedAlways == LiveSpec => []Led
<1>1. LiveInit => Led
  BY DEF LiveInit, Init, Led, NothingAfterSuccess, Observed, Asked, Answering
<1>2. QED
  BY <1>1, LedStep, SaneAlways, PacedAlways, PTL DEF LiveSpec

(* No tool is executed after one has succeeded: from then on the answer is *)
(* composed, whatever the provider proposes.                               *)
THEOREM SuccessEndsTheCalls == LiveSpec => []NothingAfterSuccess
<1>1. Led => NothingAfterSuccess
  BY DEF Led
<1>2. QED
  BY <1>1, LedAlways, PTL

(* A run of which a call is required is completed only after that very     *)
(* call was executed and has succeeded.                                    *)
THEOREM RequiredCallsAreMade == LiveSpec => []RequiredCallComesFirst
<1>1. Sane /\ Led => RequiredCallComesFirst
  <2> SUFFICES ASSUME Sane, Led, pc = "done", result.reason = "completed", required # None
               PROVE  \E i \in Observed : steps[i].reply.ok /\ executed[i] = required
    BY DEF RequiredCallComesFirst
  <2>1. PICK i \in Observed : steps[i].reply.ok
    BY DEF Led, Succeeded
  <2>2. Len(executed) = i /\ i \in Nat \ {0} /\ executed \in Seq(Calls)
    BY <2>1, ObservedSteps DEF Led, NothingAfterSuccess, Sane, Typed, TypeOK
  <2>3. i \in DOMAIN executed
    BY <2>2
  <2>4. QED
    BY <2>1, <2>3 DEF Led
<1>2. QED
  BY <1>1, SaneAlways, LedAlways, PTL

-----------------------------------------------------------------------------
(* At the first request of a run the planner is as it was made, and        *)
(* nothing was sent before it.                                             *)
Alone ==
  /\ \/ pc \in {"startClock", "started"}
     \/ pc = "loop" /\ steps = << >>
     \/ pc = "plan" /\ Len(steps) = 1
     => planner = Planner!Fresh
  /\ steps = << >> \/ (pc = "plan" /\ Len(steps) = 1) => sent = None
  /\ RunsShareNothing

LEMMA SameSequence ==
  ASSUME NEW T, NEW s \in Seq(T), NEW t \in Seq(T), Len(s) = Len(t),
         \A i \in 1..Len(s) : s[i] = t[i]
  PROVE  s = t
OBVIOUS

LEMMA TwoItems ==
  ASSUME NEW T, NEW a \in T, NEW b \in T
  PROVE  <<a>> \o <<b>> = <<a, b>>
<1> DEFINE s == <<a>> \o <<b>>
           t == <<a, b>>
<1>1. <<a>> \in Seq(T) /\ <<b>> \in Seq(T) /\ t \in Seq(T)
  OBVIOUS
<1>2. s \in Seq(T)
  BY <1>1
<1>3. Len(s) = 2 /\ Len(t) = 2
  BY <1>1
<1>4. \A i \in 1..2 : s[i] = t[i]
  BY <1>1
<1> HIDE DEF s, t
<1>5. s = t
  BY <1>1, <1>2, <1>3, <1>4, SameSequence
<1>6. QED
  BY <1>5 DEF s, t

LEMMA FreshRequest ==
  ASSUME planner = Planner!Fresh
  PROVE  /\ Captured = Planner!Fresh
         /\ Planner!RequestItems(Captured) = <<Planner!Question, Planner!Hints>>
<1>1. Captured = Planner!Fresh
  BY DEF Captured, Planner!CaptureOutput, Planner!Fresh
<1>2. ~Planner!Replays(Captured)
  BY <1>1 DEF Planner!Replays, Planner!Fresh
<1>3. <<Planner!Question>> \o <<Planner!Hints>> = <<Planner!Question, Planner!Hints>>
  <2>1. Planner!Question \in {Planner!Question, Planner!Hints}
        /\ Planner!Hints \in {Planner!Question, Planner!Hints}
    OBVIOUS
  <2>2. QED
    BY <2>1, TwoItems
<1>4. QED
  BY <1>1, <1>2, <1>3 DEF Planner!RequestItems

LEMMA AloneAside ==
  ASSUME Sane, Alone, RunnerAlone, UNCHANGED <<planner, sent>>
  PROVE  Alone'
<1>1. Typed /\ Ordered /\ steps \in Seq(StepType) /\ Len(steps) \in Nat
      /\ (steps = << >> <=> Len(steps) = 0)
  BY LengthsAreNaturals DEF Sane
<1>2. CASE \/ \E r \in Requests : Submit(r)
           \/ StartClock \/ RecordStarted
  <2>1. /\ UNCHANGED steps /\ steps = << >>
        /\ pc' \in {"reset", "started", "done", "finish", "loop"}
        /\ pc' \in {"started", "loop"} => pc \in {"startClock", "started"}
    BY <1>1, <1>2 DEF Submit, StartClock, RecordStarted, Refuse, Ordered, Logged, Unstarted
  <2>2. QED
    BY <2>1 DEF Alone, RunsShareNothing
<1>3. CASE CheckBudget
  <2>1. CASE UNCHANGED steps /\ pc' = "finish"
    BY <2>1 DEF Alone, RunsShareNothing
  <2>2. CASE steps' = Append(steps, NewStep) /\ pc' = "plan" /\ pc = "loop"
    <3>1. Len(steps') = Len(steps) + 1 /\ steps' # << >>
      BY <1>1, <2>2
    <3>2. QED
      BY <1>1, <2>2, <3>1 DEF Alone, RunsShareNothing
  <2>3. QED
    BY <1>3, <2>1, <2>2 DEF CheckBudget
<1>4. CASE RunnerAlone /\ pc \in InStep
  <2>1. /\ Len(steps') = Len(steps) /\ steps # << >> /\ steps' # << >>
        /\ pc' \notin {"startClock", "started", "plan"}
    <3>1. UNCHANGED steps \/ \E s : UpdateStep(s)
      BY <1>4 DEF RunnerAlone, Submit, StartClock, RecordStarted, CheckBudget, CheckDecision,
         RecordStoppedStep, RecordAnswerStep, GuardAnswer, ScreenToolCall, ToolRaises,
         ToolReturns, CheckToolStep, RecordToolStep, Finish, EndWith, EndToolStep, InStep
    <3>2. Len(steps') = Len(steps)
      BY <1>1, <3>1, UpdatesKeepLength
    <3>3. steps # << >> /\ Len(steps) # 0
      BY <1>1, <1>4, OpenStep
    <3>4. pc = "planned" => decision.action \in {"final_answer", "tool_call", "other"}
      BY <1>1 DEF Typed, Shape, Decisions
    <3>5. pc' \notin {"startClock", "started", "plan"}
      BY <1>4, <3>4 DEF RunnerAlone, Submit, StartClock, RecordStarted, CheckBudget,
         CheckDecision, RecordStoppedStep, RecordAnswerStep, GuardAnswer, ScreenToolCall,
         ToolRaises, ToolReturns, CheckToolStep, RecordToolStep, Finish, EndWith,
         EndToolStep, InStep
    <3>6. steps' # << >>
      BY <3>2, <3>3
    <3>7. QED
      BY <3>2, <3>3, <3>5, <3>6
  <2>2. QED
    BY <2>1 DEF Alone, RunsShareNothing
<1>5. CASE Finish
  BY <1>5 DEF Finish, Alone, RunsShareNothing
<1>6. QED
  BY <1>2, <1>3, <1>4, <1>5 DEF RunnerAlone, CheckDecision, RecordStoppedStep,
     RecordAnswerStep, GuardAnswer, ScreenToolCall, ToolRaises, ToolReturns, CheckToolStep,
     RecordToolStep, InStep

LEMMA AloneStep ==
  ASSUME Sane, Alone, [LiveNext]_liveVars
  PROVE  Alone'
<1>1. CASE RunnerAlone /\ UNCHANGED <<planner, sent>>
  BY <1>1, AloneAside
<1>2. CASE ResetLivePlanner
  BY <1>2 DEF ResetLivePlanner, ResetPlanner, Planner!ResetRun, Alone, RunsShareNothing
<1>3. CASE RequiredToolIsUnknown \/ ProviderFails \/ \E r \in Responses : ProviderAnswers(r)
  <2>1. PlannerPart
    BY <1>3, FailuresArePlannerSteps, AnswersArePlannerSteps
  <2>2. Typed /\ pc = "plan" /\ pc \in InStep /\ pc' \in {"planned", "recordStop"}
    BY <2>1 DEF PlannerPart, PlannerRaises, PlannerReturns, EndWith, InStep, Sane
  <2>3. Len(steps') = Len(steps) /\ Len(steps) # 0 /\ steps' # << >>
    <3>1. \E s \in StepType : UpdateStep(s)
      BY <2>1, <2>2, PlannerPartWrites DEF Carries
    <3>2. Len(steps') = Len(steps) /\ steps' # << >>
      BY <2>2, <3>1, OpenStepWritten
    <3>3. QED
      BY <2>2, <3>2, OpenStep, LengthsAreNaturals
  <2>4. Len(steps) = 1 /\ sent' # None => sent'.items = <<Planner!Question, Planner!Hints>>
    <3>1. sent' = sent \/ sent' = [role |-> CurrentRole, items |-> Planner!RequestItems(Captured)]
      BY <1>3 DEF RequiredToolIsUnknown, ProviderFails, ProviderAnswers, Send
    <3>2. Len(steps) = 1 => sent = None /\ planner = Planner!Fresh
      BY <2>2 DEF Alone
    <3>3. QED
      BY <3>1, <3>2, FreshRequest
  <2>5. QED
    BY <2>2, <2>3, <2>4 DEF Alone, RunsShareNothing
<1>4. CASE NextRun
  BY <1>4 DEF NextRun, Alone, RunsShareNothing
<1>5. CASE UNCHANGED liveVars
  BY <1>5 DEF liveVars, vars, Alone, RunsShareNothing
<1>6. QED
  BY <1>1, <1>2, <1>3, <1>4, <1>5 DEF LiveNext

LEMMA AloneAlways == LiveSpec => []Alone
<1>1. LiveInit => Alone
  BY DEF LiveInit, Init, Alone, RunsShareNothing
<1>2. QED
  BY <1>1, AloneStep, SaneAlways, PTL DEF LiveSpec

(* Whatever a run leaves in the planner, and however it ended, the first   *)
(* request of the next run holds the question and the hints only.          *)
THEOREM RunsStartAfresh == LiveSpec => []RunsShareNothing
<1>1. Alone => RunsShareNothing
  BY DEF Alone
<1>2. QED
  BY <1>1, AloneAlways, PTL

-----------------------------------------------------------------------------
(* The conversation.                                                       *)
Item ==
  [kind : {"question", "hints"}]
  \cup [kind : {"call"}, id : CallIds, call : Calls]
  \cup [kind : {"output"}, id : CallIds, step : Nat]

PlannerType ==
  [history : Seq(Item), call : CallIds \cup {None}, output : Nat \cup {None}]

LastOf(items) == items[Len(items)]

(* Items that start with the question, in which every call but the last    *)
(* item is followed by its output, and the outputs are those of the first  *)
(* k of these calls, under the stripped ids.                               *)
Threaded(items, k, calls) ==
  /\ items \in Seq(Item) /\ items # << >> /\ items[1] = Planner!Question
  /\ \A i \in DOMAIN items :
       /\ items[i].kind = "call" => items[i].id \in CallIds
       /\ items[i].kind = "call" /\ i # Len(items) => items[i + 1].kind = "output"
       /\ items[i].kind = "output" =>
            /\ i # 1 /\ items[i - 1].kind = "call"
            /\ Strip[items[i - 1].id] = items[i].id /\ items[i].id # Blank
            /\ items[i].step \in 1..k
            /\ items[i - 1].call = calls[items[i].step]
  /\ \A j \in 1..k : \E i \in DOMAIN items : items[i].kind = "output" /\ items[i].step = j

LEMMA ItemTypes ==
  /\ Planner!Question \in Item /\ Planner!Hints \in Item
  /\ \A c \in [id : CallIds, call : Calls] : Planner!CallItem(c) \in Item
  /\ \A id \in CallIds, step \in Nat : Planner!OutputItem(id, step) \in Item
BY DEF Item, Planner!Question, Planner!Hints, Planner!CallItem, Planner!OutputItem

LEMMA Appended ==
  ASSUME NEW T, NEW items \in Seq(T), items # << >>, NEW x \in T
  PROVE  LET n == Len(items)
             new == Append(items, x)
         IN  /\ n \in Nat \ {0} /\ n \in DOMAIN items /\ DOMAIN items = 1..n
             /\ new \in Seq(T) /\ new # << >> /\ Len(new) = n + 1
             /\ DOMAIN new = 1..(n + 1) /\ new[n + 1] = x
             /\ \A i \in DOMAIN items : new[i] = items[i]
OBVIOUS

(* The calls may go on. *)
LEMMA ThreadedOn ==
  ASSUME NEW items, NEW k, NEW calls, NEW more, Threaded(items, k, calls),
         \A j \in 1..k : more[j] = calls[j]
  PROVE  Threaded(items, k, more)
BY DEF Threaded

(* Hints or a call may follow where no output is awaited.                  *)
LEMMA ThreadedFurther ==
  ASSUME NEW items, NEW k \in Nat, NEW calls, Threaded(items, k, calls),
         LastOf(items).kind # "call", NEW x \in Item, x.kind \in {"hints", "call"},
         x.kind = "call" => x.id \in CallIds
  PROVE  Threaded(Append(items, x), k, calls) /\ LastOf(Append(items, x)) = x
<1> DEFINE n == Len(items)
           new == Append(items, x)
<1>1. /\ n \in Nat \ {0} /\ n \in DOMAIN items /\ DOMAIN items = 1..n
      /\ new \in Seq(Item) /\ new # << >> /\ Len(new) = n + 1
      /\ DOMAIN new = 1..(n + 1) /\ new[n + 1] = x
      /\ \A i \in DOMAIN items : new[i] = items[i]
  BY Appended DEF Threaded
<1>2. items[n].kind # "call"
  BY DEF LastOf
<1> HIDE DEF n, new
<1>3. new[1] = Planner!Question
  BY <1>1 DEF Threaded
<1>4. ASSUME NEW i \in DOMAIN new
      PROVE  /\ new[i].kind = "call" => new[i].id \in CallIds
             /\ new[i].kind = "call" /\ i # Len(new) => new[i + 1].kind = "output"
             /\ new[i].kind = "output" =>
                  /\ i # 1 /\ new[i - 1].kind = "call"
                  /\ Strip[new[i - 1].id] = new[i].id /\ new[i].id # Blank
                  /\ new[i].step \in 1..k
                  /\ new[i - 1].call = calls[new[i].step]
  <2>1. CASE i = n + 1
    BY <1>1, <2>1
  <2>2. CASE i = n
    <3>1. new[i] = items[i] /\ items[i].kind # "call"
      BY <1>1, <1>2, <2>2
    <3>2. i # 1 => new[i - 1] = items[i - 1]
      BY <1>1, <2>2
    <3>3. QED
      BY <1>1, <2>2, <3>1, <3>2 DEF Threaded
  <2>3. CASE i \in 1..(n - 1)
    <3>1. new[i] = items[i] /\ new[i + 1] = items[i + 1] /\ i \in DOMAIN items
      BY <1>1, <2>3
    <3>2. i # 1 => new[i - 1] = items[i - 1]
      BY <1>1, <2>3
    <3>3. i # Len(items)
      BY <1>1, <2>3 DEF n
    <3>4. QED
      BY <3>1, <3>2, <3>3 DEF Threaded
  <2>4. QED
    BY <1>1, <2>1, <2>2, <2>3
<1>5. ASSUME NEW j \in 1..k
      PROVE  \E i \in DOMAIN new : new[i].kind = "output" /\ new[i].step = j
  <2>1. PICK i \in DOMAIN items : items[i].kind = "output" /\ items[i].step = j
    BY DEF Threaded
  <2>2. i \in DOMAIN new /\ new[i] = items[i]
    BY <1>1
  <2>3. QED
    BY <2>1, <2>2
<1>6. Threaded(new, k, calls) /\ LastOf(new) = x
  BY <1>1, <1>3, <1>4, <1>5 DEF Threaded, LastOf
<1>7. QED
  BY <1>6 DEF new

(* The output of the awaited call.                                         *)
LEMMA ThreadedOutput ==
  ASSUME NEW items, NEW k \in Nat, NEW calls, Threaded(items, k, calls),
         LastOf(items).kind = "call", LastOf(items).call = calls[k + 1],
         NEW id \in CallIds, id = Strip[LastOf(items).id], id # Blank
  PROVE  LET new == Append(items, Planner!OutputItem(id, k + 1))
         IN  Threaded(new, k + 1, calls) /\ LastOf(new).kind = "output"
<1> DEFINE n == Len(items)
           x == Planner!OutputItem(id, k + 1)
           new == Append(items, x)
<1>1. x \in Item /\ x.kind = "output" /\ x.id = id /\ x.step = k + 1
  BY ItemTypes DEF Planner!OutputItem
<1> HIDE DEF x
<1>2. /\ n \in Nat \ {0} /\ n \in DOMAIN items /\ DOMAIN items = 1..n
      /\ new \in Seq(Item) /\ new # << >> /\ Len(new) = n + 1
      /\ DOMAIN new = 1..(n + 1) /\ new[n + 1] = x
      /\ \A i \in DOMAIN items : new[i] = items[i]
  BY <1>1, Appended DEF Threaded
<1>3. items[n].kind = "call" /\ items[n].call = calls[k + 1] /\ id = Strip[items[n].id]
  BY DEF LastOf
<1> HIDE DEF n, new
<1>4. new[1] = Planner!Question
  BY <1>2 DEF Threaded
<1>5. ASSUME NEW i \in DOMAIN new
      PROVE  /\ new[i].kind = "call" => new[i].id \in CallIds
             /\ new[i].kind = "call" /\ i # Len(new) => new[i + 1].kind = "output"
             /\ new[i].kind = "output" =>
                  /\ i # 1 /\ new[i - 1].kind = "call"
                  /\ Strip[new[i - 1].id] = new[i].id /\ new[i].id # Blank
                  /\ new[i].step \in 1..(k + 1)
                  /\ new[i - 1].call = calls[new[i].step]
  <2>1. CASE i = n + 1
    <3>1. new[i] = x /\ new[i - 1] = items[n] /\ i # 1
      BY <1>2, <2>1
    <3>2. QED
      BY <1>1, <1>3, <3>1
  <2>2. CASE i = n
    <3>1. new[i] = items[i] /\ new[i + 1] = x /\ i \in DOMAIN items
          /\ items[i].kind = "call"
      BY <1>2, <1>3, <2>2
    <3>2. QED
      BY <1>1, <3>1 DEF Threaded
  <2>3. CASE i \in 1..(n - 1)
    <3>1. new[i] = items[i] /\ new[i + 1] = items[i + 1] /\ i \in DOMAIN items
      BY <1>2, <2>3
    <3>2. i # 1 => new[i - 1] = items[i - 1]
      BY <1>2, <2>3
    <3>3. i # Len(items)
      BY <1>2, <2>3 DEF n
    <3>4. ASSUME items[i].kind = "output"
          PROVE  /\ i # 1 /\ items[i - 1].kind = "call"
                 /\ Strip[items[i - 1].id] = items[i].id /\ items[i].id # Blank
                 /\ items[i].step \in 1..k
                 /\ items[i - 1].call = calls[items[i].step]
      BY <3>1, <3>4 DEF Threaded
    <3>5. /\ items[i].kind = "call" => items[i].id \in CallIds
          /\ items[i].kind = "call" => items[i + 1].kind = "output"
      BY <3>1, <3>3 DEF Threaded
    <3>6. \A step : step \in 1..k => step \in 1..(k + 1)
      OBVIOUS
    <3>7. QED
      BY <3>1, <3>2, <3>4, <3>5, <3>6
  <2>4. QED
    BY <1>2, <2>1, <2>2, <2>3
<1>6. ASSUME NEW j \in 1..(k + 1)
      PROVE  \E i \in DOMAIN new : new[i].kind = "output" /\ new[i].step = j
  <2>1. CASE j = k + 1
    BY <1>1, <1>2, <2>1
  <2>2. CASE j \in 1..k
    <3>1. PICK i \in DOMAIN items : items[i].kind = "output" /\ items[i].step = j
      BY <2>2 DEF Threaded
    <3>2. i \in DOMAIN new /\ new[i] = items[i]
      BY <1>2
    <3>3. QED
      BY <3>1, <3>2
  <2>3. QED
    BY <2>1, <2>2
<1>7. Threaded(new, k + 1, calls) /\ LastOf(new).kind = "output"
  BY <1>1, <1>2, <1>4, <1>5, <1>6 DEF Threaded, LastOf
<1>8. QED
  BY <1>7 DEF new, x

-----------------------------------------------------------------------------
(* The output of this call is awaited, after those of k others.            *)
Awaiting(k, call) ==
  /\ Threaded(planner.history, k, executed)
  /\ LastOf(planner.history).kind = "call" /\ LastOf(planner.history).call = call
  /\ planner.call = Strip[LastOf(planner.history).id]
  /\ planner.call \in CallIds \ {Blank}
  /\ planner.output = None

(* The call is made, and the run may go on.                                *)
Made ==
  \/ pc = "executed"
  \/ pc = "recordTool" /\ ending = None
  \/ pc = "loop" /\ steps # << >>

Conversing ==
  /\ planner \in PlannerType
  /\ Asked => Awaiting(Len(steps) - 1, decision.call)
  /\ Made => Awaiting(Len(steps) - 1, executed[Len(steps)])
  /\ pc = "plan" /\ Len(steps) > 1 => Awaiting(Len(steps) - 2, executed[Len(steps) - 1])
  /\ sent # None =>
       \E k \in 0..Len(executed) :
         /\ Threaded(sent.items, k, executed)
         /\ LastOf(sent.items).kind = "hints"
         /\ pc = "planned" => k = Len(steps) - 1

(* A step that is not the planner's, and executes nothing.                 *)
LEMMA ConversingKept ==
  ASSUME Conversing, UNCHANGED <<planner, sent, executed>>,
         Asked' => Asked /\ UNCHANGED decision /\ Len(steps') = Len(steps),
         Made' => Made /\ Len(steps') = Len(steps),
         pc' = "plan" /\ Len(steps') > 1 =>
           Made /\ Len(steps') - 2 = Len(steps) - 1 /\ Len(steps') - 1 = Len(steps),
         pc' = "planned" => pc = "planned" /\ Len(steps') = Len(steps)
  PROVE  Conversing'
<1>1. Asked' => Awaiting(Len(steps) - 1, decision.call)'
  BY DEF Conversing, Awaiting
<1>2. Made' => Awaiting(Len(steps) - 1, executed[Len(steps)])'
  BY DEF Conversing, Awaiting
<1>3. pc' = "plan" /\ Len(steps') > 1 =>
        Awaiting(Len(steps) - 2, executed[Len(steps) - 1])'
  BY DEF Conversing, Awaiting
<1>4. sent' # None =>
       \E k \in 0..Len(executed') :
         /\ Threaded(sent'.items, k, executed')
         /\ LastOf(sent'.items).kind = "hints"
         /\ pc' = "planned" => k = Len(steps') - 1
  BY DEF Conversing
<1>5. QED
  BY <1>1, <1>2, <1>3, <1>4 DEF Conversing, Awaiting

LEMMA ConversingAside ==
  ASSUME Sane, Conversing, RunnerAside, ~ToolRaises, UNCHANGED <<planner, sent>>
  PROVE  Conversing'
<1>1. Typed /\ Ordered /\ Len(steps) \in Nat /\ (steps = << >> <=> Len(steps) = 0)
  BY LengthsAreNaturals DEF Sane, Typed, TypeOK
<1>2. UNCHANGED <<executed, decision>>
  BY DEF RunnerAside, Submit, StartClock, RecordStarted, CheckBudget, CheckDecision,
     RecordStoppedStep, RecordAnswerStep, GuardAnswer, ScreenToolCall, CheckToolStep,
     RecordToolStep, Finish
<1>3. CASE \/ \E r \in Requests : Submit(r)
           \/ StartClock \/ RecordStoppedStep \/ RecordAnswerStep \/ GuardAnswer \/ Finish
  <2>1. pc' \in {"reset", "started", "done", "finish", "guard"}
    BY <1>3 DEF Submit, StartClock, Refuse, RecordStoppedStep, RecordAnswerStep,
       GuardAnswer, Finish
  <2>2. QED
    BY <1>2, <2>1, ConversingKept DEF Asked, Made
<1>4. CASE RecordStarted
  <2>1. pc' \in {"loop", "finish"} /\ steps' = << >>
    BY <1>1, <1>4 DEF RecordStarted, Ordered, Logged, Unstarted
  <2>2. QED
    BY <1>2, <2>1, ConversingKept DEF Asked, Made
<1>5. CASE CheckBudget
  <2>1. pc = "loop" /\ (pc' = "finish" \/ (pc' = "plan" /\ steps' = Append(steps, NewStep)))
    BY <1>5 DEF CheckBudget
  <2>2. steps' = Append(steps, NewStep) => Len(steps') = Len(steps) + 1
    BY <1>1 DEF Typed, TypeOK
  <2>3. pc' = "plan" /\ Len(steps') > 1 =>
          Made /\ Len(steps') - 2 = Len(steps) - 1 /\ Len(steps') - 1 = Len(steps)
    BY <1>1, <2>1, <2>2 DEF Made
  <2>4. ~Asked' /\ ~Made' /\ pc' # "planned"
    BY <2>1 DEF Asked, Made
  <2>5. QED
    BY <1>2, <2>3, <2>4, ConversingKept
<1>6. CASE CheckDecision \/ ScreenToolCall \/ CheckToolStep \/ RecordToolStep
  <2>1. UNCHANGED steps \/ \E s : UpdateStep(s)
    BY <1>6 DEF CheckDecision, ScreenToolCall, CheckToolStep, RecordToolStep, EndWith,
       EndToolStep
  <2>2. pc \in InStep
    BY <1>6 DEF CheckDecision, ScreenToolCall, CheckToolStep, RecordToolStep, InStep
  <2>3. Len(steps') = Len(steps)
    BY <1>1, <2>1, <2>2, UpdatesKeepLength
  <2>4. CASE CheckDecision
    <3>1. pc = "planned" /\ (pc' = "recordStop" \/ pc' = decision.action)
      BY <2>4 DEF CheckDecision, EndWith
    <3>2. decision.action \in {"final_answer", "tool_call", "other"}
      BY <1>1, <3>1 DEF Typed, Shape, Decisions
    <3>3. Asked' => Asked
      BY <1>2, <3>1, <3>2 DEF Asked
    <3>4. ~Made' /\ pc' \notin {"plan", "planned"}
      BY <3>1, <3>2 DEF Made
    <3>5. QED
      BY <1>2, <2>3, <3>3, <3>4, ConversingKept
  <2>5. CASE ScreenToolCall
    <3>1. /\ pc = "tool_call"
          /\ \/ pc' = "execute"
             \/ /\ pc' = "recordTool" /\ ending' = Fallback(Objection(decision.call))
                /\ Objection(decision.call) # Continue
      BY <2>5 DEF ScreenToolCall, EndToolStep
    <3>2. Objection(decision.call) # Continue => Objection(decision.call) \in StopReasons
      BY DEF Objection, StopReasons
    <3>3. pc' = "recordTool" => ending' # None
      BY <3>1, <3>2, FallbackReason
    <3>4. Asked' => Asked
      BY <1>2, <3>1 DEF Asked
    <3>5. ~Made' /\ pc' \notin {"plan", "planned"}
      BY <3>1, <3>3 DEF Made
    <3>6. QED
      BY <1>2, <2>3, <3>4, <3>5, ConversingKept
  <2>6. CASE CheckToolStep
    <3>1. pc = "executed" /\ pc' = "recordTool"
      BY <2>6 DEF CheckToolStep, EndToolStep
    <3>2. Made /\ ~Asked'
      BY <3>1 DEF Made, Asked
    <3>3. QED
      BY <1>2, <2>3, <3>1, <3>2, ConversingKept
  <2>7. CASE RecordToolStep
    <3>1. pc = "recordTool" /\ (pc' = "finish" \/ (pc' = "loop" /\ ending = None))
      BY <2>7 DEF RecordToolStep
    <3>2. Made' => Made
      BY <3>1 DEF Made
    <3>3. ~Asked' /\ pc' \notin {"plan", "planned"}
      BY <3>1 DEF Asked
    <3>4. QED
      BY <1>2, <2>3, <3>2, <3>3, ConversingKept
  <2>8. QED
    BY <1>6, <2>4, <2>5, <2>6, <2>7
<1>7. QED
  BY <1>3, <1>4, <1>5, <1>6 DEF RunnerAside

(* The awaited output is the one that the call just made returns.          *)
LEMMA ConversingExecutes ==
  ASSUME Sane, Paced, Conversing, UNCHANGED <<planner, sent>>,
         ToolRaises \/ \E reply \in ToolReplies : ToolReturns(reply)
  PROVE  Conversing'
<1> DEFINE n == Len(steps)
<1>1. /\ pc = "execute" /\ pc \in InStep
      /\ executed' = Append(executed, decision.call)
      /\ decision.action = "tool_call" /\ Typed
      /\ executed \in Seq(Calls) /\ decision.call \in Calls
  BY DEF ToolRaises, ToolReturns, Sane, Typed, TypeOK, Shape, Decisions, InStep
<1>2. \/ pc' = "executed"
      \/ pc' = "recordTool" /\ ending' = Fallback("tool_error_limit")
  BY DEF ToolRaises, ToolReturns, EndToolStep
<1>3. Fallback("tool_error_limit") # None
  BY FallbackReason DEF StopReasons
<1>4. Len(steps') = n /\ n \in Nat
  <2>1. \E s : UpdateStep(s)
    BY DEF ToolRaises, ToolReturns, EndToolStep
  <2>2. QED
    BY <1>1, <2>1, UpdatesKeepLength, LengthsAreNaturals
<1>5. Len(executed) = n - 1 /\ n - 1 \in Nat
  BY <1>1, LengthsAreNaturals DEF Paced
<1>6. /\ Len(executed') = n /\ executed'[n] = decision.call
      /\ \A j \in 1..(n - 1) : executed'[j] = executed[j]
  BY <1>1, <1>4, <1>5
<1>7. Awaiting(n - 1, decision.call)
  BY <1>1 DEF Conversing, Asked
<1> HIDE DEF n
<1>8. Made' => Awaiting(n - 1, executed[n])'
  <2>1. Threaded(planner.history, n - 1, executed')
    BY <1>5, <1>6, <1>7, ThreadedOn DEF Awaiting
  <2>2. n' = n
    BY <1>4 DEF n
  <2>3. QED
    BY <1>6, <1>7, <2>1, <2>2 DEF Awaiting
<1>9. ASSUME sent # None
      PROVE  \E k \in 0..Len(executed') :
                Threaded(sent.items, k, executed') /\ LastOf(sent.items).kind = "hints"
  <2>1. PICK k \in 0..Len(executed) :
               Threaded(sent.items, k, executed) /\ LastOf(sent.items).kind = "hints"
    BY <1>9 DEF Conversing
  <2>2. k \in 0..Len(executed') /\ \A j \in 1..k : executed'[j] = executed[j]
    BY <1>4, <1>5, <1>6, <2>1
  <2>3. Threaded(sent.items, k, executed')
    BY <2>1, <2>2, ThreadedOn
  <2>4. QED
    BY <2>1, <2>2, <2>3
<1>10. ~Asked' /\ pc' \notin {"plan", "planned"}
  BY <1>2 DEF Asked
<1>11. QED
  BY <1>4, <1>8, <1>9, <1>10 DEF Conversing, n

-----------------------------------------------------------------------------
(* What is replayed at the next turn.                                      *)

LEMMA GreatestIsMax ==
  ASSUME NEW n \in Nat \ {0}
  PROVE  Planner!Max(1..n) = n
<1>1. n \in 1..n /\ \A y \in 1..n : n >= y
  OBVIOUS
<1>2. \A x \in 1..n : (\A y \in 1..n : x >= y) => x = n
  BY <1>1
<1>3. QED
  BY <1>1, <1>2 DEF Planner!Max

LEMMA HintsFollow ==
  ASSUME NEW T, NEW items \in Seq(T), NEW x \in T
  PROVE  items \o <<x>> = Append(items, x)
OBVIOUS

(* When the planner is asked, all steps but the open one have their reply. *)
LEMMA ObservedAtPlan ==
  ASSUME Sane, pc \in {"plan", "planned"}
  PROVE  /\ Len(steps) \in Nat \ {0}
         /\ Observed = 1..(Len(steps) - 1)
<1>1. Typed /\ steps \in Seq(StepType) /\ steps # << >> /\ Len(steps) \in Nat \ {0}
  BY OpenStep DEF Sane, InStep
<1>2. /\ \A i \in DOMAIN steps : i # Len(steps) => steps[i].reply # None
      /\ steps[Len(steps)].reply = None
  BY DEF Sane, Told, Coherently, Planned, Current
<1>3. DOMAIN steps = 1..Len(steps)
  BY <1>1
<1>4. QED
  BY <1>1, <1>2, <1>3 DEF Observed

LEMMA Requested ==
  ASSUME Sane, Alone, Paced, Conversing, pc = "plan"
  PROVE  LET n == Len(steps)
             items == Planner!RequestItems(Captured)
         IN  /\ n \in Nat \ {0} /\ Len(executed) = n - 1
             /\ Captured \in PlannerType
             /\ Threaded(items, n - 1, executed)
             /\ LastOf(items).kind = "hints"
<1> DEFINE n == Len(steps)
           items == Planner!RequestItems(Captured)
<1>1. n \in Nat \ {0} /\ Observed = 1..(n - 1) /\ Len(executed) = n - 1
  BY ObservedAtPlan DEF Paced, Planned
<1>2. Planner!Hints \in Item /\ Planner!Hints.kind = "hints" /\ Planner!Question \in Item
  BY ItemTypes DEF Planner!Hints
<1>3. CASE n = 1
  <2>1. items = <<Planner!Question, Planner!Hints>> /\ Captured = Planner!Fresh
    BY <1>3, FreshRequest DEF Alone
  <2>2. Captured \in PlannerType
    BY <2>1 DEF PlannerType, Planner!Fresh
  <2>3. Threaded(<<Planner!Question, Planner!Hints>>, 0, executed)
    BY <1>2 DEF Threaded, Planner!Question, Planner!Hints
  <2>4. LastOf(<<Planner!Question, Planner!Hints>>).kind = "hints"
    BY <1>2 DEF LastOf
  <2>5. QED
    BY <1>1, <1>3, <2>1, <2>2, <2>3, <2>4
<1>4. CASE n > 1
  <2>1. n - 2 \in Nat /\ n - 1 \in Nat \ {0} /\ (n - 2) + 1 = n - 1 /\ Observed # {}
    <3>1. n \in Nat /\ 1 \in 1..(n - 1)
      BY <1>1, <1>4
    <3>2. Observed # {}
      BY <1>1, <3>1
    <3> HIDE DEF n
    <3>3. n - 2 \in Nat /\ n - 1 \in Nat \ {0} /\ (n - 2) + 1 = n - 1
      BY <1>4, <3>1
    <3>4. QED
      BY <3>2, <3>3 DEF n
  <2>2. Awaiting(n - 2, executed[n - 1])
    BY <1>4 DEF Conversing
  <2>3. Planner!Max(Observed) = n - 1
    BY <1>1, <2>1, GreatestIsMax
  <2>4. planner \in PlannerType /\ planner.call \in CallIds \ {Blank} /\ planner.call # None
    BY <2>2, LiveAssumption DEF Conversing, Awaiting
  <2>5. Captured = [planner EXCEPT !.output = n - 1]
    BY <2>1, <2>3, <2>4 DEF Captured, Planner!CaptureOutput
  <2>6. /\ Captured \in PlannerType /\ Captured.output = n - 1
        /\ Captured.history = planner.history /\ Captured.call = planner.call
    BY <2>1, <2>4, <2>5 DEF PlannerType
  <2>7. planner.history # << >> /\ n - 1 # None
    BY <2>1, <2>2, LiveAssumption DEF Awaiting, Threaded
  <2>8. Planner!Replays(Captured)
    BY <2>4, <2>6, <2>7 DEF Planner!Replays
  <2> DEFINE x == Planner!OutputItem(planner.call, n - 1)
             replayed == Append(planner.history, x)
  <2>9. x \in Item
    BY <2>1, <2>4, ItemTypes
  <2>10. items = replayed \o <<Planner!Hints>>
    BY <2>6, <2>8 DEF Planner!RequestItems
  <2>11. Threaded(replayed, n - 1, executed) /\ LastOf(replayed).kind = "output"
    <3>1. /\ Threaded(planner.history, n - 2, executed)
          /\ LastOf(planner.history).kind = "call"
          /\ LastOf(planner.history).call = executed[n - 1]
          /\ planner.call = Strip[LastOf(planner.history).id]
      BY <2>2 DEF Awaiting
    <3> DEFINE k == n - 2
    <3>2. k \in Nat /\ k + 1 = n - 1
      BY <2>1
    <3> HIDE DEF k
    <3>3. Threaded(planner.history, k, executed)
      BY <3>1 DEF k
    <3>4. QED
      BY <2>4, <3>1, <3>2, <3>3, ThreadedOutput
  <2> HIDE DEF x, replayed
  <2>12. replayed \in Seq(Item)
    BY <2>11 DEF Threaded
  <2>13. items = Append(replayed, Planner!Hints)
    BY <1>2, <2>10, <2>12, HintsFollow
  <2>14. Threaded(Append(replayed, Planner!Hints), n - 1, executed)
         /\ LastOf(Append(replayed, Planner!Hints)) = Planner!Hints
    BY <1>2, <2>1, <2>11, ThreadedFurther
  <2>15. QED
    BY <1>1, <1>2, <2>6, <2>13, <2>14
<1>5. QED
  BY <1>1, <1>3, <1>4

(* A request is sent, and a call accepted or refused.                      *)
LEMMA ConversingPlans ==
  ASSUME Sane, Alone, Paced, Conversing,
         RequiredToolIsUnknown \/ ProviderFails \/ \E r \in Responses : ProviderAnswers(r)
  PROVE  Conversing'
<1> DEFINE n == Len(steps)
           items == Planner!RequestItems(Captured)
<1>1. PlannerPart
  BY FailuresArePlannerSteps, AnswersArePlannerSteps
<1>2. Typed /\ pc = "plan" /\ pc \in InStep /\ pc' \in {"planned", "recordStop"}
      /\ UNCHANGED executed
  BY <1>1 DEF PlannerPart, PlannerRaises, PlannerReturns, EndWith, InStep, Sane
<1>3. Len(steps') = n
  BY <1>1, <1>2, PlannerPartWrites, UpdatesKeepLength
<1>4. /\ n \in Nat \ {0} /\ Len(executed) = n - 1 /\ Captured \in PlannerType
      /\ Threaded(items, n - 1, executed) /\ LastOf(items).kind = "hints"
  BY <1>2, Requested
<1> HIDE DEF n, items
<1>5. /\ \/ UNCHANGED sent /\ pc' = "recordStop"
         \/ sent' = [role |-> CurrentRole, items |-> items]
  BY DEF RequiredToolIsUnknown, ProviderFails, ProviderAnswers, Send, PlannerRaises,
     EndWith, items
<1>6. sent' # None =>
       \E k \in 0..Len(executed') :
         /\ Threaded(sent'.items, k, executed')
         /\ LastOf(sent'.items).kind = "hints"
         /\ pc' = "planned" => k = Len(steps') - 1
  <2>1. CASE UNCHANGED sent /\ pc' = "recordStop"
    BY <1>2, <2>1 DEF Conversing
  <2>2. CASE sent' = [role |-> CurrentRole, items |-> items]
    <3>1. n - 1 \in 0..Len(executed')
      BY <1>2, <1>4
    <3>2. sent'.items = items
      BY <2>2
    <3>3. QED
      BY <1>2, <1>3, <1>4, <3>1, <3>2
  <2>3. QED
    BY <1>5, <2>1, <2>2
<1>7. Planner!Fresh \in PlannerType
  BY DEF PlannerType, Planner!Fresh
<1>8. ASSUME NEW r \in Responses, r.calls # << >>, Planner!PlannerAccepts(r)
      PROVE  LET c == r.calls[1]
                 kept == [history |-> Append(items, Planner!CallItem(c)),
                          call |-> Strip[c.id], output |-> None]
             IN  /\ kept \in PlannerType /\ kept.call # Blank /\ kept.output = None
                 /\ Threaded(kept.history, n - 1, executed)
                 /\ LastOf(kept.history).kind = "call"
                 /\ LastOf(kept.history).call = c.call
                 /\ kept.call = Strip[LastOf(kept.history).id]
  <2> DEFINE c == r.calls[1]
             x == Planner!CallItem(c)
             history == Append(items, x)
             kept == [history |-> history, call |-> Strip[c.id], output |-> None]
  <2>1. c \in [id : CallIds, call : Calls]
    <3>1. r.calls \in Seq([id : CallIds, call : Calls])
      BY LiveAssumption DEF ResponseType
    <3>2. QED
      BY <1>8, <3>1, FirstOfMany, Zenon
  <2>2. Strip[c.id] # Blank
    BY <1>8 DEF Planner!PlannerAccepts, Planner!AcceptsCall
  <2>3. c.id \in CallIds /\ Strip[c.id] \in CallIds
    BY <2>1, <2>2, LiveAssumption
  <2>4. x \in Item /\ x.kind = "call" /\ x.id = c.id /\ x.call = c.call
    BY <2>1, ItemTypes DEF Planner!CallItem
  <2> HIDE DEF c, x
  <2>5. Threaded(history, n - 1, executed) /\ LastOf(history) = x
    <3>1. n - 1 \in Nat
      BY <1>4
    <3>2. QED
      BY <1>4, <2>3, <2>4, <3>1, ThreadedFurther
  <2>6. history \in Seq(Item)
    BY <2>5 DEF Threaded
  <2> HIDE DEF history
  <2>7. kept \in PlannerType
    BY <2>3, <2>6 DEF PlannerType
  <2>8. /\ kept \in PlannerType /\ kept.call # Blank /\ kept.output = None
        /\ Threaded(kept.history, n - 1, executed)
        /\ LastOf(kept.history).kind = "call"
        /\ LastOf(kept.history).call = c.call
        /\ kept.call = Strip[LastOf(kept.history).id]
    BY <2>2, <2>4, <2>5, <2>7
  <2>9. QED
    BY <2>8 DEF c, x, history
<1>9. planner' \in PlannerType
  <2>1. CASE RequiredToolIsUnknown \/ ProviderFails
    BY <1>4, <2>1 DEF RequiredToolIsUnknown, ProviderFails
  <2>2. ASSUME NEW r \in Responses, ProviderAnswers(r) PROVE planner' \in PlannerType
    <3>1. \/ planner' = Planner!AfterPlanning(Captured, items, r)
          \/ planner' = Planner!AfterSynthesis(Captured, r)
      BY <2>2 DEF ProviderAnswers, items
    <3>2. QED
      BY <1>4, <1>7, <1>8, <3>1 DEF Planner!AfterPlanning, Planner!AfterSynthesis
  <2>3. QED
    BY <2>1, <2>2
<1>10. ASSUME Asked' PROVE Awaiting(n - 1, decision.call)'
  <2>1. pc' = "planned" /\ decision'.action = "tool_call"
    BY <1>2, <1>10 DEF Asked
  <2>2. PICK r \in Responses : ProviderAnswers(r)
    BY <2>1 DEF RequiredToolIsUnknown, ProviderFails, PlannerRaises, EndWith
  <2>3. /\ IF CurrentRole = "planner"
           THEN Planner!PlannerAccepts(r) ELSE Planner!SynthesizerAccepts(r)
        /\ decision' = Planner!DecisionOf(CurrentRole, r)
    BY <2>1, <2>2 DEF ProviderAnswers, PlannerRaises, EndWith, PlannerReturns
  <2>4. r.calls # << >> /\ decision'.call = r.calls[1].call
    BY <2>1, <2>3 DEF Planner!DecisionOf
  <2>5. CurrentRole = "planner" /\ Planner!PlannerAccepts(r)
    BY <2>3, <2>4 DEF Planner!SynthesizerAccepts
  <2>6. planner' = [history |-> Append(items, Planner!CallItem(r.calls[1])),
                    call |-> Strip[r.calls[1].id], output |-> None]
    BY <2>2, <2>4, <2>5 DEF ProviderAnswers, Planner!AfterPlanning, Planner!PlannerAccepts,
       items
  <2>7. planner'.call \in CallIds
    <3>1. r.calls \in Seq([id : CallIds, call : Calls])
      BY LiveAssumption DEF ResponseType
    <3>2. r.calls[1].id \in CallIds
      BY <2>4, <3>1, FirstOfMany
    <3>3. Strip[r.calls[1].id] \in CallIds
      BY <2>4, <2>5, <3>2, LiveAssumption DEF Planner!PlannerAccepts, Planner!AcceptsCall
    <3>4. QED
      BY <2>6, <3>3
  <2>8. n' = n
    BY <1>3 DEF n
  <2>9. QED
    BY <1>2, <1>8, <2>4, <2>5, <2>6, <2>7, <2>8 DEF Awaiting
<1>11. ~Made' /\ pc' # "plan"
  BY <1>2 DEF Made
<1>12. QED
  BY <1>3, <1>6, <1>9, <1>10, <1>11 DEF Conversing, n

LEMMA ConversingStep ==
  ASSUME Sane, Alone, Paced, Conversing, [LiveNext]_liveVars
  PROVE  Conversing'
<1>1. CASE RunnerAside /\ ~ToolRaises /\ UNCHANGED <<planner, sent>>
  BY <1>1, ConversingAside
<1>2. CASE /\ ToolRaises \/ \E reply \in ToolReplies : ToolReturns(reply)
           /\ UNCHANGED <<planner, sent>>
  BY <1>2, ConversingExecutes
<1>3. CASE ResetLivePlanner
  <2>1. /\ pc' = "startClock" /\ planner' = Planner!Fresh
        /\ UNCHANGED <<sent, executed>>
    BY <1>3 DEF ResetLivePlanner, ResetPlanner, Planner!ResetRun
  <2>2. planner' \in PlannerType
    BY <2>1 DEF PlannerType, Planner!Fresh
  <2>3. QED
    BY <2>1, <2>2 DEF Conversing, Asked, Made
<1>4. CASE RequiredToolIsUnknown \/ ProviderFails \/ \E r \in Responses : ProviderAnswers(r)
  BY <1>4, ConversingPlans
<1>5. CASE NextRun
  BY <1>5 DEF NextRun, Conversing, Asked, Made
<1>6. CASE UNCHANGED liveVars
  BY <1>6 DEF liveVars, vars, Conversing, Asked, Made, Awaiting
<1>7. QED
  BY <1>1, <1>2, <1>3, <1>4, <1>5, <1>6 DEF LiveNext, RunnerAlone, RunnerAside

LEMMA ConversingAlways == LiveSpec => []Conversing
<1>1. LiveInit => Conversing
  BY DEF LiveInit, Init, Conversing, Asked, Made, PlannerType, Planner!Fresh
<1>2. QED
  BY <1>1, ConversingStep, SaneAlways, AloneAlways, PacedAlways, PTL DEF LiveSpec

(* str.strip() leaves the ids of the provider as they are: a call is       *)
(* replayed under its own id, its output under the stripped one.           *)
StripsNothing == \A id \in CallIds : Strip[id] \in {id, Blank}

(* Whatever the provider answers, and however often the planner is asked:  *)
(* every call of a request is followed by the output of that very call,    *)
(* under one id, and when a response is accepted no output was missing.    *)
THEOREM OutputsFollowTheirCalls ==
  ASSUME StripsNothing
  PROVE  LiveSpec => []OutputsAnswerTheirCalls
<1>1. Sane /\ Conversing => OutputsAnswerTheirCalls
  <2> SUFFICES ASSUME Sane, Conversing, sent # None
               PROVE  LET items == sent.items
                          outputs == {i \in DOMAIN items : items[i].kind = "output"}
                      IN  /\ items[1] = Planner!Question
                          /\ \A i \in DOMAIN items : items[i].kind = "call" => i + 1 \in outputs
                          /\ \A i \in outputs :
                               /\ items[i - 1].kind = "call"
                               /\ items[i - 1].id = items[i].id
                               /\ items[i - 1].call = executed[items[i].step]
                          /\ pc = "planned" => {items[i].step : i \in outputs} = Observed
    BY DEF OutputsAnswerTheirCalls
  <2> DEFINE items == sent.items
             outputs == {i \in DOMAIN items : items[i].kind = "output"}
  <2>1. PICK k \in 0..Len(executed) :
               /\ Threaded(items, k, executed) /\ LastOf(items).kind = "hints"
               /\ pc = "planned" => k = Len(steps) - 1
    BY DEF Conversing
  <2> HIDE DEF items
  <2>2. items[1] = Planner!Question
    BY <2>1 DEF Threaded
  <2>3. items \in Seq(Item) /\ DOMAIN items = 1..Len(items) /\ Len(items) \in Nat
    BY <2>1 DEF Threaded
  <2>4. ASSUME NEW i \in DOMAIN items, items[i].kind = "call" PROVE i + 1 \in outputs
    <3>1. i # Len(items)
      BY <2>1, <2>4 DEF LastOf
    <3>2. i + 1 \in DOMAIN items
      BY <2>3, <3>1
    <3>3. items[i + 1].kind = "output"
      BY <2>1, <2>4, <3>1 DEF Threaded
    <3>4. QED
      BY <3>2, <3>3
  <2>5. ASSUME NEW i \in outputs
        PROVE  /\ items[i - 1].kind = "call" /\ items[i - 1].id = items[i].id
               /\ items[i - 1].call = executed[items[i].step] /\ items[i].step \in 1..k
    <3>1. i \in DOMAIN items /\ items[i].kind = "output"
      OBVIOUS
    <3>2. /\ i # 1 /\ items[i - 1].kind = "call"
          /\ Strip[items[i - 1].id] = items[i].id /\ items[i].id # Blank
          /\ items[i].step \in 1..k
          /\ items[i - 1].call = executed[items[i].step]
      BY <2>1, <3>1 DEF Threaded
    <3>3. i - 1 \in DOMAIN items
      BY <2>3, <3>1, <3>2
    <3>4. items[i - 1].id \in CallIds
      BY <2>1, <3>2, <3>3 DEF Threaded
    <3>5. QED
      BY <3>2, <3>4 DEF StripsNothing
  <2>6. ASSUME pc = "planned" PROVE {items[i].step : i \in outputs} = Observed
    <3>1. k = Len(steps) - 1 /\ Observed = 1..(Len(steps) - 1)
      BY <2>1, <2>6, ObservedAtPlan
    <3>2. \A j \in 1..k : \E i \in outputs : items[i].step = j
      BY <2>1 DEF Threaded
    <3>3. QED
      BY <2>5, <3>1, <3>2
  <2>7. QED
    BY <2>2, <2>4, <2>5, <2>6 DEF items
<1>2. QED
  BY <1>1, SaneAlways, ConversingAlways, PTL
=============================================================================
