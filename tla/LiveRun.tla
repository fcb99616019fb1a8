------------------------------ MODULE LiveRun ------------------------------
(***************************************************************************)
(* profiles/live.py: AgentRunner with the Responses planner plugged into   *)
(* its planner port, run after run on the same planner.  A step of the     *)
(* runner that calls the planner is taken together with the planner's      *)
(* step; all the others are the runner's alone.                            *)
(***************************************************************************)
EXTENDS AgentRunner

CONSTANTS
  CallIds, Strip, Blank, Objects,   \* see ResponsesPlanner
  Requirements,                     \* the calls that may be required, or None
  Responses                         \* what the provider may answer

ResponseType ==
  [sound : BOOLEAN, usage : Usage, hasId : BOOLEAN,
   calls : Seq([id : CallIds, call : Calls]),
   cites : SUBSET Marks, abstains : BOOLEAN, empty : BOOLEAN]

ASSUME LiveAssumption ==
  /\ Strip \in [CallIds -> CallIds \cup {Blank}]
  /\ Objects = Args \ {NotAnObject}
  /\ Requirements \subseteq Calls \cup {None}
  /\ Responses \subseteq ResponseType
  /\ WriteTools = {}     \* write tools are not advertised to the provider
  /\ 0 \in TokenCounts  \* a failed request reports no usage
  /\ None \notin Calls /\ None \notin CallIds /\ None \notin Nat

VARIABLES
  required, \* the tool requirement of the composition, or None
  planner,  \* what the planner keeps
  sent,     \* the last request to the provider in this run, or None
  billed,   \* the tokens of the responses the client could read, in this run
  unread    \* the tokens of the responses it could not

liveVars == <<vars, required, planner, sent, billed, unread>>

Planner == INSTANCE ResponsesPlanner

Observed == {i \in DOMAIN steps : steps[i].reply # None}
Captured == Planner!CaptureOutput(planner, Observed)
CurrentRole == Planner!Role({steps[i].reply : i \in Observed})

LiveInit ==
  /\ Init
  /\ required \in Requirements
  /\ planner = Planner!Fresh
  /\ sent = None
  /\ billed = 0 /\ unread = 0

(* The planner raises; its exception names phase, route and usage.         *)
Failure(role, tokens) ==
  [phase |-> Planner!RolePhase(role), cloud |-> TRUE, tokens |-> tokens,
   said |-> TRUE]

Send == sent' = [role |-> CurrentRole, items |-> Planner!RequestItems(Captured)]

(* A required tool that is not advertised: nothing is sent.                *)
RequiredToolIsUnknown ==
  /\ CurrentRole = "planner"
  /\ required # None /\ required[1] \notin Registered
  /\ PlannerRaises([phase |-> None, cloud |-> FALSE, tokens |-> 0, said |-> TRUE])
  /\ planner' = Captured
  /\ UNCHANGED <<required, sent, billed, unread>>

CanAsk == CurrentRole = "planner" /\ required # None => required[1] \in Registered

(* The transport fails; or the provider answers, at the cost of "spent",   *)
(* and the response cannot be normalized.  The failure is annotated with   *)
(* no response, so with no usage.                                          *)
ProviderFails ==
  /\ CanAsk
  /\ Send
  /\ PlannerRaises(Failure(CurrentRole, 0))
  /\ \E spent \in TokenCounts : unread' = unread + spent
  /\ planner' = Captured
  /\ UNCHANGED <<required, billed>>

ProviderAnswers(r) ==
  /\ CanAsk
  /\ Send
  /\ billed' = billed + Counted(r.usage)
  /\ IF CurrentRole = "planner"
     THEN planner' = Planner!AfterPlanning(Captured, Planner!RequestItems(Captured), r)
     ELSE planner' = Planner!AfterSynthesis(Captured, r)
  /\ IF IF CurrentRole = "planner"
        THEN Planner!PlannerAccepts(r) ELSE Planner!SynthesizerAccepts(r)
     THEN PlannerReturns([decision |-> Planner!DecisionOf(CurrentRole, r),
                          cloud |-> TRUE, tokens |-> r.usage])
     ELSE PlannerRaises(Failure(CurrentRole, Planner!FailureUsage(r)))
  /\ UNCHANGED <<required, unread>>

(* reset_run never raises.                                                 *)
ResetLivePlanner ==
  /\ ResetPlanner
  /\ pc' = "startClock"
  /\ planner' = Planner!ResetRun(planner)
  /\ UNCHANGED <<required, sent, billed, unread>>

(* The same composition serves another request.                            *)
NextRun ==
  /\ pc = "done"
  /\ pc' = "idle" /\ request' = None /\ now' = 1
  /\ run' = NewRun([live |-> FALSE], 0)
  /\ steps' = << >> /\ sources' = NoSources
  /\ decision' = None /\ ending' = None
  /\ log' = << >> /\ executed' = << >> /\ result' = None
  /\ sent' = None /\ billed' = 0 /\ unread' = 0
  /\ UNCHANGED <<required, planner>>

(* The steps of the runner in which its planner has no part.               *)
RunnerAlone ==
  \/ \E r \in Requests : Submit(r)
  \/ StartClock \/ RecordStarted \/ CheckBudget
  \/ CheckDecision \/ RecordStoppedStep \/ RecordAnswerStep \/ GuardAnswer
  \/ ScreenToolCall \/ ToolRaises
  \/ \E reply \in ToolReplies : ToolReturns(reply)
  \/ CheckToolStep \/ RecordToolStep \/ Finish

LiveNext ==
  \/ RunnerAlone /\ UNCHANGED <<required, planner, sent, billed, unread>>
  \/ ResetLivePlanner
  \/ RequiredToolIsUnknown \/ ProviderFails
  \/ \E r \in Responses : ProviderAnswers(r)
  \/ NextRun

LiveSpec == LiveInit /\ [][LiveNext]_liveVars

-----------------------------------------------------------------------------
(* docs/live_profile.md: the next turn replays the original input and every *)
(* output, then sends the output of the call "with the same call_id": in a *)
(* request each call is followed by its output, under one id, with the     *)
(* result of that very call, and none is missing.                          *)
OutputsAnswerTheirCalls ==
  sent # None =>
    LET items == sent.items
        outputs == {i \in DOMAIN items : items[i].kind = "output"}
    IN  /\ items[1] = Planner!Question
        /\ \A i \in DOMAIN items : items[i].kind = "call" => i + 1 \in outputs
        /\ \A i \in outputs :
             /\ items[i - 1].kind = "call"
             /\ items[i - 1].id = items[i].id
             /\ items[i - 1].call = executed[items[i].step]
        /\ pc = "planned" => {items[i].step : i \in outputs} = Observed

(* Requests are stateless across the runs of one planner: the first        *)
(* request of a run holds nothing of the run before, however that ended.   *)
RunsShareNothing ==
  Len(steps) = 1 /\ sent # None =>
    sent.items = <<Planner!Question, Planner!Hints>>

(* Every token of a response the client could read is charged to the run,  *)
(* also when the response is rejected; what an unreadable one cost is lost *)
(* (create_response normalizes after the provider has answered), but that  *)
(* failure ends the run: no call starts within limits that missed a token. *)
LimitsSeeEveryToken ==
  /\ pc # "idle" /\ result = None =>
       run.tokens = billed + Total(Observed, [i \in Observed |-> Counted(steps[i].reply.tokens)])
  /\ pc \in {"plan", "execute"} => unread = 0

(* The model router: "planner until a successful tool observation exists,  *)
(* then synthesizer", so no tool is executed after one has succeeded.      *)
NothingAfterSuccess ==
  \A i \in Observed : steps[i].reply.ok => Len(executed) = i

(* A run of which a call is required completes only after that call        *)
(* succeeded (PlannerToolRequirement, "Do not answer before making the     *)
(* required tool call").                                                   *)
RequiredCallComesFirst ==
  pc = "done" /\ result.reason = "completed" /\ required # None =>
    \E i \in Observed : steps[i].reply.ok /\ executed[i] = required
=============================================================================
