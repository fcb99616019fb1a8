-------------------------- MODULE ResponsesPlanner --------------------------
(***************************************************************************)
(* provider/openai_responses.py and provider/model_router.py: the planner  *)
(* of the live profile.  Between two decisions it keeps the conversation   *)
(* it had when the provider asked for a tool, so that the next request can *)
(* replay it ("stateless" towards the provider).                           *)
(*                                                                         *)
(* A response is a record: "sound" when the adapter accepts its status,    *)
(* items and length, its usage, whether it has an id, its function calls,  *)
(* and what its text cites, or that it is empty.                           *)
(***************************************************************************)
EXTENDS Integers, Sequences, FiniteSetsExt

CONSTANTS
  CallIds,    \* the call ids a provider may choose
  Strip,      \* call_id.strip(), for every call id
  Blank,      \* the empty call id
  Objects,    \* the arguments that decode to a JSON object
  Malformed,  \* a usage report with a malformed counter
  None

VARIABLE required  \* the call that is required of the planner, or None

(* What the planner keeps: the items to replay, the id of the call whose   *)
(* output is awaited, and the position of the step that has the output.    *)
Fresh == [history |-> << >>, call |-> None, output |-> None]

ResetRunFault(p) == p
ResetRun(p) == Fresh

Question == [kind |-> "question"]
Hints == [kind |-> "hints"]
CallItem(c) == [kind |-> "call", id |-> c.id, call |-> c.call]
OutputItem(id, step) == [kind |-> "output", id |-> id, step |-> step]

(* While a call waits for its output, the result of the last step that has *)
(* one is taken for it.                                                    *)
CaptureOutputFault(p, observed) ==
  IF p.call = None \/ observed = {} THEN p ELSE [p EXCEPT !.output = Min(observed)]
CaptureOutput(p, observed) ==
  IF p.call = None \/ observed = {} THEN p ELSE [p EXCEPT !.output = Max(observed)]

Replays(p) == p.history # << >> /\ p.call # None /\ p.output # None

RequestItems(p) ==
  (IF Replays(p)
   THEN Append(p.history, OutputItem(p.call, p.output))
   ELSE <<Question>>) \o <<Hints>>

(* The synthesizer takes over once a tool has succeeded.                   *)
RoleFault(replies) ==
  IF \E r \in replies : r.hasEvidence THEN "synthesizer" ELSE "planner"
Role(replies) ==
  IF \E r \in replies : r.ok THEN "synthesizer" ELSE "planner"

RolePhase(role) ==
  IF role = "planner" THEN "knowledge_retrieval" ELSE "final_validation"

(* What both roles ask of a response.                                      *)
Sound(r) == r.sound /\ r.usage # Malformed

AcceptsCall(c, r) ==
  /\ r.hasId
  /\ Strip[c.id] # Blank
  /\ c.call[2] \in Objects
  /\ required # None => c.call = required

PlannerAcceptsFault(r) ==
  Sound(r) /\ Len(r.calls) <= 1 /\ (r.calls # << >> => AcceptsCall(r.calls[1], r))
PlannerAccepts(r) ==
  /\ Sound(r)
  /\ Len(r.calls) <= 1
  /\ IF r.calls = << >> THEN required = None ELSE AcceptsCall(r.calls[1], r)

SynthesizerAccepts(r) == Sound(r) /\ r.calls = << >>

(* The usage that goes with a rejected response.                           *)
FailureUsageFault(r) == 0
FailureUsage(r) == IF r.usage = Malformed THEN 0 ELSE r.usage

(* What the planner keeps after a response to these items.  A conversation *)
(* whose output was delivered is dropped before the call is looked at.     *)
AfterPlanning(p, items, r) ==
  IF ~Sound(r) \/ Len(r.calls) > 1 THEN p
  ELSE IF r.calls # << >> /\ PlannerAccepts(r)
       THEN [history |-> Append(items, CallItem(r.calls[1])),
             call |-> Strip[r.calls[1].id], output |-> None]
       ELSE IF p.output # None THEN Fresh ELSE p

AfterSynthesis(p, r) == IF SynthesizerAccepts(r) THEN Fresh ELSE p

(* The decision made of an accepted response.  An empty text becomes an    *)
(* abstention, which only the planner marks as a fallback.                 *)
DecisionOf(role, r) ==
  IF r.calls # << >>
  THEN [action |-> "tool_call", call |-> r.calls[1].call]
  ELSE [action |-> "final_answer",
        cites |-> IF r.empty THEN {} ELSE r.cites,
        abstains |-> r.empty \/ r.abstains,
        fallback |-> r.empty /\ role = "planner"]
=============================================================================
