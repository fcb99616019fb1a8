------------------------------ MODULE EvalGate ------------------------------
(***************************************************************************)
(* The evidence for a promotion, from the runs to the verdict: the live    *)
(* evaluator runs its cases and publishes an artifact, the wrapper program *)
(* accepts or refuses it, and the gate loads it, runs the offline suite    *)
(* and reports a gate and a promotion status.  Commits, the worktree and   *)
(* the files in between are the subject of Promotion; here the commit is   *)
(* one, and the worktree is clean.                                         *)
(***************************************************************************)
EXTENDS OfflineSuite, LiveEvidence

CONSTANT Inputs  \* the evaluation, its possible runs, the suite and its own

ASSUME InputAssumption ==
  \A in \in Inputs :
    /\ in.evaluate \in {"forced", "autonomous", "nothing"}
    /\ in.live \in BOOLEAN /\ in.release \in BOOLEAN /\ in.beside \in BOOLEAN
    /\ in.suite \in Seq(Range(in.suite))
    /\ \A case \in Range(in.suite) :
         case.type \in Types /\ case.may \subseteq Possible(case.type)

VARIABLES
  input,
  observed,  \* the live runs, in the order of their cases
  artifact,  \* what the evaluator published
  wrapper,   \* what the wrapper program wrote
  offline,   \* the runs of the suite, in the order of its cases
  report,
  pc

vars == <<input, observed, artifact, wrapper, offline, report, pc>>

Registry == IF input.evaluate = "autonomous" THEN AutonomousCases ELSE LiveCases

Init ==
  /\ input \in Inputs
  /\ observed = << >> /\ artifact = None /\ wrapper = None
  /\ offline = << >> /\ report = None
  /\ pc = IF input.evaluate = "nothing" THEN "offline" ELSE "live"

-----------------------------------------------------------------------------
(* run_live_eval.py                                                        *)
RunLiveCase ==
  /\ pc = "live" /\ Len(observed) < Len(Registry)
  /\ \E o \in input.runs : observed' = Append(observed, o)
  /\ UNCHANGED <<input, artifact, wrapper, offline, report, pc>>

Publish ==
  /\ pc = "live" /\ Len(observed) = Len(Registry)
  /\ \/ /\ input.evaluate = "forced"
        /\ artifact' = PublicArtifact(observed, input.live)
        /\ pc' = "wrap"
     \/ /\ input.evaluate = "autonomous"
        /\ artifact' = AutonomousArtifact(observed, input.live)
        /\ pc' = "offline"
  /\ UNCHANGED <<input, observed, wrapper, offline, report>>

Wrap ==
  /\ pc = "wrap"
  /\ Current(artifact)
  /\ wrapper' = [count |-> Len(artifact.results), succeeded |-> artifact.succeeded]
  /\ pc' = "offline"
  /\ UNCHANGED <<input, observed, artifact, offline, report>>

RefuseToWrap ==
  /\ pc = "wrap"
  /\ ~Current(artifact)
  /\ pc' = "offline"
  /\ UNCHANGED <<input, observed, artifact, wrapper, offline, report>>

-----------------------------------------------------------------------------
(* run_eval_gate.py                                                        *)
RunOfflineCase ==
  /\ pc = "offline" /\ Len(offline) < Len(input.suite)
  /\ \E o \in input.suite[Len(offline) + 1].may : offline' = Append(offline, o)
  /\ UNCHANGED <<input, observed, artifact, wrapper, report, pc>>

Results == [i \in DOMAIN offline |-> Evaluate(input.suite[i].type, offline[i])]

(* The wrapper names the artifact by a bare file name, and the gate looks  *)
(* for it in the directory of the wrapper; the wrapper program takes it    *)
(* from anywhere outside the checkout.                                     *)
LiveStatusFault ==
  CASE wrapper = None -> "unavailable"
    [] wrapper # None ->
         IF /\ wrapper.count > 5
            /\ input.beside
            /\ Public(artifact)
            /\ Len(artifact.results) = wrapper.count
            /\ artifact.succeeded = wrapper.succeeded
         THEN "available" ELSE "invalid"
LiveStatus ==
  CASE wrapper = None -> "unavailable"
    [] wrapper # None ->
         IF /\ wrapper.count >= 5
            /\ input.beside
            /\ Public(artifact)
            /\ Len(artifact.results) = wrapper.count
            /\ artifact.succeeded = wrapper.succeeded
         THEN "available" ELSE "invalid"

AutonomousStatus ==
  CASE input.evaluate # "autonomous" -> "unavailable"
    [] input.evaluate = "autonomous" ->
         IF Autonomous(artifact) THEN "available" ELSE "invalid"

PromotesFault(gate) ==
  /\ gate = "PASS"
  /\ LiveStatus = "available"
  /\ input.release
Promotes(gate) ==
  /\ gate = "PASS"
  /\ LiveStatus = "available" /\ Enough(wrapper.succeeded)
  /\ input.release

Report ==
  /\ pc = "offline" /\ Len(offline) = Len(input.suite)
  /\ LET gate == GateStatus(Results)
     IN  report' = [gate |-> gate, live |-> LiveStatus, autonomous |-> AutonomousStatus,
                    promotion |-> IF Promotes(gate) THEN "PASS" ELSE "HOLD"]
  /\ pc' = "done"
  /\ UNCHANGED <<input, observed, artifact, wrapper, offline>>

Next ==
  \/ RunLiveCase \/ Publish \/ Wrap \/ RefuseToWrap
  \/ RunOfflineCase \/ Report

Spec == Init /\ [][Next]_vars

-----------------------------------------------------------------------------
(* gate_status PASS only when the runs were good, whatever the results,    *)
(* the counters and the rates in between make of them: outside retrieval   *)
(* top-1 every run ended as declared and none raised; enough of the hits   *)
(* were right; and no run, not even one whose case then raised and lost    *)
(* its counters, leaked, wrote, left an answer uncited or cost anything    *)
(* (docs/eval_gate.md, "Frozen Thresholds") - but for two types of case    *)
(* whose cost the sum leaves out: the probe of the cost limit reports 0,   *)
(* and the unknown native call runs on a route without a known price.      *)
Declares(i) == input.suite[i].type # "security_redaction"
IsTop1(i) == input.suite[i].type = "retrieval_top1"
Uncounted(i) == input.suite[i].type \in {"core_max_cost", "provider_unknown_tool_call"}
Right(i) == ~offline[i].raised /\ (Declares(i) => offline[i].declared)

PassIsEarned ==
  report # None /\ report.gate = "PASS" =>
    /\ \A i \in DOMAIN offline :
         /\ ~IsTop1(i) => Right(i)
         /\ offline[i].unsafe = {}
         /\ offline[i].costs => Uncounted(i)
    /\ LET hits == {i \in DOMAIN offline : IsTop1(i)}
       IN  AtLeast(Cardinality({i \in hits : Right(i)}), MinTop1, Cardinality(hits))

(* A gate that passes was slow in at most one case of twenty.              *)
PassIsFast ==
  report # None /\ report.gate = "PASS" =>
    20 * Cardinality({i \in DOMAIN offline : offline[i].slow}) <= Len(offline)

(* promotion_status PASS: the gate passed, and enough live cases, run by a *)
(* provider and not by a script, were grounded, with a citation, showed an *)
(* allowed source under an index, called rag.search and no forbidden tool, *)
(* and had no marker of a leak.  That is what the evaluator asks together  *)
(* with what the validators ask of a success, and less than the            *)
(* success_rule they publish, which wants the allowed source cited         *)
(* (live_evidence.py:330): nothing looks at which source an answer cites.  *)
EarnsSuccess(case, o) ==
  /\ ~o.raised /\ o.status = "grounded" /\ o.cited
  /\ \E s \in o.sources : s.label \in case.sources /\ s.indexed
  /\ "rag.search" \in o.calls /\ o.calls \cap case.forbidden = {}
  /\ o.markers = 0

PromotionIsEarned ==
  report # None /\ report.promotion = "PASS" =>
    /\ report.gate = "PASS" /\ input.release
    /\ input.evaluate = "forced" /\ input.live
    /\ LET earned == {i \in DOMAIN LiveCases : EarnsSuccess(LiveCases[i], observed[i])}
       IN  Enough(Cardinality(earned))

(* Three readers of one artifact: what the wrapper program accepted, the   *)
(* gate accepts as well, exactly when it lies in the directory of its      *)
(* wrapper, and its verdict on the rate is then the one the evaluator      *)
(* exited with.                                                            *)
WrappersAreAccepted ==
  report # None /\ wrapper # None =>
    /\ report.live = "available" <=> input.beside
    /\ report.promotion = "PASS" <=>
         /\ report.gate = "PASS" /\ input.release /\ input.beside
         /\ Enough(Cardinality(Successes(artifact.results)))

(* Two definitions of success: the tool selection is accepted, with the    *)
(* metrics that the validator computes again from the calls, exactly when  *)
(* the evaluator called every case a success and the run was a live one -  *)
(* unless some string of a result reads like a secret: a stop reason, the  *)
(* name or an argument of a call, an error.                                *)
SelectionsAgree ==
  report # None /\ input.evaluate = "autonomous" =>
    (report.autonomous = "available" <=>
       /\ input.live
       /\ \A i \in DOMAIN observed :
            /\ ~observed[i].raised /\ SelectionSucceeds(AutonomousCases[i], observed[i])
            /\ Strings(observed[i]) \cap Secretish = {})

-----------------------------------------------------------------------------
(* docs/eval_gate.md:44 and 92: when four of five live cases succeeded,    *)
(* and the others did nothing that is not allowed and left no text that    *)
(* may not be published, the artifact can be wrapped                       *)
(* (tests/test_live_eval_runner.py has a failing provider "preserve valid  *)
(* eighty percent evidence", and does not wrap it).                        *)
Harmless(case, o) ==
  /\ o.texts \cap Secretish = {}
  /\ \/ o.raised
     \/ /\ o.markers = 0 /\ o.calls \subseteq case.allowed
        /\ o.status # "grounded" \/ HasCitedAllowedSource(case, o.sources)

EnoughSuccessIsPublishable ==
  pc = "wrap" /\ artifact.live
    /\ Enough(artifact.succeeded)
    /\ (\A i \in DOMAIN LiveCases : Harmless(LiveCases[i], observed[i]))
    => Current(artifact)

(* The success_rule of the case without a tool: "PASS when the planner     *)
(* gives a final answer without any tool call".                            *)
NoCallMeansAnAnswer ==
  report # None /\ report.autonomous = "available" =>
    \A i \in DOMAIN AutonomousCases :
      AutonomousCases[i].group = "no_tool_expected" => observed[i].stop = "completed"
=============================================================================
