--------------------------- MODULE EvalGateProofs ---------------------------
(***************************************************************************)
(* Theorems about EvalGate: what a verdict rests on, for any registered    *)
(* cases, any suite and any runs of them.                                  *)
(***************************************************************************)
EXTENDS EvalGate, FiniteSetTheorems, TLAPS

(* What each program leaves behind is a function of the runs.              *)
Evaluated ==
  /\ observed \in Seq(Range(observed))
  /\ pc = "live" => input.evaluate # "nothing" /\ wrapper = None
  /\ pc # "live" /\ input.evaluate # "nothing" => Len(observed) = Len(Registry)
  /\ pc # "live" /\ input.evaluate = "forced" =>
       artifact = PublicArtifact(observed, input.live)
  /\ pc # "live" /\ input.evaluate = "autonomous" =>
       artifact = AutonomousArtifact(observed, input.live)

Wrapped ==
  /\ pc = "wrap" => input.evaluate = "forced"
  /\ wrapper # None =>
       /\ input.evaluate = "forced" /\ Current(artifact)
       /\ wrapper = [count |-> Len(artifact.results), succeeded |-> artifact.succeeded]

Ran ==
  /\ offline \in Seq(Observations) /\ Len(offline) <= Len(input.suite)
  /\ \A i \in DOMAIN offline : offline[i] \in input.suite[i].may

Reported ==
  report # None =>
    /\ pc = "done" /\ Len(offline) = Len(input.suite)
    /\ report.gate = GateStatus(Results)
    /\ report.live = LiveStatus /\ report.autonomous = AutonomousStatus
    /\ report.promotion = "PASS" <=> Promotes(report.gate)

Inv ==
  /\ input \in Inputs
  /\ pc \in {"live", "wrap", "offline", "done"}
  /\ Evaluated /\ Wrapped /\ Ran /\ Reported

LEMMA SuitesAreSequences ==
  ASSUME NEW in \in Inputs
  PROVE  /\ in.suite \in Seq(Range(in.suite)) /\ Len(in.suite) \in Nat
         /\ DOMAIN in.suite = 1..Len(in.suite)
         /\ \A i \in DOMAIN in.suite :
              in.suite[i].type \in Types /\ in.suite[i].may \subseteq Possible(in.suite[i].type)
<1>1. in.suite \in Seq(Range(in.suite))
  BY InputAssumption
<1>2. \A i \in DOMAIN in.suite : in.suite[i] \in Range(in.suite)
  BY DEF Range
<1>3. QED
  BY <1>1, <1>2, InputAssumption

LEMMA InvInit == Init => Inv
<1> SUFFICES ASSUME Init PROVE Inv
  OBVIOUS
<1>1. Ran
  BY SuitesAreSequences DEF Init, Ran
<1>2. Evaluated
  BY InputAssumption DEF Init, Evaluated
<1>3. Wrapped /\ Reported
  BY DEF Init, Wrapped, Reported
<1>4. QED
  BY <1>1, <1>2, <1>3 DEF Init, Inv

LEMMA RunOfflineCaseKeepsInv == ASSUME Inv, RunOfflineCase PROVE Inv'
<1>1. /\ pc = "offline" /\ Len(offline) < Len(input.suite)
      /\ UNCHANGED <<input, observed, artifact, wrapper, report, pc>>
  BY DEF RunOfflineCase
<1> DEFINE n == Len(offline)
<1>2. PICK o \in input.suite[n + 1].may : offline' = Append(offline, o)
  BY DEF RunOfflineCase
<1>3. /\ offline \in Seq(Observations) /\ n \in Nat /\ DOMAIN offline = 1..n
      /\ n + 1 \in DOMAIN input.suite /\ Len(input.suite) \in Nat
  BY <1>1, SuitesAreSequences DEF Inv, Ran
<1>4. o \in Observations
  BY <1>2, <1>3, SuitesAreSequences DEF Inv, Possible
<1>5. /\ offline' \in Seq(Observations) /\ Len(offline') = n + 1
      /\ \A i \in DOMAIN offline' : offline'[i] = IF i = n + 1 THEN o ELSE offline[i]
      /\ \A i \in DOMAIN offline' : i # n + 1 => i \in DOMAIN offline
  BY <1>2, <1>3, <1>4
<1>6. Ran'
  BY <1>1, <1>2, <1>3, <1>5 DEF Inv, Ran
<1>7. report = None
  BY <1>1 DEF Inv, Reported
<1>8. QED
  BY <1>1, <1>6, <1>7 DEF Inv, Evaluated, Wrapped, Reported, Registry

LEMMA ReportKeepsInv == ASSUME Inv, Report PROVE Inv'
<1>1. /\ pc = "offline" /\ Len(offline) = Len(input.suite) /\ pc' = "done"
      /\ UNCHANGED <<input, observed, artifact, wrapper, offline>>
  BY DEF Report
<1>2. Ran' /\ Evaluated' /\ Wrapped'
  BY <1>1 DEF Inv, Ran, Evaluated, Wrapped, Registry
<1>3. Results' = Results /\ LiveStatus' = LiveStatus /\ AutonomousStatus' = AutonomousStatus
  BY <1>1 DEF Results, LiveStatus, AutonomousStatus
<1>4. \A gate : Promotes(gate)' = Promotes(gate)
  BY <1>1, <1>3 DEF Promotes
<1>5. /\ report'.gate = GateStatus(Results)
      /\ report'.live = LiveStatus /\ report'.autonomous = AutonomousStatus
      /\ report'.promotion = "PASS" <=> Promotes(report'.gate)
  BY DEF Report
<1>6. Promotes(report'.gate) <=> Promotes(report.gate)'
  BY <1>1, <1>3 DEF Promotes
<1>7. Reported'
  BY <1>1, <1>3, <1>5, <1>6 DEF Reported
<1>8. QED
  BY <1>1, <1>2, <1>7 DEF Inv

LEMMA InvNext == Inv /\ [Next]_vars => Inv'
<1> SUFFICES ASSUME Inv, [Next]_vars PROVE Inv'
  OBVIOUS
<1>1. CASE RunLiveCase
  <2>1. report = None
    BY <1>1 DEF RunLiveCase, Inv, Reported
  <2>2. PICK o : observed' = Append(observed, o)
    BY <1>1 DEF RunLiveCase
  <2>3. observed' \in Seq(Range(observed'))
    BY <2>2 DEF Inv, Evaluated, Range
  <2>4. QED
    BY <1>1, <2>1, <2>3 DEF RunLiveCase, Inv, Evaluated, Wrapped, Ran, Reported
<1>2. CASE Publish
  <2>1. report = None /\ wrapper = None
    BY <1>2 DEF Publish, Inv, Evaluated, Reported
  <2>2. QED
    BY <1>2, <2>1 DEF Publish, Inv, Evaluated, Wrapped, Ran, Reported, Registry
<1>3. CASE Wrap
  <2>1. report = None
    BY <1>3 DEF Wrap, Inv, Reported
  <2>2. QED
    BY <1>3, <2>1 DEF Wrap, Inv, Evaluated, Wrapped, Ran, Reported, Registry
<1>4. CASE RefuseToWrap
  <2>1. report = None
    BY <1>4 DEF RefuseToWrap, Inv, Reported
  <2>2. QED
    BY <1>4, <2>1 DEF RefuseToWrap, Inv, Evaluated, Wrapped, Ran, Reported, Registry
<1>5. CASE RunOfflineCase
  BY <1>5, RunOfflineCaseKeepsInv
<1>6. CASE Report
  BY <1>6, ReportKeepsInv
<1>7. CASE UNCHANGED vars
  <2>1. Results' = Results /\ LiveStatus' = LiveStatus /\ AutonomousStatus' = AutonomousStatus
    BY <1>7 DEF vars, Results, LiveStatus, AutonomousStatus
  <2>2. Promotes(report.gate)' <=> Promotes(report.gate)
    BY <1>7, <2>1 DEF vars, Promotes
  <2>3. Reported'
    BY <1>7, <2>1, <2>2 DEF vars, Inv, Reported
  <2>4. QED
    BY <1>7, <2>3 DEF vars, Inv, Evaluated, Wrapped, Ran, Registry
<1>8. QED
  BY <1>1, <1>2, <1>3, <1>4, <1>5, <1>6, <1>7 DEF Next

LEMMA Invariance == Spec => []Inv
BY InvInit, InvNext, PTL DEF Spec

-----------------------------------------------------------------------------
(* The result of a case keeps its type and its duration, and passes only   *)
(* when the run was right and did nothing that the case would not count.   *)
LEMMA ResultsTell ==
  ASSUME Inv, NEW i \in DOMAIN offline
  PROVE  /\ DOMAIN offline = 1..Len(offline) /\ Len(offline) \in Nat
         /\ input.suite[i].type \in Types /\ offline[i] \in Possible(input.suite[i].type)
         /\ Results[i] = Evaluate(input.suite[i].type, offline[i])
         /\ Results[i].type = input.suite[i].type
         /\ Results[i].slow = offline[i].slow
<1>1. /\ offline \in Seq(Observations) /\ Len(offline) <= Len(input.suite)
      /\ offline[i] \in input.suite[i].may
  BY DEF Inv, Ran
<1>2. i \in DOMAIN input.suite
  BY <1>1, SuitesAreSequences DEF Inv
<1>3. input.suite[i].type \in Types /\ offline[i] \in Possible(input.suite[i].type)
  BY <1>1, <1>2, SuitesAreSequences DEF Inv
<1>4. Results[i] = Evaluate(input.suite[i].type, offline[i])
  BY DEF Results
<1>5. QED
  BY <1>1, <1>3, <1>4 DEF Evaluate, Timed

LEMMA PassedCasesAreRight ==
  ASSUME NEW type \in Types, NEW o \in Possible(type),
         Evaluate(type, o).passed
  PROVE  ~o.raised /\ (type # "security_redaction" => o.declared)
<1>1. ~o.raised
  BY DEF Evaluate, Timed, Outcome
<1>2. CaseOutcome(type, o).passed
  BY <1>1 DEF Evaluate, Timed
<1>3. ASSUME type # "security_redaction" PROVE o.declared
  BY <1>2, <1>3 DEF CaseOutcome, Types, MockTypes, ProviderTypes, CoreTypes, Outcome,
     MockCase, RetrievalTop1, RetrievalNegative, SecurityProbe, CoreUnknownTool,
     CoreStepLimit, CoreBudgetStop, CoreMaxCost, MalformedNativeCall, ProviderContract,
     UnknownPricingCostCap
<1>4. QED
  BY <1>1, <1>3

LEMMA PassedCasesAreSafe ==
  ASSUME NEW type \in Types, NEW o \in Possible(type), ~o.raised,
         Evaluate(type, o).unsafe = {}
  PROVE  o.unsafe = {}
<1>1. CaseOutcome(type, o).counted = {}
  BY DEF Evaluate, Timed
<1>2. o.unsafe \in SUBSET Acts(type)
  BY DEF Possible
<1>3. CASE type \in {"mock_scenario", "security_probe"}
  BY <1>1, <1>2, <1>3 DEF CaseOutcome, Acts, MockCase, SecurityProbe, Violations, Outcome,
     UnsafeActs
<1>4. CASE type \in {"security_redaction", "retrieval_negative"}
  BY <1>1, <1>2, <1>4 DEF CaseOutcome, Acts, SecurityRedaction, RetrievalNegative, Outcome
<1>5. CASE type = "core_unknown_tool"
  BY <1>1, <1>2, <1>5 DEF CaseOutcome, Acts, CoreUnknownTool, Outcome
<1>6. CASE type \notin {"mock_scenario", "security_probe", "security_redaction",
                      "retrieval_negative", "core_unknown_tool"}
  BY <1>2, <1>6 DEF Acts
<1>7. QED
  BY <1>3, <1>4, <1>5, <1>6

LEMMA PassedCasesAreFree ==
  ASSUME NEW type \in Types, NEW o \in Possible(type), ~o.raised,
         ~Evaluate(type, o).costs,
         type \notin {"core_max_cost", "provider_unknown_tool_call"}
  PROVE  ~o.costs
<1>1. ~CaseOutcome(type, o).costs
  BY DEF Evaluate, Timed
<1>2. o.costs => type \in Charging
  BY DEF Possible
<1>3. QED
  BY <1>1, <1>2 DEF CaseOutcome, Charging, MockTypes, CoreTypes, Outcome,
     MockCase, RetrievalNegative, SecurityRedaction, SecurityProbe, CoreUnknownTool,
     CoreStepLimit, CoreBudgetStop

(* A retrieval case runs no agent: nothing in it is unsafe or costs.       *)
LEMMA HitsAreHarmless ==
  ASSUME NEW o \in Possible("retrieval_top1")
  PROVE  o.unsafe = {} /\ ~o.costs
BY DEF Possible, Acts, Charging, MockTypes, CoreTypes

(* gate_status PASS only when the runs were good, whatever the suite is    *)
(* and whichever of its cases raised.                                      *)
THEOREM PassesAreEarned == Spec => []PassIsEarned
<1>1. ASSUME Inv PROVE PassIsEarned
  <2> SUFFICES ASSUME report # None, report.gate = "PASS"
               PROVE  /\ \A i \in DOMAIN offline :
                           /\ ~IsTop1(i) => Right(i)
                           /\ offline[i].unsafe = {}
                           /\ offline[i].costs => Uncounted(i)
                      /\ LET hits == {i \in DOMAIN offline : IsTop1(i)}
                         IN  AtLeast(Cardinality({i \in hits : Right(i)}), MinTop1,
                                     Cardinality(hits))
    BY DEF PassIsEarned
  <2>1. MeetsThresholds(Results)
    BY <1>1 DEF Inv, Reported, GateStatus
  <2>2. DOMAIN Results = DOMAIN offline
    BY DEF Results
  <2>3. Golden(Results) = {i \in DOMAIN offline : ~IsTop1(i)}
    BY <1>1, <2>2, ResultsTell DEF Golden, IsTop1
  <2>4. Positive(Results) = {i \in DOMAIN offline : IsTop1(i)}
    BY <2>2, <2>3 DEF Positive
  <2>5. \A i \in DOMAIN offline : Results[i].passed => Right(i)
    BY <1>1, ResultsTell, PassedCasesAreRight DEF Right, Declares
  <2>6. ASSUME NEW i \in DOMAIN offline, ~IsTop1(i)
        PROVE  /\ Right(i) /\ offline[i].unsafe = {}
               /\ offline[i].costs => Uncounted(i)
    <3>1. Results[i].passed
      BY <2>1, <2>3, <2>6 DEF MeetsThresholds, PassedOf
    <3>2. Right(i)
      BY <2>5, <3>1
    <3>3. Results[i].unsafe = {} /\ ~Results[i].costs
      BY <2>1, <2>2 DEF MeetsThresholds
    <3>4. QED
      BY <1>1, <3>2, <3>3, ResultsTell, PassedCasesAreSafe, PassedCasesAreFree
         DEF Right, Uncounted
  <2>7. ASSUME NEW i \in DOMAIN offline, IsTop1(i)
        PROVE  offline[i].unsafe = {} /\ ~offline[i].costs
    BY <1>1, <2>7, ResultsTell, HitsAreHarmless DEF IsTop1
  <2> DEFINE hits == {i \in DOMAIN offline : IsTop1(i)}
             right == {i \in hits : Right(i)}
             passed == PassedOf(Results, hits)
  <2>8. AtLeast(Cardinality(passed), MinTop1, Cardinality(hits))
    BY <2>1, <2>4 DEF MeetsThresholds
  <2>9. /\ passed \in SUBSET right /\ right \in SUBSET hits
        /\ hits \in SUBSET DOMAIN offline
    BY <2>5 DEF PassedOf
  <2>10. IsFiniteSet(DOMAIN offline)
    <3>1. DOMAIN offline = 1..Len(offline) /\ Len(offline) \in Nat
      BY <1>1 DEF Inv, Ran
    <3>2. QED
      BY <3>1, FS_Interval
  <2>11. AtLeast(Cardinality(right), MinTop1, Cardinality(hits))
    <3> HIDE DEF hits, right, passed
    <3>1. IsFiniteSet(hits) /\ IsFiniteSet(right) /\ IsFiniteSet(passed)
      BY <2>9, <2>10, FS_Subset
    <3>2. /\ Cardinality(passed) <= Cardinality(right)
          /\ Cardinality(passed) \in Nat /\ Cardinality(right) \in Nat
          /\ Cardinality(hits) \in Nat
      BY <2>9, <3>1, FS_Subset, FS_CardinalityType
    <3>3. MinTop1 \in Int
      BY SuiteAssumption
    <3>4. QED
      BY <2>8, <3>2, <3>3 DEF AtLeast
  <2>12. QED
    BY <2>6, <2>7, <2>11
<1>2. QED
  BY <1>1, Invariance, PTL

(* The rank of the p95 leaves at most one slow case of twenty above it.    *)
LEMMA RankLeavesATwentieth ==
  ASSUME NEW n \in Nat, NEW fast \in Nat, fast >= Rank(n), fast <= n
  PROVE  20 * (n - fast) <= n
BY DEF Rank

(* A gate that passes was slow in at most one case of twenty.              *)
THEOREM PassesAreFast == Spec => []PassIsFast
<1>1. ASSUME Inv PROVE PassIsFast
  <2> SUFFICES ASSUME report # None, report.gate = "PASS"
               PROVE  20 * Cardinality({i \in DOMAIN offline : offline[i].slow}) <= Len(offline)
    BY DEF PassIsFast
  <2> DEFINE n == Len(offline)
             fast == Fast(Results)
             slow == {i \in DOMAIN offline : offline[i].slow}
  <2>1. DOMAIN offline = 1..n /\ n \in Nat
    BY <1>1 DEF Inv, Ran
  <2>2. IsFiniteSet(1..n) /\ Cardinality(1..n) = n
    <3> HIDE DEF n
    <3>1. QED
      BY <2>1, FS_Interval
  <2>3. fast = {i \in 1..n : ~offline[i].slow}
    BY <1>1, <2>1, ResultsTell DEF Fast, Results
  <2>4. slow = (1..n) \ fast /\ (1..n) \cap fast = fast /\ fast \in SUBSET 1..n
    BY <2>1, <2>3
  <2>5. Cardinality(fast) >= Rank(n)
    <3>1. Len(Results) = n
      BY <2>1 DEF Results
    <3>2. QED
      BY <1>1, <3>1 DEF Inv, Reported, GateStatus, MeetsThresholds
  <2> HIDE DEF n, fast, slow
  <2>6. /\ Cardinality(slow) = n - Cardinality(fast)
        /\ Cardinality(fast) \in Nat /\ Cardinality(fast) <= n
    <3>1. IsFiniteSet(fast) /\ Cardinality(fast) <= n
      BY <2>2, <2>4, FS_Subset
    <3>2. Cardinality(slow) = n - Cardinality(fast)
      <4>1. Cardinality((1..n) \ fast) = Cardinality(1..n) - Cardinality((1..n) \cap fast)
        BY <2>2, FS_Difference
      <4>2. QED
        BY <2>2, <2>4, <4>1
    <3>3. QED
      BY <3>1, <3>2, FS_CardinalityType
  <2>7. 20 * (n - Cardinality(fast)) <= n
    BY <2>1, <2>5, <2>6, RankLeavesATwentieth
  <2>8. QED
    BY <2>6, <2>7 DEF n, slow
<1>2. QED
  BY <1>1, Invariance, PTL

-----------------------------------------------------------------------------
(* A forced artifact holds one result for each registered case.            *)
LEMMA ForcedResults ==
  ASSUME Inv, input.evaluate = "forced", pc # "live"
  PROVE  /\ artifact.live = input.live
         /\ DOMAIN artifact.results = DOMAIN LiveCases
         /\ Len(artifact.results) = Len(LiveCases)
         /\ \A i \in DOMAIN LiveCases : artifact.results[i] = Result(LiveCases[i], observed[i])
         /\ artifact.succeeded = Cardinality(Successes(artifact.results))
         /\ Len(LiveCases) \in Nat /\ DOMAIN LiveCases = 1..Len(LiveCases)
<1> DEFINE results == [i \in DOMAIN observed |-> Result(LiveCases[i], observed[i])]
<1>1. artifact = PublicArtifact(observed, input.live)
  BY DEF Inv, Evaluated
<1>2. artifact.live = input.live /\ artifact.results = results
      /\ artifact.succeeded = Cardinality(Successes(results))
  BY <1>1 DEF PublicArtifact
<1>3. /\ LiveCases \in Seq(Range(LiveCases)) /\ observed \in Seq(Range(observed))
      /\ Len(observed) = Len(LiveCases)
  BY EvidenceAssumption DEF Inv, Evaluated, Registry
<1>4. DOMAIN observed = DOMAIN LiveCases /\ Len(results) = Len(LiveCases)
  BY <1>3
<1>5. QED
  BY <1>2, <1>3, <1>4

(* A success of the evaluator that the validators accept is earned.        *)
LEMMA ValidSuccessesAreEarned ==
  ASSUME NEW case \in Range(LiveCases), NEW o, Result(case, o).success,
         ValidResult(case, Result(case, o))
  PROVE  EarnsSuccess(case, o)
<1>1. ~o.raised /\ TaskSuccess(case, o) /\ Result(case, o).sources = o.sources
  BY DEF Result, Failure
<1>2. case.answer = "grounded" /\ "rag.search" \in case.expected
  BY EvidenceAssumption
<1>3. HasCitedAllowedSource(case, o.sources)
  BY <1>1 DEF ValidResult
<1>4. QED
  BY <1>1, <1>2, <1>3 DEF TaskSuccess, HasCitedAllowedSource, EarnsSuccess

(* promotion_status PASS rests on a gate that passed and on enough live    *)
(* runs that the evaluator called a success and the validators accepted.   *)
THEOREM PromotionsAreEarned == Spec => []PromotionIsEarned
<1>1. ASSUME Inv PROVE PromotionIsEarned
  <2> SUFFICES ASSUME report # None, report.promotion = "PASS"
               PROVE  /\ report.gate = "PASS" /\ input.release
                      /\ input.evaluate = "forced" /\ input.live
                      /\ LET earned == {i \in DOMAIN LiveCases :
                                         EarnsSuccess(LiveCases[i], observed[i])}
                         IN  Enough(Cardinality(earned))
    BY DEF PromotionIsEarned
  <2>1. pc = "done" /\ Promotes(report.gate)
    BY <1>1 DEF Inv, Reported
  <2>2. wrapper # None /\ report.gate = "PASS" /\ input.release /\ Enough(wrapper.succeeded)
    BY <2>1 DEF Promotes, LiveStatus
  <2>3. /\ input.evaluate = "forced" /\ Current(artifact)
        /\ wrapper.succeeded = artifact.succeeded
    BY <1>1, <2>2 DEF Inv, Wrapped
  <2>4. /\ artifact.live
        /\ \A i \in DOMAIN LiveCases : ValidResult(LiveCases[i], artifact.results[i])
    BY <2>3 DEF Current, Public
  <2> DEFINE won == Successes(artifact.results)
             earned == {i \in DOMAIN LiveCases : EarnsSuccess(LiveCases[i], observed[i])}
  <2>5. won \in SUBSET earned /\ earned \in SUBSET DOMAIN LiveCases
    <3>1. \A i \in DOMAIN LiveCases : LiveCases[i] \in Range(LiveCases)
      BY DEF Range
    <3>2. QED
      BY <1>1, <2>1, <2>3, <2>4, <3>1, ForcedResults, ValidSuccessesAreEarned DEF Successes
  <2>6. Enough(Cardinality(won))
    BY <1>1, <2>1, <2>2, <2>3, ForcedResults
  <2>7. Enough(Cardinality(earned))
    <3> HIDE DEF won, earned
    <3>1. IsFiniteSet(DOMAIN LiveCases) /\ Len(LiveCases) \in Nat
      BY <1>1, <2>1, <2>3, ForcedResults, FS_Interval
    <3>2. IsFiniteSet(earned) /\ IsFiniteSet(won)
      BY <2>5, <3>1, FS_Subset
    <3>3. /\ Cardinality(won) <= Cardinality(earned)
          /\ Cardinality(won) \in Nat /\ Cardinality(earned) \in Nat
      BY <2>5, <3>2, FS_Subset, FS_CardinalityType
    <3>4. MinSuccess \in Int
      BY EvidenceAssumption
    <3>5. QED
      BY <2>6, <3>1, <3>3, <3>4 DEF Enough
  <2>8. QED
    BY <1>1, <2>1, <2>2, <2>3, <2>4, <2>7, ForcedResults
<1>2. QED
  BY <1>1, Invariance, PTL

(* What the wrapper program accepted the gate accepts as well when it lies *)
(* beside its wrapper, and it draws the line where the evaluator drew it.  *)
THEOREM WrappersStayAccepted == Spec => []WrappersAreAccepted
<1>1. ASSUME Inv PROVE WrappersAreAccepted
  <2> SUFFICES ASSUME report # None, wrapper # None
               PROVE  /\ report.live = "available" <=> input.beside
                      /\ report.promotion = "PASS" <=>
                           /\ report.gate = "PASS" /\ input.release /\ input.beside
                           /\ Enough(Cardinality(Successes(artifact.results)))
    BY DEF WrappersAreAccepted
  <2>1. /\ pc = "done" /\ input.evaluate = "forced" /\ Current(artifact)
        /\ wrapper.count = Len(artifact.results) /\ wrapper.succeeded = artifact.succeeded
    BY <1>1 DEF Inv, Reported, Wrapped
  <2>2. wrapper.count >= 5 /\ Public(artifact)
    BY <1>1, <2>1, ForcedResults, EvidenceAssumption DEF Current
  <2>3. LiveStatus = "available" <=> input.beside
    BY <2>1, <2>2 DEF LiveStatus
  <2>4. wrapper.succeeded = Cardinality(Successes(artifact.results))
    BY <1>1, <2>1, ForcedResults
  <2>5. QED
    BY <1>1, <2>3, <2>4 DEF Inv, Reported, Promotes
<1>2. QED
  BY <1>1, Invariance, PTL

-----------------------------------------------------------------------------
(* An artifact of the tool selection holds one result for each case.       *)
LEMMA SelectionResults ==
  ASSUME Inv, input.evaluate = "autonomous", pc # "live"
  PROVE  /\ artifact.live = input.live
         /\ artifact.metrics = Metrics(artifact.results)
         /\ DOMAIN artifact.results = DOMAIN AutonomousCases
         /\ DOMAIN observed = DOMAIN AutonomousCases
         /\ Len(artifact.results) = Len(AutonomousCases)
         /\ \A i \in DOMAIN AutonomousCases :
              artifact.results[i] = Selection(AutonomousCases[i], observed[i])
<1> DEFINE results == [i \in DOMAIN observed |-> Selection(AutonomousCases[i], observed[i])]
<1>1. artifact = AutonomousArtifact(observed, input.live)
  BY DEF Inv, Evaluated
<1>2. artifact.live = input.live /\ artifact.results = results
      /\ artifact.metrics = Metrics(results)
  BY <1>1 DEF AutonomousArtifact
<1>3. /\ AutonomousCases \in Seq(Range(AutonomousCases))
      /\ observed \in Seq(Range(observed)) /\ Len(observed) = Len(AutonomousCases)
  BY EvidenceAssumption DEF Inv, Evaluated, Registry
<1>4. DOMAIN observed = DOMAIN AutonomousCases /\ Len(results) = Len(AutonomousCases)
  BY <1>3
<1>5. QED
  BY <1>2, <1>3, <1>4

LEMMA SuccessesSelect ==
  ASSUME NEW case, NEW o, Selection(case, o).success
  PROVE  /\ ~o.raised /\ SelectionSucceeds(case, o)
         /\ Selection(case, o).calls = o.calls /\ Selection(case, o).invalid = 0
         /\ ForbiddenExecutions(case, o.calls) = {}
         /\ ~MalformedGroup(case) => SelectedTool(case, o.calls) /\ ValidArgs(case, o.calls)
<1>1. ~o.raised /\ SelectionSucceeds(case, o) /\ Selection(case, o).calls = o.calls
  BY DEF Selection
<1>2. CASE MalformedGroup(case)
  BY <1>1, <1>2 DEF Selection, SelectionSucceeds, ForbiddenExecutions
<1>3. CASE ~MalformedGroup(case)
  <2>1. {i \in DOMAIN o.calls : o.calls[i].error} = {}
    BY <1>1, <1>3 DEF SelectionSucceeds
  <2>2. Selection(case, o).invalid = 0
    BY <1>1, <1>3, <2>1, FS_EmptySet DEF Selection
  <2>3. QED
    BY <1>1, <1>3, <2>2 DEF SelectionSucceeds
<1>4. QED
  BY <1>2, <1>3

(* When every case is a success, the metrics are perfect.                  *)
LEMMA SuccessesArePerfect ==
  ASSUME NEW results, DOMAIN results = DOMAIN AutonomousCases,
         \A i \in DOMAIN results :
           \E o : results[i] = Selection(AutonomousCases[i], o) /\ results[i].success
  PROVE  /\ Perfect(Metrics(results).tool_name_accuracy)
         /\ Perfect(Metrics(results).no_call_precision)
         /\ Perfect(Metrics(results).valid_args_rate)
         /\ Metrics(results).invalid_forbidden = {}
<1> DEFINE selecting == {i \in DOMAIN results :
                          ~MalformedGroup(AutonomousCases[i]) /\ AutonomousCases[i].expected # None}
           abstaining == {i \in DOMAIN results :
                          ~MalformedGroup(AutonomousCases[i]) /\ AutonomousCases[i].expected = None}
<1>1. ASSUME NEW i \in DOMAIN results
      PROVE  /\ results[i].invalid = 0
             /\ ForbiddenExecutions(AutonomousCases[i], results[i].calls) = {}
             /\ ~MalformedGroup(AutonomousCases[i]) =>
                  /\ SelectedTool(AutonomousCases[i], results[i].calls)
                  /\ ValidArgs(AutonomousCases[i], results[i].calls)
  <2>1. PICK o : results[i] = Selection(AutonomousCases[i], o) /\ results[i].success
    OBVIOUS
  <2>2. Selection(AutonomousCases[i], o).success
    BY <2>1
  <2>3. /\ results[i].calls = o.calls /\ results[i].invalid = 0
        /\ ForbiddenExecutions(AutonomousCases[i], o.calls) = {}
        /\ ~MalformedGroup(AutonomousCases[i]) =>
             /\ SelectedTool(AutonomousCases[i], o.calls)
             /\ ValidArgs(AutonomousCases[i], o.calls)
    BY <2>1, <2>2, SuccessesSelect
  <2>4. QED
    BY <2>3
<1>2. selecting # {} /\ abstaining # {}
  BY EvidenceAssumption DEF Range
<1>3. Metrics(results).tool_name_accuracy =
        [of |-> selecting,
         passed |-> {i \in selecting : SelectedTool(AutonomousCases[i], results[i].calls)}]
  BY DEF Metrics, Rate
<1>4. Metrics(results).no_call_precision =
        [of |-> abstaining,
         passed |-> {i \in abstaining : SelectedTool(AutonomousCases[i], results[i].calls)}]
  BY DEF Metrics, Rate
<1>5. Metrics(results).valid_args_rate =
        [of |-> selecting,
         passed |-> {i \in selecting : ValidArgs(AutonomousCases[i], results[i].calls)}]
  BY DEF Metrics, Rate
<1>6. Metrics(results).invalid_forbidden = {}
  BY <1>1 DEF Metrics
<1>7. QED
  BY <1>1, <1>2, <1>3, <1>4, <1>5, <1>6 DEF Perfect

(* The tool selection is accepted exactly when the evaluator called every  *)
(* case of a live run a success and no string reads like a secret.         *)
THEOREM SelectionsKeepAgreeing == Spec => []SelectionsAgree
<1>1. ASSUME Inv PROVE SelectionsAgree
  <2> SUFFICES ASSUME report # None, input.evaluate = "autonomous"
               PROVE  report.autonomous = "available" <=>
                        /\ input.live
                        /\ \A i \in DOMAIN observed :
                             /\ ~observed[i].raised
                             /\ SelectionSucceeds(AutonomousCases[i], observed[i])
                             /\ Strings(observed[i]) \cap Secretish = {}
    BY DEF SelectionsAgree
  <2> DEFINE results == artifact.results
  <2>1. pc = "done" /\ (report.autonomous = "available" <=> Autonomous(artifact))
    BY <1>1 DEF Inv, Reported, AutonomousStatus
  <2>2. /\ artifact.live = input.live /\ artifact.metrics = Metrics(results)
        /\ DOMAIN results = DOMAIN AutonomousCases /\ DOMAIN observed = DOMAIN AutonomousCases
        /\ Len(results) = Len(AutonomousCases)
        /\ \A i \in DOMAIN results : results[i] = Selection(AutonomousCases[i], observed[i])
    BY <1>1, <2>1, SelectionResults
  <2>3. \A i \in DOMAIN results :
          /\ Strings(results[i]) = Strings(observed[i])
          /\ results[i].success <=>
               ~observed[i].raised /\ SelectionSucceeds(AutonomousCases[i], observed[i])
    <3> TAKE i \in DOMAIN results
    <3>1. results[i] = Selection(AutonomousCases[i], observed[i])
      BY <2>2
    <3>2. CASE observed[i].raised
      BY <3>1, <3>2 DEF Selection, Strings
    <3>3. CASE ~observed[i].raised
      BY <3>1, <3>3 DEF Selection, Strings
    <3>4. QED
      BY <3>2, <3>3
  <2>4. Unsafe(results) <=>
          \E i \in DOMAIN observed : Strings(observed[i]) \cap Secretish # {}
    BY <2>2, <2>3 DEF Unsafe
  <2>5. (\A i \in DOMAIN results : results[i].success) =>
          /\ Perfect(artifact.metrics.tool_name_accuracy)
          /\ Perfect(artifact.metrics.no_call_precision)
          /\ Perfect(artifact.metrics.valid_args_rate)
          /\ artifact.metrics.invalid_forbidden = {}
    BY <2>2, SuccessesArePerfect
  <2>6. Autonomous(artifact) <=>
          /\ input.live /\ ~Unsafe(results)
          /\ \A i \in DOMAIN results : results[i].success
    BY <2>2, <2>5 DEF Autonomous
  <2>7. QED
    BY <2>1, <2>2, <2>3, <2>4, <2>6
<1>2. QED
  BY <1>1, Invariance, PTL
=============================================================================
