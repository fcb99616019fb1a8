----------------------------- MODULE MCEvalGate -----------------------------
(***************************************************************************)
(* Instances of EvalGate for TLC: the five live cases and the four of the  *)
(* tool selection, with a run of each kind for every one of them; suites   *)
(* with each type of case and each way its run can go, with five hits of   *)
(* which some are right, and with twenty cases of which some are slow.     *)
(***************************************************************************)
EXTENDS EvalGate

Tools == {"rag.search", "learner.get_profile", "quiz.generate"}

MCLiveCases ==
  [i \in 1..5 |->
    [answer |-> "grounded", expected |-> {"rag.search"}, sources |-> {"allowed"},
     allowed |-> Tools \ {"quiz.generate"}, forbidden |-> {"quiz.generate"}]]

SelectionCase(group, expected, args) ==
  [group |-> group, expected |-> expected, args |-> args,
   forbidden |-> Tools \ {"quiz.generate", expected}]

MCAutonomousCases ==
  <<SelectionCase("tool_required", "rag.search", "registered"),
    SelectionCase("no_tool_expected", None, "none"),
    SelectionCase("insufficient_malformed_arguments", None, "none"),
    SelectionCase("irrelevant_available_tools", None, "none")>>

-----------------------------------------------------------------------------
(* Forced runs: good ones, then those that fail in their own way.          *)
Source(label) == [label |-> label, indexed |-> TRUE]
Grounded ==
  [raised |-> FALSE, status |-> "grounded", stop |-> "completed", calls |-> {"rag.search"},
   sources |-> {Source("allowed")}, cited |-> TRUE, markers |-> 0, texts |-> {"text"}]
Abstained == [Grounded EXCEPT !.status = "abstain", !.sources = {}, !.cited = FALSE]
Raised == [Abstained EXCEPT !.raised = TRUE, !.stop = "dependency", !.calls = {}]
OtherSource == [Grounded EXCEPT !.sources = {Source("other")}]
Leaked == [Grounded EXCEPT !.markers = 1]
Wandered ==
  [Abstained EXCEPT !.calls = {"rag.search", "quiz.generate"}, !.stop = "unknown_tool"]
Unindexed ==
  [Grounded EXCEPT !.sources = {Source("other"), [label |-> "allowed", indexed |-> FALSE]}]
Telling == [Grounded EXCEPT !.texts = {"text", "secret"}]
OutOfTokens == [Abstained EXCEPT !.stop = "max_tokens"]

ForcedRuns ==
  {Grounded, [Grounded EXCEPT !.calls = Tools \ {"quiz.generate"}],
   [Abstained EXCEPT !.stop = "llm_error"], Raised, OtherSource, Leaked, Wandered,
   Unindexed, Telling}

-----------------------------------------------------------------------------
(* Runs that choose their tools.                                           *)
Called(name, args) == [name |-> name, args |-> args, executed |-> TRUE, error |-> FALSE]
Chose(calls) ==
  [raised |-> FALSE, stop |-> "completed", calls |-> calls, texts |-> {"text"}]

SelectedRuns ==
  LET search == Called("rag.search", "registered")
      failed == [search EXCEPT !.error = TRUE]
      malformed == [search EXCEPT !.args = "none", !.executed = FALSE, !.error = TRUE]
  IN  {Chose(<< >>), Chose(<<search>>), Chose(<<search, search>>), Chose(<<failed>>),
       Chose(<<Called("rag.search", "other")>>),
       Chose(<<Called("learner.get_profile", "none")>>),
       [Chose(<<malformed>>) EXCEPT !.stop = "invalid_decision"],
       [Chose(<<malformed>>) EXCEPT !.stop = "invalid_decision", !.texts = {"secret"}],
       [Chose(<< >>) EXCEPT !.stop = "max_tokens"],
       [raised |-> TRUE, stop |-> "dependency", calls |-> << >>, texts |-> {"text"}]}
UnansweredRuns == SelectedRuns \cup {[Chose(<< >>) EXCEPT !.stop = "llm_error"]}

-----------------------------------------------------------------------------
(* Runs of the suite.                                                      *)
AsDeclared == [raised |-> FALSE, declared |-> TRUE, unsafe |-> {}, costs |-> FALSE, slow |-> FALSE]
Drifted == [AsDeclared EXCEPT !.declared = FALSE]
Slow == [AsDeclared EXCEPT !.slow = TRUE]

Ways(acts, costs) ==
  {[o EXCEPT !.unsafe = u, !.costs = c, !.raised = r] :
     o \in {AsDeclared, Drifted}, u \in SUBSET acts, c \in costs, r \in BOOLEAN}

Case(type, may) == [type |-> type, may |-> may]
Good(type) == Case(type, {AsDeclared})
Hit == Good("retrieval_top1")

Costs(type) == IF type \in Charging THEN BOOLEAN ELSE {FALSE}

Executed == [Drifted EXCEPT !.unsafe = {"execution"}]

EachType ==
  {<<Hit, Case(type, Ways(Acts(type), Costs(type)))>> : type \in Types \ {"core_unknown_tool"}}
    \cup {<<Hit, Case("core_unknown_tool",
                      {AsDeclared, Drifted, Executed, [Executed EXCEPT !.declared = TRUE],
                       [Executed EXCEPT !.raised = TRUE]})>>}
    \cup {<< >>, <<Hit>>, <<Good("mock_scenario")>>}

Hits ==
  <<Good("mock_scenario")>> \o
    [i \in 1..5 |-> Case("retrieval_top1", {AsDeclared, Drifted, [AsDeclared EXCEPT !.raised = TRUE]})]

Timing(n) ==
  [i \in 1..n |-> IF i = 1 THEN Hit
                  ELSE Case("mock_scenario", {AsDeclared} \cup (IF i < 5 THEN {Slow} ELSE {}))]

-----------------------------------------------------------------------------
In(evaluate, live, runs, suite, release) ==
  [evaluate |-> evaluate, live |-> live, runs |-> runs, suite |-> suite, release |-> release,
   beside |-> TRUE]
Offline(suite) == In("nothing", FALSE, {}, suite, FALSE)
Small == <<Hit, Case("mock_scenario", {AsDeclared, Drifted})>>

MCInputs ==
  {Offline(suite) : suite \in EachType \cup {Hits, Timing(19), Timing(20), Timing(40)}}
    \cup {In("forced", TRUE, ForcedRuns, Small, release) : release \in BOOLEAN}
    \cup {[In("forced", TRUE, {Grounded, Raised}, Small, TRUE) EXCEPT !.beside = FALSE]}
    \cup {In("forced", FALSE, {Grounded, Raised}, Small, TRUE)}
    \cup {In("autonomous", live, SelectedRuns, Small, FALSE) : live \in BOOLEAN}

TokenInputs == {In("forced", TRUE, {Grounded, Raised, OutOfTokens}, Small, TRUE)}
UnansweredInputs == {In("autonomous", TRUE, UnansweredRuns, Small, FALSE)}
=============================================================================
