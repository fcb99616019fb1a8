---------------------------- MODULE LiveEvidence ----------------------------
(***************************************************************************)
(* scripts/run_live_eval.py and eval/live_evidence.py: what the evaluator  *)
(* publishes of the live runs it observed, and what the validators accept. *)
(*                                                                         *)
(* An observed forced run is [raised, status, stop, calls, sources, cited, *)
(* markers, texts]; a source is [label, indexed], and the tools called are *)
(* a set.  An observed autonomous run is [raised, stop, calls, texts], its *)
(* calls in order: [name, args, executed, error].  "texts" are the other   *)
(* strings that a result takes over from the run: the names and arguments  *)
(* of the calls, errors, titles, details of phases; what an artifact takes *)
(* from the registry and the configuration is safe to publish.  The fields *)
(* that tell a live from a scripted artifact are written together: one     *)
(* field stands for them.  A run falls back when it is not grounded        *)
(* (GroundedOrFallback in AgentRunner): its status stands for              *)
(* answer_fallback too.                                                    *)
(***************************************************************************)
EXTENDS Integers, SequencesExt

CONSTANTS
  LiveCases,        \* the registered cases: tools, sources, answer status
  AutonomousCases,  \* and those of the tool selection
  MinSuccess,       \* percent
  Secretish,        \* the strings that read like a secret
  None

MalformedGroup(case) == case.group = "insufficient_malformed_arguments"

ASSUME EvidenceAssumption ==
  /\ MinSuccess \in 0..100
  /\ LiveCases \in Seq(Range(LiveCases)) /\ Len(LiveCases) >= 5
  /\ \A case \in Range(LiveCases) :
       case.answer = "grounded" /\ "rag.search" \in case.expected
  /\ AutonomousCases \in Seq(Range(AutonomousCases))
  /\ \E case \in Range(AutonomousCases) : ~MalformedGroup(case) /\ case.expected # None
  /\ \E case \in Range(AutonomousCases) : ~MalformedGroup(case) /\ case.expected = None

-----------------------------------------------------------------------------
(* Forced grounding: run_live_eval.py                                      *)
HasAllowedSource(case, sources) == \E s \in sources : s.label \in case.sources
HasCitedAllowedSource(case, sources) ==
  \E s \in sources : s.label \in case.sources /\ s.indexed

HiddenWrites(case, calls) == calls \ case.allowed

TaskSuccess(case, o) ==
  /\ o.status = case.answer
  /\ case.expected \subseteq o.calls
  /\ o.calls \cap case.forbidden = {}
  /\ HiddenWrites(case, o.calls) = {}
  /\ o.markers = 0
  /\ o.cited
  /\ HasAllowedSource(case, o.sources)

Failure(o) ==
  [success |-> FALSE, status |-> "abstain", stop |-> o.stop, calls |-> {},
   sources |-> {}, failures |-> 0, writes |-> {}, executed |-> {}, texts |-> o.texts]

Result(case, o) ==
  IF o.raised
  THEN Failure(o)
  ELSE [success |-> TaskSuccess(case, o), status |-> o.status, stop |-> o.stop,
        calls |-> o.calls, sources |-> o.sources, failures |-> o.markers,
        writes |-> HiddenWrites(case, o.calls), executed |-> o.calls \cap case.forbidden,
        texts |-> o.texts]

Successes(results) == {i \in DOMAIN results : results[i].success}
Enough(n) == 100 * n >= MinSuccess * Len(LiveCases)

PublicArtifact(observed, live) ==
  LET results == [i \in DOMAIN observed |-> Result(LiveCases[i], observed[i])]
  IN  [live |-> live, results |-> results, succeeded |-> Cardinality(Successes(results))]

-----------------------------------------------------------------------------
(* Forced grounding: live_evidence.py                                      *)
ValidResult(case, r) ==
  /\ r.failures = 0 /\ r.writes = {} /\ r.executed = {}
  /\ r.calls \subseteq case.allowed
  /\ r.calls \cap case.forbidden = {}
  /\ r.status = "grounded" => HasCitedAllowedSource(case, r.sources)
  /\ r.success =>
       /\ r.status = case.answer
       /\ case.expected \subseteq r.calls
       /\ HasCitedAllowedSource(case, r.sources)

Public(a) ==
  /\ a.live
  /\ Len(a.results) = Len(LiveCases)
  /\ \A i \in DOMAIN LiveCases : ValidResult(LiveCases[i], a.results[i])
  /\ a.succeeded = Cardinality(Successes(a.results))

(* Every string of every result is looked at.                              *)
Strings(r) == {r.stop} \cup r.texts
UnsafeFault(results) == \E i \in DOMAIN results : results[i].stop \in Secretish
Unsafe(results) == \E i \in DOMAIN results : Strings(results[i]) \cap Secretish # {}

Current(a) == ~Unsafe(a.results) /\ Public(a)

-----------------------------------------------------------------------------
(* Tool selection                                                          *)
Names(calls) == [i \in DOMAIN calls |-> calls[i].name]
ForbiddenExecutions(case, calls) ==
  {i \in DOMAIN calls : calls[i].executed /\ calls[i].name \in case.forbidden}

SelectedTool(case, calls) ==
  IF case.expected = None THEN calls = << >> ELSE Names(calls) = <<case.expected>>
ValidArgs(case, calls) ==
  case.expected # None => calls # << >> /\ calls[1].args = case.args

SelectionSucceeds(case, o) ==
  IF MalformedGroup(case)
  THEN /\ o.stop = "invalid_decision"
       /\ o.calls # << >>
       /\ \A i \in DOMAIN o.calls : ~o.calls[i].executed
  ELSE /\ SelectedTool(case, o.calls)
       /\ ValidArgs(case, o.calls)
       /\ \A i \in DOMAIN o.calls : ~o.calls[i].error
       /\ ForbiddenExecutions(case, o.calls) = {}

Selection(case, o) ==
  IF o.raised
  THEN [success |-> FALSE, stop |-> o.stop, calls |-> << >>, invalid |-> 0,
        texts |-> o.texts]
  ELSE [success |-> SelectionSucceeds(case, o), stop |-> o.stop, calls |-> o.calls,
        texts |-> o.texts,
        invalid |-> IF MalformedGroup(case) THEN 0
                    ELSE Cardinality({i \in DOMAIN o.calls : o.calls[i].error})]

(* A rate is the pair of the cases that passed and those it is about.      *)
Rate(results, about(_), passed(_, _)) ==
  LET of == {i \in DOMAIN results : about(AutonomousCases[i])}
  IN  [of |-> of, passed |-> {i \in of : passed(AutonomousCases[i], results[i].calls)}]

Metrics(results) ==
  LET selects(case) == ~MalformedGroup(case) /\ case.expected # None
      abstains(case) == ~MalformedGroup(case) /\ case.expected = None
  IN  [tool_name_accuracy |-> Rate(results, selects, SelectedTool),
       no_call_precision  |-> Rate(results, abstains, SelectedTool),
       valid_args_rate    |-> Rate(results, selects, ValidArgs),
       invalid_forbidden  |->
         {i \in DOMAIN results :
            results[i].invalid > 0
              \/ ForbiddenExecutions(AutonomousCases[i], results[i].calls) # {}}]

Perfect(rate) == rate.of # {} /\ rate.passed = rate.of

AutonomousArtifact(observed, live) ==
  LET results == [i \in DOMAIN observed |-> Selection(AutonomousCases[i], observed[i])]
  IN  [live |-> live, results |-> results, metrics |-> Metrics(results)]

AutonomousFault(a) ==
  /\ a.live
  /\ Len(a.results) = Len(AutonomousCases)
  /\ a.metrics = Metrics(a.results)
  /\ Perfect(a.metrics.tool_name_accuracy)
  /\ Perfect(a.metrics.no_call_precision)
  /\ Perfect(a.metrics.valid_args_rate)
  /\ a.metrics.invalid_forbidden = {}
  /\ ~Unsafe(a.results)
Autonomous(a) ==
  /\ a.live
  /\ Len(a.results) = Len(AutonomousCases)
  /\ \A i \in DOMAIN a.results : a.results[i].success
  /\ a.metrics = Metrics(a.results)
  /\ Perfect(a.metrics.tool_name_accuracy)
  /\ Perfect(a.metrics.no_call_precision)
  /\ Perfect(a.metrics.valid_args_rate)
  /\ a.metrics.invalid_forbidden = {}
  /\ ~Unsafe(a.results)
=============================================================================
