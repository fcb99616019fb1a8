# Verification of agent-coach

TLA+ models of the agent loop of `agent_coach` (`src/src/agent_coach`), of the
store behind its HTTP API, of its retrieval, and of the programs that evaluate
it and publish the evidence, with the properties that make them correct. TLC
checks the properties on small instances; TLAPS proves those of them that are
not liveness, for every value of the constants. `PROJECT.json` lists the components, the
runs, the seeded faults, the source lines behind every definition, the hazards
and the findings.

## 1. The system

An *agent run* answers one question. `AgentRunner.run` is a loop: check the
budget, ask a planner for a decision, carry the decision out (execute a tool,
or guard and return an answer), record the step. Everything it does not do
itself is behind a port, and every port may fail.

| Part | State | Operations | Hard about it |
|---|---|---|---|
| Agent runner (`core/runner.py`) | the run's accounting, its steps, its merged sources | `run` and its helpers | nine ways to end a run inside a step, each of which must store the step, charge its usage and choose the reason; every port call may raise |
| Stop controller (`core/stop_controller.py`) | `RunState` | `evaluate_stop`, call hashes, error counter | three call sites with different flags; 0 means "no limit" for some limits and 0 for others |
| Contracts (`core/contracts.py`, `core/text.py`) | none; properties of a result | `answer_status`, grounding, `merge_sources` | the status of an answer depends on steps, sources, wording and flags; merging collapses sources of one file and stops at a cap |
| Security policy (`core/security.py`) | none | argument validation, compaction and redaction, final guard | text processing; the runner must fail closed when it raises |
| Mock API service (`api/service.py`) | two dictionaries under one lock | `create_run`, `get_run`, eviction | threads; idempotent replay against eviction; a result refused after it was computed |
| API application (`api/app.py`, `models.py`, `server.py`) | per request | routing, payload limit middleware | chunked bodies, clients that go away |
| Mock composition (`mock/`) | position in the script | scripted planner, tools, clock, store | none shared |
| Responses planner (`provider/`) | history of one pending tool call | `decide`, `reset_run` | what is replayed to the provider must fit the runner's steps; failures carry usage |
| Live profile (`profiles/live.py`) | none | wiring of planner, runner and the retrieval tool | |
| Retrieval (`retrieval/`) | the rows of the vector index with their digests, the knowledge base | load, build, rebuild, search, the tool `rag.search`, the planner and synthesizer of the demo | index and knowledge base are passed separately; loader, store, tool and search validate with limits of their own; a rebuild may fail halfway; ties in the ranking |
| Offline suite (`eval/gate.py`, `scripts/run_eval_gate.py`) | results of the cases | one evaluator per case type, metrics, thresholds, gate and promotion status | a case that raises loses its counters; rates, percentiles and roundings; a verdict must belong to the commit it names |
| Live evidence (`eval/live_evidence.py`, `scripts/run_live_eval.py`) | artifact and wrapper files, git | live cases, projection of a run, validators, wrapping, publication | evaluator, validator, wrapper and gate judge one artifact with definitions of their own; several files published together |
| Release scripts (`scripts/check_*.py`) | files | checks | pure functions of a directory |

The interactions: the API builds a mock composition for each new run and calls
`AgentRunner.run` under its lock. The runner calls planner, tools, security
policy, accounting, clock and store, synchronously and in a fixed order. The
live profile plugs the Responses planner and the retrieval tool into the same
ports. The offline gate drives the runner from outside, case by case. The live
evaluator does so with a provider and writes an artifact; the wrapper program
validates it and writes a wrapper; the gate reads both and decides on a
promotion.

What makes each part correct: the runner's result, what its store was offered,
its accounting and its phases tell one story, no call starts past a limit or
against its contract, and an answer is grounded in evidence of its own run; the
API executes a key once and its dictionaries fit together; the live planner
replays what belongs to the run and charges what was paid for; the index is one
whole corpus and a citation names no other source than the quoted one; a PASS is earned by the runs it
counts, and evidence describes the commit it names.

## 2. The modules

| Module | Models |
|---|---|
| `StopController` | `evaluate_stop`, one operator per limit |
| `Evidence` | sources, `merge_sources`, labels and citations |
| `Sums` | sums over finite sets, defined without recursion |
| `AgentRunner` | `AgentRunner.run`: one action per stretch of code between two port calls |
| `PhaseTrace` | the phases a result reports, as a function of the finished run |
| `MCPhaseTrace` | an instance of `PhaseTrace` for TLC |
| `RunContract` | abstract: an open run performs allowed calls once each and closes with one outcome |
| `MCAgentRunner` | instances of `AgentRunner` for TLC |
| `MockApi` | `MockApiService` under threads: one action per statement under the lock that touches shared state |
| `RetainedRuns` | abstract: an atomic, bounded list of runs known by key and body |
| `MCMockApi` | an instance of `MockApi` for TLC |
| `ResponsesPlanner` | the live planner: what it keeps between two decisions, what it accepts of a provider, what it sends; the model router |
| `LiveRun` | `AgentRunner` with that planner, run after run |
| `MCLiveRun` | instances of `LiveRun` for TLC |
| `Promotion` | the live evaluator, the wrapper program and the evaluation gate, over one checkout and its files |
| `MCPromotion` | instances of `Promotion` for TLC |
| `Retrieval` | loader, index, tool and scripted planner over one index that may be built again |
| `MCRetrieval` | an instance of `Retrieval` for TLC |
| `OfflineSuite` | each evaluator of a case, the metrics and the gate status, as operators |
| `LiveEvidence` | the evaluator's projection of a live run and the validators, as operators |
| `EvalGate` | evaluator, wrapper program and gate in sequence, over `OfflineSuite` and `LiveEvidence` |
| `MCEvalGate` | instances of `EvalGate` for TLC |
| `PayloadLimit` | the API's payload limit middleware, for one request |
| `MCPayloadLimit` | an instance of `PayloadLimit` for TLC |
| `AgentRunnerProofs` | theorems about `AgentRunner`, `Evidence` and `Sums` |
| `RunStoreProofs` | theorems about `AgentRunner` and `PhaseTrace`, on those of `AgentRunnerProofs` |
| `LiveRunProofs` | theorems about `LiveRun`, on those of `RunStoreProofs` |
| `MockApiProofs`, `PromotionProofs`, `PayloadLimitProofs`, `RetrievalProofs`, `EvalGateProofs` | theorems about the module they are named for |

Operators whose names end in `Fault`, or that are named for what goes wrong
(`EndWithoutStoring`, `EndWithRetry`, `EvictForever`), are not part of the
specification. Each stands before the definition it is a mistaken version of,
and exists to show that some property notices the mistake; `PROJECT.json`
pairs it with that property.

### AgentRunner

`pc` names the port call the runner makes next; the other variables are the
locals of `run` (`run` is `RunState`; `steps`, `sources`, `decision`), the
arguments of a pending `_finish` (`ending`), and three observations: what the
store was offered (`log`), what the tool executor received (`executed`) and
what the caller got (`result`). `now` is the clock, which may move whenever it
is read.

Port calls return or raise. An exception reaches the runner as a text,
`trace_text(exc)`, and the runner tests that text for truth. An exception
without a message is therefore "no error" to it. The constant `Messageless`
says which ports may raise such an exception, so that this behaviour can be
switched per instance.

Abstractions: a planner decision is its action with a call (a name and an
argument) or with what its answer cites, whether it abstains and whether it is
marked as a fallback; a tool reply is its ok flag, its evidence flag, its
sources, tokens and cost, as they are after `secure_tool_result`; a usage
report is a number or malformed. A source is its identity and three of the
fields that are merged one by one: of the six keys `_source_label` tries in
order, two (`file`, `title`), and the citation index. Text, redaction, JSON schemas and durations
are left out. Tokens and cost are natural numbers.

### PhaseTrace

Operators over a finished run of `AgentRunner`. Nothing is recorded while the
run goes on: `_steps_for_phase` sorts the steps afterwards, by a phase that a
failed planner call named, by the tool, or by being an answer, and a step may
belong to no phase. The phase `scenario_selection` depends on the request
alone, and durations, routes and wording are left out.

### MockApi

A run id is a hash of the normalized idempotency key and the fingerprint of
the request; here it is that pair. A request without a key has a key derived
from its body. Executing a request is one step: the composition is built per
request and shares nothing. The order of `_runs` is kept, since the eviction
goes by it.

### ResponsesPlanner and LiveRun

`ResponsesPlanner` has operators only: the planner is called by the runner and
does nothing by itself. `planner` holds `_pending_history`, `_pending_call_id`
and `_pending_output`; an output is the position of the step whose result it
was made of, so that a property can say whose output it is. A request is the
sequence of its items; a response is a record of what the adapter looks at.
`LiveRun` takes a step of the runner at its planner port together with the
planner's step, and adds `NextRun`, because one planner serves many runs.
Replay of reasoning items and the schema checks of items are part of `sound`.
`billed` counts the tokens of the responses the client could read, `unread` those
of responses it could not normalize, which no part of the program ever sees.

### Promotion

`files` is the directory outside the checkout: the artifact, the wrapper, and
the partial file of each. `tree` is what git tells: HEAD and whether the
worktree is clean. It changes at any time, also while the evaluator or the gate
measures, and the three programs overlap as they like; two runs of one program
do not. Whatever fails (git, a read, a write, a refusal) is `Refuse`; a kill is
`Killed`. The two programs that publish share the actions of
`_publish_evidence_file`. The evidence of the clean clone is made by hand
elsewhere, and names any commit. The autonomous evidence is reported by the
gate and blocks nothing, so it is left out.

Three things are recorded for the properties alone. `moved` says whether the
checkout changed since a measuring program began; from it an artifact and a
report are `honest` when the checkout was left alone and was the clean commit
they name, or when it was not left alone (of such a measurement the code promises nothing). A
wrapper remembers the artifact its program read `first`. `Bound` and `left` are
no part of the code: they bound how often programs are started, the checkout
changes and a program is killed.

### Retrieval

`store` is the index in use with the two digests it publishes; `base` is the
knowledge base the tool was given; `pending` is a build that goes on, and `run`
is one question with its call, its result and its answer. A build starts as
`Compose` (a document that loads, with its own chunks, as the tool's composition
does) or as `Rebuild` (any chunks, while the tool lives on with its knowledge
base). `Shown` is what the run makes of the sources of the hits: `Evidence`'s
`MergeSources`, in which the hits of one file become one source, because the
compacted sources have no text. `IndexChunk` is one turn of the loop, `FailBuild` an
error in it, and `FinishBuild` the assignments that make the new index the one
in use. `Ask`, `CallTool`, `Answer` and `Leave` are one question.

A text is the set of its words, and the digest of chunks is their set: two
digests are equal when the chunks are. How similar a question and a chunk are is
a choice made when it is asked, so nothing depends on the embedding; thresholds,
the overlap of words, ranking and `top_k` are the code's. Normalisation, hashing
and stemming are left out, except that a longer word may extend a question's.

### OfflineSuite, LiveEvidence and EvalGate

An *observed run* of a suite case says whether the case raised, whether the run
ended as the case declares, which unsafe acts happened in it, whether it cost
anything and whether it was slow. The cost of a run on the scripted provider's
route is unknown, and the gate's sum leaves it out, as the model does. What each evaluator reports of it is one
operator per case type; `Acts`, `Charging` and `Possible` say which runs a case
of the type can have. `Rank` is the integer form of the index of the 95th
percentile. The metric `unknown_pricing` is a golden case too and adds nothing
to its rate; metrics by category have no threshold and are left out, and so are
the checks of the frozen suite's hash and of its 47 cases. Rates are rounded to
six digits in the code, which no threshold can tell.

An observed live run is its stop reason, status, calls, sources and the other
strings it leaves in a result; an autonomous one is its calls in order, its stop
reason and its strings. Which strings read like a secret is a constant. Fields that are written together are one
field. A run that is not grounded has a fallback answer (this is
`GroundedOrFallback` of `AgentRunner`), so its status stands for that too.

`EvalGate` runs one case per action. An input says whether the artifact lies in
the directory of its wrapper, where the gate looks for it. It has one commit and a clean worktree;
commits, files and crashes are the subject of `Promotion`, which in turn takes
the verdict of the cases for a choice.

### PayloadLimit

One action per message received. A chunk is its size and whether more follow;
the application reads until the body ends or the client is gone, as ASGI
applications do. Other scopes than HTTP pass through and are left out.

## 3. What is checked

| Run | Instance | Shows |
|---|---|---|
| `control` | up to 2 steps; token, cost, step and error limits each reached; a retrieval, a learner, a write and an unknown tool; valid, invalid and non-object arguments; tool replies that succeed, fail, cost, and report malformed usage; silent failures of every port but the clock | `TypeOK`, `ScreenedExecution`, `StoreOrder`, `StoredStepsAreFinal`, `CallsWithinBudget`, `UsageLedger`, and `EveryRunEnds` under fairness |
| `evidence` | up to 3 steps; two records of one source, one with a file and one with a title, and a source without a label; a cap of 1 | `GroundedOrFallback`, `GroundedOnStoredEvidence`, `SourcesComeFromStoredSteps`, and `ImplementsContract`: the runner implements `RunContract` |
| `deadline_and_phases` | the tools of `control` with a weak reply; step, token, time and error limits; a clock of 5 values that may jump between any two port calls, deadlines of 1 and 2; no silent failures | `CallsWithinDeadline`, `FinalValidationTellsTheEnd`, `ToolPhasesTellWhatRan`, `PhasesShowTheUsage` |
| `silent_store` | a store whose exception has no message | finding: `StoreFailuresEndTheRun` is violated |
| `mock_api` | 2 threads, 3 keys, 2 retained runs, 4 bodies (two complete, one is too large, one is unknown) | `Paired`, `LookupStillHolds`, `LockIsReleased`, and `ImplementsRetainedRuns`: the service implements `RetainedRuns` |
| `live_replay` | up to 3 steps, run after run; two tools and one that is unknown; responses that call, answer, are empty, call twice, call with arguments that are no object, with a blank id, without a response id, are incomplete, or report malformed usage; requests that fail, with or without tokens that nobody sees; no required call, one that can be made, one that cannot | `OutputsAnswerTheirCalls`, `RunsShareNothing`, `LimitsSeeEveryToken`, `NothingAfterSuccess`, `RequiredCallComesFirst` |
| `promotion` | 2 commits, 2 rates; 2 evaluators, 2 wrapper programs and a gate, one after another or overlapping; everything fails, one publisher is killed, and the checkout changes 3 times, at any time | `PassRestsOnItsCommit`, `PassNeedsBothReadings`, `PublishedFilesAreWhole` |
| `payload_limit` | a limit of 3, up to 4 chunks of 0, 1, 2 or 4 bytes, headers of 0, 3, 4 or none | `LimitIsExact`, `ServedBodiesAreComplete` |
| `retrieval` | 12 documents: a good one, its next version, and one for each way the loader refuses; 8 lists of chunks to build with, among them one with a stranger, a double, a blank, too many and none; 5 questions and 8 calls; at most 3 chunks; 4 scores, of which one is below the threshold; two chunks of one file and one of another | `IndexIsWhole`, `AnswersComeFromOneCorpus`, `LoadedCorporaAreUsable`, `HitsAreRanked`, `CitationNamesAShownSource` |
| `eval_gate` | suites of a hit and one case of each type with every run that case can have; five hits of which some are missed; 19, 20 and 40 cases of which some are slow; 5 live cases with 9 kinds of runs, among them one with its allowed source unindexed and one that leaves a string like a secret; 4 cases of tool selection with 10; an artifact beside its wrapper and one that is not | `PassIsEarned`, `PassIsFast`, `PromotionIsEarned`, `WrappersAreAccepted`, `SelectionsAgree` |
| `token_limit_stop` | 5 live cases that succeed, raise, or stop at the token limit | finding: `EnoughSuccessIsPublishable` is violated |
| `unanswered_no_call` | the tool selection with a run that fails before it answers | finding: `NoCallMeansAnAnswer` is violated |

Why these bounds are enough to meet the interesting cases: two steps are
needed to call a tool and then answer, repeat a call or hit a limit after a
call; three to merge twice and then answer; a cap of 1 is exceeded by one
list of two sources; one more key than retained runs is needed to evict, and two
threads to interleave; a failed call, another call and an answer make the
conversation of the live planner as long as it gets, and a second run meets
what the first one left; two commits tell the right one from a wrong one, a
second evaluation and a second wrapping let an artifact be replaced between the
two readings of the wrapper program, and three changes let the checkout move
away, come back, and move again during the gate; chunks below, at and above the limit in all orders reach it exactly, by one
more, and not. Three chunks in an index are more than the `top_k` of 1 shows and
as many as the largest may show, with room for a tie and one below the
threshold; there is a document for each way the loader refuses, and a rebuild
with fewer, other or the same chunks in another order makes index and knowledge
base differ in every way they can. Five live cases are the least the registry
may have, and the rate of 80% is exactly four of them; 19 cases are the most of
which the percentile leaves out none, 20 the least of which it leaves out one,
and of 40 it leaves out two. Two threads are the interesting number because all
operations are under one lock; the theorems cover any number.

Fairness. `AgentRunner!FairSpec` assumes weak fairness of the runner's own
steps: `run` is synchronous, single-threaded code, and each port call returns
or raises. A port that blocks for ever is outside the model, as it is outside
the code's control. `MockApi!FairSpec` assumes weak fairness of what a thread
does while it holds the lock, and nothing of getting the lock:
`threading.Lock` does not promise a turn. So `LockIsReleased` is claimed and
"every request is answered" is not.

`CHECK_DEADLOCK` is off for the runner, its phases, the middleware and
`EvalGate`, which really stop after a result, and for the promotion programs,
whose starts are bounded and used up. It is on for the service, for a live
planner that serves run after run, and for the index, which can always be asked.

## 4. What is proved

*The runner* (`AgentRunnerProofs`)

* `TypeCorrect`: `TypeOK` of the runner. The types alone are not inductive:
  `Current` is a step only while a step is open, and a decision has a call
  only when it is a tool call. `Shape` says for each place in the code which
  data it may rely on; `Typed == TypeOK /\ Shape` is inductive.
* `ExecutionIsScreened`: `ScreenedExecution`. A call that was executed is in
  the set of recorded calls, and at `"execute"` the current call is recorded
  and was not executed yet.
* `AnswersAreGroundedOrFallback`: `GroundedOrFallback`. Every ending that is not
  "completed" carries a fallback, and `_finish` replaces a completed answer
  that is not grounded.
* `MergeKeepsTheCap`: merging never makes the list longer than the cap, whatever
  is merged. It is an induction over positions, by well-founded induction on the
  order of first occurrences.
* `TotalsAreThoseOfTheSteps`: `UsageLedger`. `Ledger` adds to it that the open
  step has no tokens before the planner answered, and that whatever makes the
  cost unknown is marked in `run` as soon as it is in a step. A sum is the
  cardinality of its units (`Sums`): with a definition that is not recursive,
  what a sum does when one summand is added or changed follows from the
  library's facts about finite sets and needs no induction.

*The runner, its store and its limits* (`RunStoreProofs`)

* `StoreIsOfferedInOrder`: `StoreOrder`. `Logged` says for each place in the
  code how far the log is behind the steps (the open step has not been offered
  before the guard), and `InOrder` that the log's entries are the start, the
  steps by their index, and the completion.
* `SourcesAreStored`: `SourcesComeFromStoredSteps`. A merge replaces single
  fields, so a published source may be a mix that no step returned. `Sourced`
  says what holds of it all the same: each of its fields is the one that the last
  stored step to name the source and give the field gave. The step with a reply
  is in the log before its sources are merged, and a source that the cap kept
  out is not in the list (`FullAdmitsNone`).
* `StoredStepsStayFinal`: `StoredStepsAreFinal`. `Kept` says that an offered
  step is as it was offered, `Failing` that a refusal the runner noticed leaves
  only endings that are not "completed", and `LastStep` in which state the last
  step is at each place, which is what ties it to the stop reason.
* `CallsStayWithinBudget` and `CallsStayWithinDeadline`: `CallsWithinBudget` and
  `CallsWithinDeadline`, under `ClockSpeaks` (a clock that raises says why).
  `Budgeted` says which limits were tested since the accounting last changed:
  the step limit up to the execution, time, tokens and cost at the two places
  where a call starts. Without `ClockSpeaks` both fail, because a failed read is
  0.0 then; the condition is the one thing the proof asks of a port.
* `AnswersRestOnStoredEvidence`: `GroundedOnStoredEvidence`. `Traced` says that
  a step with a reply was executed for its tool, `Quoted` that a grounded result
  cites a source of a step that grounds answers, and the store order that this
  step was stored.
* `RunnerImplementsContract`: `ImplementsContract`, the refinement of
  `RunContract`. With the invariants above and `Unanswered` (there is no result
  before the end) every step of the runner opens the run, performs one allowed
  call, closes it with one outcome, or is a stutter.

*What a result reports* (`RunStoreProofs`)

* `FinalValidationIsTrue` and `ToolPhasesAreTrue`: `FinalValidationTellsTheEnd`,
  under `PlannerSpeaks`, and `ToolPhasesTellWhatRan`, also under `ToolsSpeak`
  (those ports, when they raise, say why). The phases are read off the steps, so
  the invariant `Told` says what each step tells: what became of it
  (`Coherently`), why the run ended (`Blamed`), which calls were made
  (`Rendered`), and that tool errors reach their limit only right after a tool
  (`Patient`). Without `ToolsSpeak` the second fails (section 5).
* `PhasesAccountForTheUsage`: `PhasesShowTheUsage`, unconditionally. Each step is
  in at most one phase, so the sum over the phases is the sum over their steps,
  and `Ledger` and `Told` say what the rest can be: the last step, without a
  reply, of a run that was stopped.

*Live runs* (`LiveRunProofs`)

* `LiveStepOfRunner`: each step of `LiveRun` is a step of `AgentRunner`, or begins
  a run anew. So what was inductive for the runner is so for live runs (`Sane`),
  and `RunnerHoldsLive` states that seven of the runner's properties hold of
  them, the types, the screening and the grounding among them.
* `TokensAreCharged`: `LimitsSeeEveryToken`. `Charged` follows the runner's total,
  the tokens billed and the replies of the tools through each step; only a tool
  that returns adds a reply (`KeepsReplies`). Tokens of a response that could not
  be normalized are in no total (section 5); the theorem says that no call starts
  in a run that has any, because such a response ends its run.
* `SuccessEndsTheCalls` and `RequiredCallsAreMade`: `NothingAfterSuccess` and
  `RequiredCallComesFirst`. A run that goes on has executed one call per step
  (`Paced`), and a decision made to call a tool was made while none had succeeded,
  and for the required call if there is one (`Led`).
* `RunsStartAfresh`: `RunsShareNothing`. From its reset to the first request of a
  run the planner is as it was made (`Alone`).
* `OutputsFollowTheirCalls`: `OutputsAnswerTheirCalls`, for conversations of any
  length, under `StripsNothing` (the provider's ids have no padding; section 5
  says what happens otherwise). `Threaded` says that in a list of items each call
  but the last item is followed by its own output and that the outputs are those
  of the first calls. `Conversing` says at which places the planner's history is
  such a list that ends with the pending call (`Awaiting`): from the decision to
  the next request. When the planner is asked, every earlier step has a reply
  (`Told`), so the output it captures is that of the step before.

*The API* (`MockApiProofs`)

* `DictionariesStayPaired` and `LookupsStillHold`: `Paired` and
  `LookupStillHolds`, for any number of threads and keys. The
  inductive invariant says that the holder of the lock is alone in the
  critical section, and how far apart the two dictionaries may be at each
  statement (`Agreement`): one run ahead between `_runs[run_id] = ...` and the
  mapping of its key, one run over the limit before the eviction.
* `ServiceIsAtomic`: `ImplementsRetainedRuns`, the refinement of `RetainedRuns`.
  `Pending` says which requests have not taken effect yet; a request takes effect
  when its run is stored, or when it is answered without one, and every other
  statement under the lock is a stutter.

*The promotion programs* (`PromotionProofs`)

* `TypeCorrect`, `FilesStayWhole`, `PassesRestOnTheirCommit`,
  `PassesNeedBothReadings`: the types and the three properties of the run
  `promotion`, for any number of commits, rates, runs of the programs and changes
  of the checkout, whatever overlaps. `Founded` says what each program may rely on at
  each place: the evaluator has seen one clean tree unless the checkout moved
  (`Measured`), every artifact is honest and a wrapper repeats what its program
  read first (`Artifacted`), and what the gate has seen of the checkout, the
  wrapper and the artifact (`Surveyed`, `Collected`) gives the report its
  meaning (`Verdict`).

*The middleware* (`PayloadLimitProofs`)

* `BodiesAreComplete`: for any limit, sizes and number of chunks, a body the
  application takes for complete is the one that was sent. What was read and
  what is still kept make up what was sent, and only its last message ends it.
* `RefusedExactlyAboveTheLimit`: `LimitIsExact`, likewise. `Count` says that the
  middleware's counter is the number of the bytes received.

*Retrieval* (`RetrievalProofs`)

* `IndexStaysWhole`, `AnswersKeepToTheirCorpus`, `LoadedCorporaStayUsable`,
  `HitsStayRanked`, `CitationsNameAShownSource`: the five properties of the run
  `retrieval`, for any documents, chunks, questions and scores. `Building` says
  that the rows of a build are the chunks passed so far, without a double id, and
  `Answering` that what a question was told is what its call finds in the index
  and the corpus, neither of which changes before it leaves. The ranking rests
  on a lemma of its own: the order of hits is a strict one on chunks with
  distinct ids, so ranks are distinct and cover a prefix of the numbers. The
  citation rests on two more: the merged source of a file has the index of its last hit
  (`LaterSourcesWin`), and the source of the first hit is always admitted
  (`FirstIsAdmitted`). So a source shown under the cited index is the quoted one, and it is missing
  exactly when a later hit is of the same file (section 5).

*The evidence* (`EvalGateProofs`)

* `PassesAreEarned`, `PassesAreFast`, `PromotionsAreEarned`, `WrappersStayAccepted`,
  `SelectionsKeepAgreeing`: the five properties of the run `eval_gate`, for any
  suite, any registered cases and any runs of them. The invariant says of each
  file that it is a function of the runs that were observed (`Evaluated`,
  `Wrapped`, `Ran`, `Reported`); what remains are lemmas about the evaluators,
  the rates and `Rank`, one per case type and metric.

Assumptions: `RunnerAssumption`, `MaxSourcesAssumption`, `LiveAssumption`
(which says that write tools are not advertised to the provider), `MockApiAssumption`,
`PromotionAssumption`, `PayloadAssumption`, `RetrievalAssumption` (which also says
that the limits are ordered as the code's constants are), `SuiteAssumption`,
`InputAssumption` (the case types are the ones the gate knows, and a case has runs
of its type), and `EvidenceAssumption` (there are at least five live cases, they
expect a grounded answer of `rag.search`, and the tool selection has cases with
and without a call, as the registries in the source do). TLC evaluates them in
each run.

Model-checked only: liveness (`EveryRunEnds`, `LockIsReleased`), which TLAPS
cannot treat under fairness. All other properties of the passing runs are proved.
The properties of the three runs of section 5 are false, and are there to show it.

## 5. Findings

Each is shown by a run of its own.

* `silent_store`: `raise TimeoutError()` in a store call is not noticed, and the
  run is reported as completed (`runner.py:734`, `759`, `766`);
  `docs/core.md:36` says that store failures end the run.
* `token_limit_stop`: the word "token" in a current artifact counts as a secret
  (`live_evidence.py:54`), and `"max_tokens"` is a stop reason of a failed case.
  So an artifact with four successes of five cannot be wrapped when the fifth
  stopped at its token limit, and can be when it stopped at its time limit;
  `docs/eval_gate.md:44` and `:92` say that 80% is enough and that failed cases
  belong in the artifact.
* `unanswered_no_call`: a case of the tool selection that expects no call is a
  success whenever no call was made (`run_live_eval.py:454`), also if the run
  stopped with an error before it answered; `live_evidence.py:276` states the
  rule as "gives a final answer without any tool call".

Noticed while modelling, without a run of their own. The first three concern
conditions of the properties in section 3: the property is violated when
the condition is dropped.

* With `"clock"` in `Messageless`, `CallsWithinDeadline`: a clock that raises
  without a message reads 0.0 (`runner.py:741`), though `docs/core.md:52` and
  `tests/test_core.py:1791` say that clock failures are bounded. The cause is
  that of `silent_store`, the test of an error text for truth, which also
  concerns `_reset_planner_run` (778) and the usage accounting (787, 794).
* With `"executor"` in it, `ToolPhasesTellWhatRan`: a tool that raises without a
  message ends the run with `tool_error_limit`, and its phase is reported as
  completed (1066), although `docs/implementation_plan.md:700` says that failed
  tool phases are marked failed.
* The id of a call is stripped (`openai_responses.py:1327`) for its output and not
  for the replayed call; `docs/live_profile.md:72` says both have the same id.
  The ids of the run `live_replay` have no padding.
* A response is normalized after the provider has answered
  (`openai_responses.py:299`). When that raises, the failure is annotated without
  a response (380-383, 502-505), so the tokens the provider reported are charged to
  nothing: neither the run's total nor the artifact has them. The model counts them
  as `unread`.
* The wrapper program validates the artifact it read at `run_live_eval.py:696`
  and hashes the file again at 740. When another artifact took its place in
  between, the wrapper describes the first and has the digest of the second; the
  gate compares digest and rate, and no program compares the commit of the second.
  What a PASS still needs then is `PassNeedsBothReadings`.
* Two evaluators with the same output share one partial file (757). The model
  lets the three programs overlap, not two runs of one of them.
* HEAD and status are read after the cases were run (`run_live_eval.py:165`), so
  an artifact names the commit the checkout has then. Nothing in the code
  notices a checkout that moved meanwhile. The release checklist asks for an
  immutable commit under review; `PassRestsOnItsCommit` says what holds of
  measurements of a checkout left alone, and of no others.
* The wrapper program takes an artifact from any place outside the checkout, and
  the gate looks for it beside the wrapper or in the repository
  (`gate.py:1595-1598`): of a wrapper elsewhere it says that the artifact is missing.
* The cost of a case with a scripted provider's route is unknown
  (`runner.py:818-819`), and the gate's sum leaves it out (`gate.py:1017-1024`): a
  `provider_unknown_tool_call` case may have cost anything. (The `core_max_cost` case
  reports 0 by design: its cost is made up, to reach the limit.)
* A `retrieval_top1` case that raises is a miss like any other (`gate.py:387`),
  and is tolerated by the rate.
* The autonomous validator checks that ids are registered and how many there
  are, not that they differ.
* Referenced artifacts are said to be tracked by Git; one that lies beside its
  wrapper is accepted without (`gate.py:1529-1560`).
* The gate applies the weaker of the two validators to an artifact and relies
  on the wrapper program for the stronger.
* The evaluator exits with 0 at a rate of 0.8, while the validator refuses an
  artifact whose failed case is grounded in a wrong source or called a tool that
  is not registered.
* The success rule (`live_evidence.py:330`) speaks of citing an allowed source; what
  is tested is that an allowed source with an index is among the run's sources and
  that something was cited. `PromotionIsEarned` claims what is tested.
* Some counters are constants: `hidden_writes` of the redaction and negative
  cases, and the executions of an unknown native call, are always 0.
* The hits of one file become one source with the index of the last of them
  (`text.py:57`), so the citation [1] may refer to no source that is shown. The
  packaged corpus has one chunk per file; it takes another corpus to happen.
* The excerpt of an answer is the text of the first hit, while any hit with
  safe text makes evidence.
* `compact_tool_result` is not idempotent (`security.py:308`): the runner and the
  live planner each apply it.

## 6. Plan

Ordered by how much of the system depends on it.

1. `StopController`, `Evidence`, `AgentRunner`, `RunContract`: done.
2. `RetainedRuns`, `MockApi`: done.
3. Proofs about 1 and 2: types, screening, grounding, sources, pairing: done.
4. `ResponsesPlanner`, `LiveRun`: done.
5. `Promotion`, `PayloadLimit`, with their proofs: done.
6. Proofs about the runner's store, limits, evidence and refinement: done.
   So are those about its accounting, the live runs and the refinement of
   `RetainedRuns`.
7. `Retrieval`, with its proofs: done.
8. `PhaseTrace`, with its proofs: done.
9. `OfflineSuite`, `LiveEvidence`, `EvalGate`, with their proofs: done.
10. The mock composition as an instance of the runner's ports: left. Its script,
    clock and tools are fixed, so it would check examples the tests run already.

## 7. Not modelled

* Redaction, injection screening and JSON schema validation (`core/security.py`),
  embedding, stemming and normalisation of words (`retrieval/vectorizer.py`): text
  and floating point functions whose correctness is a matter of examples. The
  runner and the index are checked for whatever they return.
* The mock composition (`mock/`): see 6.10.
* Configuration parsing (`provider/config.py`, the settings of `profiles/live.py`
  and of the retrieval composition), response models, HTTP routing and command
  lines: no state.
* In the evaluation: the hash of the frozen suite and its 47 cases, the evidence
  of the clean clone field by field, pricing, latency statistics that no
  threshold tests, the names and formats of fields.
* The scripts that check a release, a contract export or a snapshot and the
  demos (`scripts/check_*.py`, `run_acceptance_demo.py`, `run_diploma_demo.py`):
  they compare the files of a directory, or print what the runner returns.
* The network and the provider's SDK are outside the repository.
