----------------------------- MODULE Promotion -----------------------------
(***************************************************************************)
(* scripts/run_live_eval.py and eval/gate.py: how a release is promoted.   *)
(* Three programs run over one checkout: "evaluate" measures the live      *)
(* profile and publishes an artifact, "wrap" binds the artifact to a       *)
(* commit, "gate" reads both and gives the verdict.  Nothing keeps them    *)
(* apart: they may overlap, the checkout may change under them at any      *)
(* time, every git command and file operation may fail, and each program   *)
(* may be killed.                                                          *)
(*                                                                         *)
(* The digest of a file stands for its content.  Two things are kept that  *)
(* no file holds, for the properties to speak of: whether an artifact is   *)
(* "honest" - its cases ran on a clean worktree of the commit it names,    *)
(* unless the checkout changed before the evaluator was done with it - and *)
(* the artifact that the wrapper program read "first".                     *)
(***************************************************************************)
EXTENDS Naturals

CONSTANTS
  Commits,
  Rates, Enough,  \* the measured success rates, and those above the threshold
  Bound,          \* of an instance: how often each event of Bounded happens
  Torn, None

VARIABLES
  tree,      \* the checkout: its HEAD, and whether the worktree is clean
  files,     \* the artifact, the wrapper, and their partial files
  left,      \* what is left of the bounds
  pc,        \* where each program is
  head,      \* the HEAD that the measuring programs have read, or None
  moved,     \* whether the checkout changed since they began
  text,      \* what each publisher has encoded
  payload,   \* the artifact that "wrap" has read
  checked,   \* what "gate" found: status, wrapper and artifact
  report     \* the report of the gate, or None

vars == <<tree, files, left, pc, head, moved, text, payload, checked, report>>

Programs == {"evaluate", "wrap", "gate"}
Publishers == {"evaluate", "wrap"}
Measurers == {"evaluate", "gate"}
Bounded == Programs \cup {"change", "kill"}
Trees == [head : Commits, clean : BOOLEAN]
Artifacts == [commit : Commits, rate : Rates, honest : BOOLEAN]
Wrappers == [commit : Commits, rate : Rates, digest : Artifacts, first : Artifacts]

ASSUME PromotionAssumption ==
  /\ Enough \subseteq Rates
  /\ Bound \in [Bounded -> Nat]
  /\ None \notin Commits /\ Torn # None
  /\ \A x \in {Torn, None} : x \notin Artifacts /\ x \notin Wrappers

Output(p) == IF p = "evaluate" THEN "artifact" ELSE "wrapper"
PartialFault(p) == Output(p)
Partial(p) == IF p = "evaluate" THEN "artifact.partial" ELSE "wrapper.partial"
Paths == {"artifact", "artifact.partial", "wrapper", "wrapper.partial"}

Nothing == [clean |-> FALSE, wrapper |-> None, artifact |-> None]

(* A checkout that has not changed is still the one the cases ran on.      *)
Honest(p) == moved[p] \/ tree = [head |-> head[p], clean |-> TRUE]

Init ==
  /\ tree \in Trees
  /\ files = [f \in Paths |-> None]
  /\ pc = [p \in Programs |-> "idle"]
  /\ left = Bound
  /\ head = [p \in Measurers |-> None]
  /\ moved = [p \in Measurers |-> FALSE]
  /\ text = [p \in Publishers |-> None]
  /\ payload = None
  /\ checked = Nothing
  /\ report = None

Spend(event) == left[event] > 0 /\ left' = [left EXCEPT ![event] = @ - 1]
CanStart(p) == pc[p] = "idle" /\ Spend(p)

Goto(p, where) == pc' = [pc EXCEPT ![p] = where]

(* A program that ends forgets what it knew.                               *)
Exit(p) ==
  /\ Goto(p, "idle")
  /\ head' = [q \in Measurers |-> IF q = p THEN None ELSE head[q]]
  /\ moved' = [q \in Measurers |-> q # p /\ moved[q]]
  /\ text' = [q \in Publishers |-> IF q = p THEN None ELSE text[q]]
  /\ payload' = IF p = "wrap" THEN None ELSE payload
  /\ checked' = IF p = "gate" THEN Nothing ELSE checked
  /\ report' = IF p = "gate" THEN None ELSE report

AtWork == <<head, moved, text, payload, checked>>

-----------------------------------------------------------------------------
(* The checkout: commits, edits, and the evidence of a clean clone, which  *)
(* is captured by hand.                                                    *)
Measuring == {p \in Measurers : pc[p] \in {"measure", "readHead", "readStatus",
                                          "readWrapper", "readArtifact", "decide"}}

ChangeTree ==
  /\ Spend("change")
  /\ tree' \in Trees /\ tree' # tree
  /\ moved' = [p \in Measurers |-> moved[p] \/ p \in Measuring]
  /\ UNCHANGED <<files, pc, head, text, payload, checked, report>>

-----------------------------------------------------------------------------
(* run_live_eval.py: the cases are run, then HEAD and status are read.     *)
StartEvaluate ==
  /\ CanStart("evaluate")
  /\ Goto("evaluate", "measure")
  /\ UNCHANGED <<tree, files, AtWork, report>>

(* The cases are run, while everything else may go on.                     *)
Measure(p, next) ==
  /\ pc[p] = "measure"
  /\ Goto(p, next)
  /\ UNCHANGED <<tree, files, left, AtWork, report>>

EvaluateReadsHead ==
  /\ pc["evaluate"] = "readHead"
  /\ head' = [head EXCEPT !["evaluate"] = tree.head]
  /\ Goto("evaluate", "readStatus")
  /\ UNCHANGED <<tree, files, left, moved, text, payload, checked, report>>

AcceptsTreeFault == TRUE
AcceptsTree == tree.clean

EvaluateReadsStatus ==
  /\ pc["evaluate"] = "readStatus"
  /\ AcceptsTree
  /\ \E rate \in Rates :
       text' = [text EXCEPT !["evaluate"] =
         [commit |-> head["evaluate"], rate |-> rate, honest |-> Honest("evaluate")]]
  /\ Goto("evaluate", "write")
  /\ UNCHANGED <<tree, files, left, head, moved, payload, checked, report>>

-----------------------------------------------------------------------------
(* run_live_eval.py --wrapper-only                                         *)
ReadArtifact ==
  /\ CanStart("wrap")
  /\ files["artifact"] \in Artifacts
  /\ payload' = files["artifact"]
  /\ Goto("wrap", "readHead")
  /\ UNCHANGED <<tree, files, head, moved, text, checked, report>>

WrapReadsHead ==
  /\ pc["wrap"] = "readHead"
  /\ payload.commit = tree.head
  /\ Goto("wrap", "readStatus")
  /\ UNCHANGED <<tree, files, left, AtWork, report>>

WrapReadsStatus ==
  /\ pc["wrap"] = "readStatus"
  /\ tree.clean
  /\ Goto("wrap", "digest")
  /\ UNCHANGED <<tree, files, left, AtWork, report>>

(* The file is read a second time, and may be another one.                 *)
DigestArtifact ==
  /\ pc["wrap"] = "digest"
  /\ files["artifact"] \in Artifacts
  /\ text' = [text EXCEPT !["wrap"] =
       [commit |-> payload.commit, rate |-> payload.rate,
        digest |-> files["artifact"], first |-> payload]]
  /\ Goto("wrap", "write")
  /\ UNCHANGED <<tree, files, left, head, moved, payload, checked, report>>

-----------------------------------------------------------------------------
(* _publish_evidence_file                                                  *)
StartWriting(p) ==
  /\ pc[p] = "write"
  /\ files' = [files EXCEPT ![Partial(p)] = Torn]
  /\ Goto(p, "writing")
  /\ UNCHANGED <<tree, left, AtWork, report>>

FinishWriting(p) ==
  /\ pc[p] = "writing"
  /\ files' = [files EXCEPT ![Partial(p)] = text[p]]
  /\ Goto(p, "recheck")
  /\ UNCHANGED <<tree, left, AtWork, report>>

Recheck(p) ==
  /\ pc[p] = "recheck"
  /\ tree.clean
  /\ Goto(p, "replace")
  /\ UNCHANGED <<tree, files, left, AtWork, report>>

Replace(p) ==
  /\ pc[p] = "replace"
  /\ files' = [files EXCEPT ![Output(p)] = files[Partial(p)], ![Partial(p)] = None]
  /\ Exit(p)
  /\ UNCHANGED <<tree, left>>

(* A program that refuses, or fails, leaves no partial file.               *)
Publishing(p) == pc[p] \in {"writing", "recheck", "replace"}

Refuse(p) ==
  /\ pc[p] \notin {"idle", "done"}
  /\ IF Publishing(p)
     THEN files' = [files EXCEPT ![Partial(p)] = None]
     ELSE UNCHANGED files
  /\ Exit(p)
  /\ UNCHANGED <<tree, left>>

(* Killed elsewhere, a program leaves what it leaves when it refuses.      *)
Killed(p) ==
  /\ Publishing(p) /\ Spend("kill")
  /\ Exit(p)
  /\ UNCHANGED <<tree, files>>

-----------------------------------------------------------------------------
(* run_eval_gate.py: HEAD and status are read, then the evidence, then the *)
(* offline cases are run.  The evidence of a clean clone is a file made    *)
(* elsewhere that names any commit.                                        *)
GateReadsHead ==
  /\ CanStart("gate")
  /\ \E h \in {tree.head, None} : head' = [head EXCEPT !["gate"] = h]
  /\ Goto("gate", "readStatus")
  /\ UNCHANGED <<tree, files, moved, text, payload, checked, report>>

GateReadsStatus ==
  /\ pc["gate"] = "readStatus"
  /\ \E available \in BOOLEAN :
       checked' = [checked EXCEPT !.clean =
                     available /\ head["gate"] # None /\ tree.clean]
  /\ Goto("gate", "readWrapper")
  /\ UNCHANGED <<tree, files, left, head, moved, text, payload, report>>

GateReadsWrapper ==
  /\ pc["gate"] = "readWrapper"
  /\ checked' = [checked EXCEPT !.wrapper = files["wrapper"]]
  /\ Goto("gate", "readArtifact")
  /\ UNCHANGED <<tree, files, left, head, moved, text, payload, report>>

MatchesFault(w, a, commit) == w.commit = commit /\ w.rate = a.rate
UnratedFault(w, a, commit) == w.commit = commit /\ w.digest = a
Matches(w, a, commit) ==
  /\ w.commit = commit
  /\ w.digest = a
  /\ w.rate = a.rate

GateReadsArtifact ==
  /\ pc["gate"] = "readArtifact"
  /\ LET a == files["artifact"]
         valid == /\ checked.wrapper \in Wrappers /\ a \in Artifacts
                  /\ Matches(checked.wrapper, a, head["gate"])
     IN  checked' = [checked EXCEPT !.artifact = IF valid THEN a ELSE None]
  /\ Goto("gate", "measure")
  /\ UNCHANGED <<tree, files, left, head, moved, text, payload, report>>

Decide ==
  /\ pc["gate"] = "decide"
  /\ \E offline \in BOOLEAN, release \in Commits \cup {None} :
       report' = [commit |-> head["gate"],
                  wrapper |-> checked.wrapper, artifact |-> checked.artifact,
                  honest |-> Honest("gate"),
                  pass |-> /\ offline /\ checked.clean
                           /\ checked.artifact # None
                           /\ checked.wrapper.rate \in Enough
                           /\ release = head["gate"]]
  /\ Goto("gate", "done")
  /\ UNCHANGED <<tree, files, left, AtWork>>

Done == pc["gate"] = "done" /\ Exit("gate") /\ UNCHANGED <<tree, files, left>>

Next ==
  \/ ChangeTree
  \/ StartEvaluate \/ Measure("evaluate", "readHead")
  \/ EvaluateReadsHead \/ EvaluateReadsStatus
  \/ ReadArtifact \/ WrapReadsHead \/ WrapReadsStatus \/ DigestArtifact
  \/ \E p \in Publishers :
       StartWriting(p) \/ FinishWriting(p) \/ Recheck(p) \/ Replace(p) \/ Killed(p)
  \/ \E p \in Programs : Refuse(p)
  \/ GateReadsHead \/ GateReadsStatus \/ GateReadsWrapper \/ GateReadsArtifact
  \/ Measure("gate", "decide") \/ Decide \/ Done

Spec == Init /\ [][Next]_vars

-----------------------------------------------------------------------------
Places ==
  {"idle", "measure", "readHead", "readStatus", "digest", "write", "writing",
   "recheck", "replace", "readWrapper", "readArtifact", "decide", "done"}

(* The types of the variables.                                             *)
TypeOK ==
  /\ tree \in Trees
  /\ files \in [Paths -> Artifacts \cup Wrappers \cup {Torn, None}]
  /\ pc \in [Programs -> Places]
  /\ left \in [Bounded -> Nat]
  /\ head \in [Measurers -> Commits \cup {None}]
  /\ moved \in [Measurers -> BOOLEAN]
  /\ text \in [Publishers -> Artifacts \cup Wrappers \cup {None}]
  /\ payload \in Artifacts \cup {None}
  /\ checked \in [clean : BOOLEAN,
                  wrapper : Artifacts \cup Wrappers \cup {Torn, None},
                  artifact : Artifacts \cup {None}]
  /\ report \in [commit : Commits \cup {None},
                 wrapper : Artifacts \cup Wrappers \cup {Torn, None},
                 artifact : Artifacts \cup {None},
                 honest : BOOLEAN, pass : BOOLEAN] \cup {None}

(* promotion_status PASS: the offline cases and the live evidence were     *)
(* measured on a clean worktree of the commit they name, each unless the   *)
(* checkout changed while it was measured, and that is the commit of the   *)
(* report, unless the artifact was replaced while it was wrapped.  This is *)
(* so whatever became of the files and of the checkout between and during  *)
(* the programs, whichever of them overlap, fail or are killed.            *)
PassRestsOnItsCommit ==
  report # None /\ report.pass =>
    /\ report.honest /\ report.artifact.honest
    /\ report.wrapper.first = report.wrapper.digest =>
         report.artifact.commit = report.commit

(* The wrapper program reads the artifact twice: it checks and repeats     *)
(* what it reads first, and has the digest of what it reads second.  When  *)
(* another artifact took its place in between, PASS still takes both: the  *)
(* first one is of the report's commit, the second is the one the gate     *)
(* found, and both have a rate that is enough.  (Of the second one's       *)
(* commit nothing is known: no program compares it.)                       *)
PassNeedsBothReadings ==
  report # None /\ report.pass =>
    /\ report.wrapper.first.commit = report.commit
    /\ report.wrapper.digest = report.artifact
    /\ {report.wrapper.first.rate, report.artifact.rate} \subseteq Enough

(* A reader never finds a torn evidence file, even when a program was      *)
(* killed while it wrote (_publish_evidence_file writes aside and renames).*)
PublishedFilesAreWhole ==
  files["artifact"] # Torn /\ files["wrapper"] # Torn
=============================================================================
