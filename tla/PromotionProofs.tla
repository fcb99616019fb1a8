-------------------------- MODULE PromotionProofs --------------------------
(***************************************************************************)
(* Theorems about Promotion: published files are whole, and a passing      *)
(* verdict rests on the commit it names, however often and in whatever     *)
(* overlap the programs run and the checkout changes.                      *)
(***************************************************************************)
EXTENDS Promotion, TLAPS

(* What a program holds while it is about to write, or to replace.         *)
Encoded ==
  /\ pc["evaluate"] \in {"write", "writing", "recheck", "replace"} =>
       text["evaluate"] \in Artifacts
  /\ pc["wrap"] \in {"write", "writing", "recheck", "replace"} =>
       text["wrap"] \in Wrappers
  /\ \A p \in Publishers :
       pc[p] \in {"recheck", "replace"} => files[Partial(p)] = text[p]

(* Where each program can be, and what it knows there.                     *)
Located ==
  /\ pc["evaluate"] \in {"idle", "measure", "readHead", "readStatus",
                         "write", "writing", "recheck", "replace"}
  /\ pc["wrap"] \in {"idle", "readHead", "readStatus", "digest",
                     "write", "writing", "recheck", "replace"}
  /\ pc["gate"] \in {"idle", "readStatus", "readWrapper", "readArtifact",
                     "measure", "decide", "done"}
  /\ pc["evaluate"] = "readStatus" => head["evaluate"] \in Commits
  /\ pc["wrap"] # "idle" => payload \in Artifacts

Sorted ==
  /\ files["artifact"] \in Artifacts \cup {None}
  /\ files["wrapper"] \in Wrappers \cup {None}

Typed == TypeOK /\ Located /\ Encoded /\ Sorted

LEMMA TypedInit == Init => Typed
BY PromotionAssumption
DEF Init, Typed, TypeOK, Located, Encoded, Sorted, Programs, Publishers, Paths, Trees,
    Artifacts, Wrappers, Nothing, Places, Partial, Measurers, Bounded

LEMMA TypedNext == Typed /\ [Next]_vars => Typed'
<1> SUFFICES ASSUME Typed, [Next]_vars PROVE Typed'
    OBVIOUS
<1> USE PromotionAssumption
    DEF Typed, TypeOK, Located, Encoded, Sorted, Programs, Publishers, Paths,
        Places, AtWork, Goto, Partial, Output, CanStart, Spend, Measurers, Bounded
<1>1. CASE ChangeTree
  BY <1>1 DEF ChangeTree
<1>2. CASE StartEvaluate
  BY <1>2 DEF StartEvaluate
<1>3. CASE Measure("evaluate", "readHead")
  BY <1>3 DEF Measure
<1>4. CASE EvaluateReadsHead
  BY <1>4 DEF EvaluateReadsHead, Trees
<1>5. CASE EvaluateReadsStatus
  BY <1>5 DEF EvaluateReadsStatus, AcceptsTree, Honest, Artifacts
<1>6. CASE ReadArtifact
  BY <1>6 DEF ReadArtifact
<1>7. CASE WrapReadsHead
  BY <1>7 DEF WrapReadsHead, Trees
<1>8. CASE WrapReadsStatus
  BY <1>8 DEF WrapReadsStatus
<1>9. CASE DigestArtifact
  BY <1>9 DEF DigestArtifact, Artifacts, Wrappers
<1>10. ASSUME NEW p \in Publishers, StartWriting(p) PROVE Typed'
  BY <1>10 DEF StartWriting
<1>11. ASSUME NEW p \in Publishers, FinishWriting(p) PROVE Typed'
  BY <1>11 DEF FinishWriting
<1>12. ASSUME NEW p \in Publishers, Recheck(p) PROVE Typed'
  BY <1>12 DEF Recheck
<1>13. ASSUME NEW p \in Publishers, Replace(p) PROVE Typed'
  BY <1>13 DEF Replace, Exit, Nothing
<1>14. ASSUME NEW p \in Publishers, Killed(p) PROVE Typed'
  BY <1>14 DEF Killed, Publishing, Exit, Nothing
<1>15. ASSUME NEW p \in Programs, Refuse(p) PROVE Typed'
  BY <1>15 DEF Refuse, Publishing, Exit, Nothing
<1>16. CASE GateReadsHead
  BY <1>16 DEF GateReadsHead, Trees
<1>17. CASE GateReadsStatus
  <2>1. PICK b \in BOOLEAN : checked' = [checked EXCEPT !.clean = b]
    <3>1. PICK a \in BOOLEAN :
            checked' = [checked EXCEPT !.clean = a /\ head["gate"] # None /\ tree.clean]
      BY <1>17 DEF GateReadsStatus
    <3>2. (a /\ head["gate"] # None /\ tree.clean) \in BOOLEAN
      OBVIOUS
    <3>3. QED
      BY <3>1, <3>2, Zenon
  <2>2. checked' \in [clean : BOOLEAN,
                      wrapper : Artifacts \cup Wrappers \cup {Torn, None},
                      artifact : Artifacts \cup {None}]
    BY <2>1
  <2>3. QED
    BY <1>17, <2>2 DEF GateReadsStatus
<1>18. CASE GateReadsWrapper
  BY <1>18 DEF GateReadsWrapper
<1>19. CASE GateReadsArtifact
  BY <1>19 DEF GateReadsArtifact, Matches
<1>20. CASE Measure("gate", "decide")
  BY <1>20 DEF Measure
<1>21. CASE Decide
  BY <1>21 DEF Decide, Honest, Artifacts
<1>22. CASE Done
  BY <1>22 DEF Done, Exit, Nothing
<1>23. CASE UNCHANGED vars
  BY <1>23 DEF vars
<1>24. QED
  BY <1>1, <1>2, <1>3, <1>4, <1>5, <1>6, <1>7, <1>8, <1>9, <1>10, <1>11, <1>12,
     <1>13, <1>14, <1>15, <1>16, <1>17, <1>18, <1>19, <1>20, <1>21, <1>22, <1>23
  DEF Next

(* The state has its type whatever fails or is killed.                     *)
THEOREM TypeCorrect == Spec => []TypeOK
<1>1. Typed => TypeOK
  BY DEF Typed
<1>2. QED
  BY <1>1, TypedInit, TypedNext, PTL DEF Spec

(* No published file is ever torn, though programs are killed while they   *)
(* write: what is renamed into place is what was encoded.                  *)
THEOREM FilesStayWhole == Spec => []PublishedFilesAreWhole
<1>1. Typed => PublishedFilesAreWhole
  BY PromotionAssumption DEF Typed, Sorted, PublishedFilesAreWhole
<1>2. QED
  BY <1>1, TypedInit, TypedNext, PTL DEF Spec

-----------------------------------------------------------------------------
Sincere(a) == a \in Artifacts => a.honest
Describes(w) ==
  w \in Wrappers => w.first.commit = w.commit /\ w.first.rate = w.rate

(* The evaluator has read the HEAD of a checkout that has not changed.     *)
Measured ==
  pc["evaluate"] = "readStatus" /\ ~moved["evaluate"] => head["evaluate"] = tree.head

Artifacted ==
  /\ Sincere(files["artifact"]) /\ Sincere(text["evaluate"])
  /\ Describes(files["wrapper"]) /\ Describes(text["wrap"])

(* What the gate has seen of a checkout that has not changed.              *)
Surveyed ==
  /\ pc["gate"] \in {"idle", "readStatus"} => ~checked.clean
  /\ "gate" \in Measuring /\ ~moved["gate"] =>
       /\ head["gate"] \in {tree.head, None}
       /\ checked.clean => tree.clean
  /\ checked.clean => head["gate"] # None

(* And what it knows of the evidence.                                      *)
Collected ==
  /\ pc["gate"] \in {"idle", "readStatus", "readWrapper", "readArtifact"} =>
       checked.artifact = None
  /\ Describes(checked.wrapper)
  /\ checked.artifact # None =>
       /\ checked.wrapper \in Wrappers /\ checked.artifact.honest
       /\ Matches(checked.wrapper, checked.artifact, head["gate"])

Verdict == PassRestsOnItsCommit /\ PassNeedsBothReadings

Founded == Measured /\ Artifacted /\ Surveyed /\ Collected /\ Verdict

LEMMA FoundedInit == Init => Founded
BY PromotionAssumption
DEF Init, Founded, Measured, Artifacted, Surveyed, Collected, Verdict, Sincere, Describes,
    Nothing, Programs, Publishers, Paths, Measuring, Measurers,
    PassRestsOnItsCommit, PassNeedsBothReadings

(* The text the evaluator is about to write is honest.                     *)
LEMMA NewArtifact ==
  ASSUME Typed, Measured, EvaluateReadsStatus
  PROVE  Sincere(text'["evaluate"]) /\ text'["wrap"] = text["wrap"]
<1> DEFINE New(rate) ==
      [commit |-> head["evaluate"], rate |-> rate, honest |-> Honest("evaluate")]
<1>1. PICK rate \in Rates : text' = [text EXCEPT !["evaluate"] = New(rate)]
  BY Zenon DEF EvaluateReadsStatus
<1>2. Honest("evaluate")
  <2>1. tree \in Trees /\ tree.clean /\ pc["evaluate"] = "readStatus"
    BY DEF Typed, TypeOK, EvaluateReadsStatus, AcceptsTree
  <2>2. QED
    BY <2>1 DEF Measured, Honest, Trees
<1>3. New(rate).honest
  BY <1>2, Zenon
<1> HIDE DEF New
<1>4. text'["evaluate"] = New(rate) /\ text'["wrap"] = text["wrap"]
  BY <1>1 DEF Typed, TypeOK, Publishers
<1>5. QED
  BY <1>3, <1>4, Zenon DEF Sincere

(* The text the wrapper program is about to write repeats what it read     *)
(* first.                                                                  *)
LEMMA NewWrapper ==
  ASSUME Typed, DigestArtifact
  PROVE  Describes(text'["wrap"]) /\ text'["evaluate"] = text["evaluate"]
<1> DEFINE new == [commit |-> payload.commit, rate |-> payload.rate,
                   digest |-> files["artifact"], first |-> payload]
<1>1. text'["wrap"] = new /\ text'["evaluate"] = text["evaluate"]
  BY DEF DigestArtifact, Typed, TypeOK, Publishers
<1>2. new.first.commit = new.commit /\ new.first.rate = new.rate
  OBVIOUS
<1> HIDE DEF new
<1>3. QED
  BY <1>1, <1>2 DEF Describes

LEMMA MeasuredNext ==
  ASSUME Typed, Measured, [Next]_vars
  PROVE  Measured'
<1> USE DEF Typed, TypeOK, Measured, Programs, Publishers, Measurers, AtWork, Goto, Spend,
            CanStart, Exit
<1>1. CASE ChangeTree
  BY <1>1 DEF ChangeTree, Measuring
<1>2. CASE EvaluateReadsHead
  BY <1>2 DEF EvaluateReadsHead
<1>3. ASSUME NEW p \in Publishers,
             \/ StartWriting(p) \/ FinishWriting(p) \/ Recheck(p)
             \/ Replace(p) \/ Killed(p)
      PROVE  Measured'
  BY <1>3 DEF StartWriting, FinishWriting, Recheck, Replace, Killed
<1>4. ASSUME NEW p \in Programs, Refuse(p) PROVE Measured'
  BY <1>4 DEF Refuse
<1>5. CASE \/ StartEvaluate \/ Measure("evaluate", "readHead") \/ EvaluateReadsStatus
           \/ ReadArtifact \/ WrapReadsHead \/ WrapReadsStatus \/ DigestArtifact
  BY <1>5 DEF StartEvaluate, Measure, EvaluateReadsStatus, ReadArtifact, WrapReadsHead,
              WrapReadsStatus, DigestArtifact
<1>6. CASE \/ GateReadsHead \/ GateReadsStatus \/ GateReadsWrapper \/ GateReadsArtifact
           \/ Measure("gate", "decide") \/ Decide \/ Done
  BY <1>6 DEF GateReadsHead, GateReadsStatus, GateReadsWrapper, GateReadsArtifact,
              Measure, Decide, Done
<1>7. CASE UNCHANGED vars
  BY <1>7 DEF vars
<1>8. QED
  BY <1>1, <1>2, <1>3, <1>4, <1>5, <1>6, <1>7 DEF Next

LEMMA ArtifactedNext ==
  ASSUME Typed, Measured, Artifacted, [Next]_vars
  PROVE  Artifacted'
<1> USE PromotionAssumption
    DEF Typed, TypeOK, Artifacted, Programs, Publishers, Paths, AtWork, Goto
<1>1. CASE EvaluateReadsStatus
  BY <1>1, NewArtifact DEF EvaluateReadsStatus
<1>2. CASE DigestArtifact
  BY <1>2, NewWrapper DEF DigestArtifact
<1>3. ASSUME NEW p \in Publishers, StartWriting(p) \/ FinishWriting(p) PROVE Artifacted'
  <2>1. files'["artifact"] = files["artifact"] /\ files'["wrapper"] = files["wrapper"]
    BY <1>3 DEF StartWriting, FinishWriting, Partial
  <2>2. QED
    BY <1>3, <2>1 DEF StartWriting, FinishWriting
<1>4. ASSUME NEW p \in Publishers, Replace(p) PROVE Artifacted'
  <2>1. /\ files[Partial(p)] = text[p]
        /\ \A q \in Publishers : text'[q] \in {text[q], None}
    BY <1>4 DEF Replace, Exit, Encoded
  <2>2. CASE p = "evaluate"
    <3>1. files'["artifact"] = text["evaluate"] /\ files'["wrapper"] = files["wrapper"]
      BY <1>4, <2>1, <2>2 DEF Replace, Output, Partial
    <3>2. QED
      BY <2>1, <3>1 DEF Sincere, Describes
  <2>3. CASE p = "wrap"
    <3>1. files'["artifact"] = files["artifact"] /\ files'["wrapper"] = text["wrap"]
      BY <1>4, <2>1, <2>3 DEF Replace, Output, Partial
    <3>2. QED
      BY <2>1, <3>1 DEF Sincere, Describes
  <2>4. QED
    BY <2>2, <2>3
<1>5. ASSUME NEW p \in Programs, Refuse(p) \/ (p \in Publishers /\ Killed(p))
      PROVE  Artifacted'
  <2>1. /\ files'["artifact"] = files["artifact"] /\ files'["wrapper"] = files["wrapper"]
        /\ \A q \in Publishers : text'[q] \in {text[q], None}
    BY <1>5 DEF Refuse, Killed, Exit, Partial
  <2>2. QED
    BY <2>1 DEF Sincere, Describes
<1>6. CASE Done
  <2>1. files' = files /\ \A q \in Publishers : text'[q] \in {text[q], None}
    BY <1>6 DEF Done, Exit
  <2>2. QED
    BY <2>1 DEF Sincere, Describes
<1>7. ASSUME files' = files, text' = text PROVE Artifacted'
  BY <1>7
<1>8. QED
  BY <1>1, <1>2, <1>3, <1>4, <1>5, <1>6, <1>7
  DEF Next, vars, ChangeTree, StartEvaluate, Measure, EvaluateReadsHead, ReadArtifact,
      WrapReadsHead, WrapReadsStatus, Recheck, GateReadsHead, GateReadsStatus,
      GateReadsWrapper, GateReadsArtifact, Decide

(* Whatever the other programs do, the gate keeps what it knows.           *)
LEMMA OthersKeepTheGate ==
  ASSUME Typed, Founded,
         \/ StartEvaluate \/ Measure("evaluate", "readHead")
         \/ EvaluateReadsHead \/ EvaluateReadsStatus
         \/ ReadArtifact \/ WrapReadsHead \/ WrapReadsStatus \/ DigestArtifact
         \/ \E p \in Publishers :
              StartWriting(p) \/ FinishWriting(p) \/ Recheck(p) \/ Replace(p) \/ Killed(p)
         \/ \E p \in Publishers : Refuse(p)
  PROVE  /\ pc'["gate"] = pc["gate"] /\ head'["gate"] = head["gate"]
         /\ moved'["gate"] = moved["gate"] /\ tree' = tree
         /\ checked' = checked /\ report' = report
<1> USE DEF Typed, TypeOK, Programs, Publishers, Measurers, AtWork, Goto
<1>1. CASE StartEvaluate \/ Measure("evaluate", "readHead") \/ EvaluateReadsHead
             \/ EvaluateReadsStatus
  BY <1>1 DEF StartEvaluate, Measure, EvaluateReadsHead, EvaluateReadsStatus
<1>2. CASE ReadArtifact \/ WrapReadsHead \/ WrapReadsStatus \/ DigestArtifact
  BY <1>2 DEF ReadArtifact, WrapReadsHead, WrapReadsStatus, DigestArtifact
<1>3. ASSUME NEW p \in Publishers, StartWriting(p) \/ FinishWriting(p) \/ Recheck(p)
      PROVE  /\ pc'["gate"] = pc["gate"] /\ head'["gate"] = head["gate"]
             /\ moved'["gate"] = moved["gate"] /\ tree' = tree
             /\ checked' = checked /\ report' = report
  BY <1>3 DEF StartWriting, FinishWriting, Recheck
<1>4. ASSUME NEW p \in Publishers, Replace(p) \/ Killed(p) \/ Refuse(p)
      PROVE  /\ pc'["gate"] = pc["gate"] /\ head'["gate"] = head["gate"]
             /\ moved'["gate"] = moved["gate"] /\ tree' = tree
             /\ checked' = checked /\ report' = report
  <2>1. Exit(p) /\ tree' = tree
    BY <1>4 DEF Replace, Killed, Refuse
  <2>2. QED
    BY <2>1 DEF Exit
<1>5. QED
  BY <1>1, <1>2, <1>3, <1>4

Kept ==
  /\ pc'["gate"] = pc["gate"] /\ head'["gate"] = head["gate"]
  /\ moved'["gate"] = moved["gate"] /\ tree' = tree
  /\ checked' = checked /\ report' = report

LEMMA SurveyedNext ==
  ASSUME Typed, Founded, [Next]_vars
  PROVE  Surveyed'
<1> USE DEF Typed, TypeOK, Located, Founded, Surveyed, Measuring, Programs, Measurers,
            AtWork, Goto
<1>1. ASSUME Kept PROVE Surveyed'
  BY <1>1 DEF Kept
<1>2. CASE ChangeTree
  BY <1>2 DEF ChangeTree
<1>3. CASE GateReadsHead
  BY <1>3 DEF GateReadsHead, CanStart
<1>4. CASE GateReadsStatus
  BY <1>4 DEF GateReadsStatus
<1>5. CASE GateReadsWrapper \/ GateReadsArtifact \/ Measure("gate", "decide") \/ Decide
  <2>1. /\ pc["gate"] \in {"readWrapper", "readArtifact", "measure", "decide"}
        /\ pc'["gate"] \in {"readArtifact", "measure", "decide", "done"}
        /\ head' = head /\ moved' = moved /\ tree' = tree
        /\ checked'.clean = checked.clean
    BY <1>5 DEF GateReadsWrapper, GateReadsArtifact, Measure, Decide
  <2>2. QED
    BY <2>1
<1>6. CASE Done \/ Refuse("gate")
  <2>1. pc'["gate"] = "idle" /\ ~checked'.clean
    BY <1>6 DEF Done, Refuse, Exit, Nothing
  <2>2. QED
    BY <2>1
<1>7. CASE UNCHANGED vars
  BY <1>7 DEF vars
<1>8. QED
  BY <1>1, <1>2, <1>3, <1>4, <1>5, <1>6, <1>7, OthersKeepTheGate
  DEF Next, Kept, Publishers

LEMMA CollectedNext ==
  ASSUME Typed, Founded, [Next]_vars
  PROVE  Collected'
<1> USE PromotionAssumption
    DEF Typed, TypeOK, Located, Founded, Collected, Programs, Measurers, AtWork, Goto
<1>1. ASSUME Kept PROVE Collected'
  BY <1>1 DEF Kept
<1>2. CASE ChangeTree
  BY <1>2 DEF ChangeTree
<1>3. CASE GateReadsHead
  BY <1>3 DEF GateReadsHead, CanStart
<1>4. CASE GateReadsStatus
  <2>1. checked'.wrapper = checked.wrapper /\ checked'.artifact = checked.artifact
    BY <1>4 DEF GateReadsStatus
  <2>2. QED
    BY <1>4, <2>1 DEF GateReadsStatus
<1>5. CASE GateReadsWrapper
  <2>1. checked'.wrapper = files["wrapper"] /\ checked'.artifact = checked.artifact
    BY <1>5 DEF GateReadsWrapper
  <2>2. QED
    BY <1>5, <2>1 DEF GateReadsWrapper, Artifacted
<1>6. CASE GateReadsArtifact
  <2> DEFINE a == files["artifact"]
             valid == /\ checked.wrapper \in Wrappers /\ a \in Artifacts
                      /\ Matches(checked.wrapper, a, head["gate"])
  <2>1. /\ checked'.wrapper = checked.wrapper /\ head' = head
        /\ checked'.artifact = IF valid THEN a ELSE None
        /\ pc'["gate"] = "measure"
    BY <1>6 DEF GateReadsArtifact
  <2>2. a \in Artifacts => a.honest
    BY DEF Artifacted, Sincere
  <2> HIDE DEF a
  <2>3. QED
    BY <2>1, <2>2
<1>7. CASE Measure("gate", "decide") \/ Decide
  BY <1>7 DEF Measure, Decide
<1>8. CASE Done \/ Refuse("gate")
  <2>1. checked' = Nothing
    BY <1>8 DEF Done, Refuse, Exit
  <2>2. QED
    BY <2>1 DEF Nothing, Describes
<1>9. CASE UNCHANGED vars
  BY <1>9 DEF vars
<1>10. QED
  BY <1>1, <1>2, <1>3, <1>4, <1>5, <1>6, <1>7, <1>8, <1>9, OthersKeepTheGate
  DEF Next, Kept, Publishers

(* The verdict is given on what was surveyed and collected.                *)
LEMMA NewVerdict ==
  ASSUME Typed, Founded, Decide
  PROVE  Verdict'
<1>1. PICK offline \in BOOLEAN, release \in Commits \cup {None} :
        report' = [commit |-> head["gate"],
                   wrapper |-> checked.wrapper, artifact |-> checked.artifact,
                   honest |-> Honest("gate"),
                   pass |-> /\ offline /\ checked.clean
                            /\ checked.artifact # None
                            /\ checked.wrapper.rate \in Enough
                            /\ release = head["gate"]]
  BY Zenon DEF Decide
<1>2. /\ report'.commit = head["gate"]
      /\ report'.wrapper = checked.wrapper /\ report'.artifact = checked.artifact
      /\ report'.honest = Honest("gate")
      /\ report'.pass => /\ checked.clean /\ checked.artifact # None
                         /\ checked.wrapper.rate \in Enough
  BY <1>1, Zenon
<1>3. checked.clean => Honest("gate")
  BY DEF Decide, Typed, TypeOK, Founded, Surveyed, Measuring, Measurers, Honest, Trees
<1>4. checked.artifact # None =>
        /\ checked.artifact.honest
        /\ checked.wrapper.first.commit = head["gate"]
        /\ checked.wrapper.first.rate = checked.wrapper.rate
        /\ checked.wrapper.digest = checked.artifact
        /\ checked.wrapper.rate = checked.artifact.rate
  BY DEF Founded, Collected, Describes, Matches
<1>5. QED
  BY <1>2, <1>3, <1>4 DEF Verdict, PassRestsOnItsCommit, PassNeedsBothReadings

LEMMA FoundedNext ==
  ASSUME Typed, Founded, [Next]_vars
  PROVE  Founded'
<1>1. Measured' /\ Artifacted' /\ Surveyed' /\ Collected'
  BY MeasuredNext, ArtifactedNext, SurveyedNext, CollectedNext DEF Founded
<1>2. Verdict'
  <2>1. CASE Decide
    BY <2>1, NewVerdict
  <2>2. CASE report' = report
    BY <2>2 DEF Founded, Verdict, PassRestsOnItsCommit, PassNeedsBothReadings
  <2>3. CASE report' = None
    BY <2>3 DEF Verdict, PassRestsOnItsCommit, PassNeedsBothReadings
  <2>4. CASE Done \/ Refuse("gate")
    BY <2>3, <2>4 DEF Done, Refuse, Exit
  <2>5. CASE ChangeTree \/ GateReadsHead \/ GateReadsStatus \/ GateReadsWrapper
               \/ GateReadsArtifact \/ Measure("gate", "decide") \/ UNCHANGED vars
    BY <2>2, <2>5 DEF ChangeTree, GateReadsHead, GateReadsStatus, GateReadsWrapper,
       GateReadsArtifact, Measure, vars
  <2>6. QED
    BY <2>1, <2>2, <2>4, <2>5, OthersKeepTheGate DEF Next, Publishers, Programs
<1>3. QED
  BY <1>1, <1>2 DEF Founded

LEMMA Invariance == Spec => [](Typed /\ Founded)
<1>1. Init => Typed /\ Founded
  BY TypedInit, FoundedInit
<1>2. (Typed /\ Founded) /\ [Next]_vars => (Typed /\ Founded)'
  BY TypedNext, FoundedNext
<1>3. QED
  BY <1>1, <1>2, PTL DEF Spec

(* A verdict PASS rests on cases and evidence measured on the commit that  *)
(* it names, but for what changed while it was measured or wrapped.        *)
THEOREM PassesRestOnTheirCommit == Spec => []PassRestsOnItsCommit
<1>1. Founded => PassRestsOnItsCommit
  BY DEF Founded, Verdict
<1>2. QED
  BY <1>1, Invariance, PTL

(* A verdict PASS stands on both readings of the wrapper program, when     *)
(* they were of different artifacts too.                                   *)
THEOREM PassesNeedBothReadings == Spec => []PassNeedsBothReadings
<1>1. Founded => PassNeedsBothReadings
  BY DEF Founded, Verdict
<1>2. QED
  BY <1>1, Invariance, PTL
=============================================================================
