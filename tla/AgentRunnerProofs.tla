-------------------------- MODULE AgentRunnerProofs --------------------------
(***************************************************************************)
(* Proofs about AgentRunner, for every set of tools, requests, replies and *)
(* limits, and about the operators of Evidence and Sums it is built from.  *)
(***************************************************************************)
EXTENDS AgentRunner, FiniteSetTheorems, WellFoundedInduction, TLAPS

-----------------------------------------------------------------------------
(* merge_sources (module Evidence), for every list of sources and every    *)
(* cap: what a merged list contains, and how long it gets.                 *)

(* A nonempty set of naturals that has a bound has a greatest element.     *)
LEMMA Greatest ==
  ASSUME NEW S \in SUBSET Nat, S # {}, IsFiniteSet(S)
  PROVE  \E i \in S : \A j \in S : j <= i
<1> DEFINE Above(i) == {j \in S : j > i}
           T == {Above(i) : i \in S}
<1>1. T \subseteq FiniteSubsetsOf(S) /\ T # {}
  <2>1. T \subseteq SUBSET S /\ T # {}
    OBVIOUS
  <2>2. FiniteSubsetsOf(S) = SUBSET S
    BY FS_FiniteSubsetsOfFinite
  <2> QED
    BY <2>1, <2>2
<1>2. PICK X \in T : \A Y \in T : <<Y, X>> \notin StrictSubsetOrdering(S)
  <2> HIDE DEF T
  <2> QED
    BY <1>1, WFMin, FS_StrictSubsetOrderingWellFounded
<1>3. PICK i \in S : X = Above(i)
  OBVIOUS
<1>4. ASSUME NEW j \in S, j > i PROVE FALSE
  <2>1. Above(j) \subseteq Above(i)
    <3> SUFFICES ASSUME NEW k \in S, k > j PROVE k > i
      OBVIOUS
    <3>1. i \in Nat /\ j \in Nat /\ k \in Nat
      OBVIOUS
    <3> QED
      BY <3>1, <1>4
  <2>2. j \in Above(i) /\ j \notin Above(j)
    <3>1. j \in Nat /\ ~(j > j)
      OBVIOUS
    <3> QED
      BY <3>1, <1>4
  <2>3. <<Above(j), Above(i)>> \in StrictSubsetOrdering(S)
    BY <2>1, <2>2 DEF StrictSubsetOrdering
  <2>4. Above(j) \in T
    OBVIOUS
  <2> QED
    BY <1>2, <1>3, <2>3, <2>4
<1>5. \A j \in S : j <= i
  <2> SUFFICES ASSUME NEW j \in S PROVE j <= i
    OBVIOUS
  <2>1. i \in Nat /\ j \in Nat /\ ~(j > i)
    BY <1>4
  <2> QED
    BY <2>1
<1> QED
  BY <1>5

(* The last value of a field is one the list has.                          *)
LEMMA LastValueIsListed ==
  ASSUME NEW T, NEW list \in Seq(T), NEW id, NEW f, Filled(list, id, f) # {}
  PROVE  \E i \in Filled(list, id, f) : LastValue(list, id, f) = list[i][f]
<1>1. Filled(list, id, f) \subseteq 1..Len(list)
  BY DEF Filled, Occurrences
<1>2. IsFiniteSet(Filled(list, id, f))
  BY <1>1, FS_Interval, FS_Subset
<1>3. \E i \in Filled(list, id, f) : \A j \in Filled(list, id, f) : j <= i
  BY <1>1, <1>2, Greatest
<1> QED
  BY <1>3 DEF LastValue

(* merge_sources invents nothing: a source it lists was listed before or   *)
(* is in the incoming list, and every field is one that is marked there.   *)
LEMMA MergedSource ==
  ASSUME NEW target, NEW incoming \in Seq(Sources),
         NEW id \in DOMAIN MergeSources(target, incoming)
  PROVE  /\ id \in DOMAIN target \/ Occurrences(incoming, id) # {}
         /\ MergeSources(target, incoming)[id]
              = [f \in Fields |-> MergedField(target, incoming, id, f)]
<1>1. id \in DOMAIN target \cup Admitted(target, incoming)
  BY DEF MergeSources
<1>2. id \in Admitted(target, incoming) => Occurrences(incoming, id) # {}
  BY DEF Admitted, Occurrences, Elements
<1> QED
  BY <1>1, <1>2 DEF MergeSources

LEMMA MergedTypes ==
  ASSUME NEW target, NEW incoming \in Seq(Sources),
         DOMAIN target \subseteq Identities,
         \A id \in DOMAIN target : target[id] \in [Fields -> Marks \cup {NoLabel}],
         NEW id \in DOMAIN MergeSources(target, incoming)
  PROVE  /\ id \in Identities
         /\ MergeSources(target, incoming)[id] \in [Fields -> Marks \cup {NoLabel}]
<1>1. \A i \in DOMAIN incoming : incoming[i] \in Sources
  OBVIOUS
<1>2. id \in Identities
  BY <1>1, MergedSource DEF Identities, Occurrences
<1>3. ASSUME NEW f \in Fields
      PROVE  MergedField(target, incoming, id, f) \in Marks \cup {NoLabel}
  <2>1. CASE Filled(incoming, id, f) # {}
    <3>1. PICK i \in Filled(incoming, id, f) :
            LastValue(incoming, id, f) = incoming[i][f]
      BY <2>1, LastValueIsListed
    <3>2. i \in DOMAIN incoming /\ incoming[i][f] # NoLabel
      BY DEF Filled, Occurrences
    <3>3. incoming[i][f] \in Marks
      BY <1>1, <3>2 DEF Marks
    <3> QED
      BY <2>1, <3>1, <3>3 DEF MergedField
  <2>2. CASE Filled(incoming, id, f) = {}
    BY <2>2 DEF MergedField
  <2> QED
    BY <2>1, <2>2
<1> QED
  BY <1>2, <1>3, MergedSource

(* The mirror image: every nonempty set of positions has a least one.      *)
LEMMA FirstAtIsFirst ==
  ASSUME NEW T, NEW list \in Seq(T), NEW id, Occurrences(list, id) # {}
  PROVE  /\ FirstAt(list, id) \in Occurrences(list, id)
         /\ \A j \in Occurrences(list, id) : FirstAt(list, id) <= j
<1> DEFINE n == Len(list)
           Mirror == {n - i : i \in Occurrences(list, id)}
<1>1. n \in Nat /\ Occurrences(list, id) \subseteq 1..n
  BY DEF Occurrences
<1>2. Mirror \subseteq 0..n /\ Mirror # {}
  BY <1>1
<1>3. Mirror \in SUBSET Nat /\ IsFiniteSet(Mirror)
  <2>1. IsFiniteSet(0..n)
    BY <1>1, FS_Interval
  <2>2. Mirror \in SUBSET (0..n)
    BY <1>2
  <2>3. Mirror \in SUBSET Nat
    BY <2>2, <1>1
  <2> HIDE DEF Mirror
  <2>4. IsFiniteSet(Mirror)
    BY <2>1, <2>2, FS_Subset
  <2> QED
    BY <2>3, <2>4
<1>4. PICK k \in Mirror : \A m \in Mirror : m <= k
  <2> HIDE DEF Mirror
  <2> QED
    BY <1>2, <1>3, Greatest
<1>5. PICK i \in Occurrences(list, id) : k = n - i
  OBVIOUS
<1>6. \A j \in Occurrences(list, id) : i <= j
  <2> SUFFICES ASSUME NEW j \in Occurrences(list, id) PROVE i <= j
    OBVIOUS
  <2>1. n - j <= n - i
    BY <1>4, <1>5
  <2> QED
    BY <2>1, <1>1
<1> QED
  BY <1>6 DEF FirstAt

(* The identities of a list that are not among the old ones, and the place *)
(* where each of them comes first.                                         *)
LEMMA FreshPlaces ==
  ASSUME NEW incoming \in Seq(Sources), NEW old
  PROVE  LET fresh == {s.identity : s \in Elements(incoming)} \ old
         IN  /\ IsFiniteSet(fresh)
             /\ \A id \in fresh : /\ FirstAt(incoming, id) \in 1..Len(incoming)
                                  /\ incoming[FirstAt(incoming, id)].identity = id
<1> DEFINE fresh == {s.identity : s \in Elements(incoming)} \ old
           first(id) == FirstAt(incoming, id)
<1>1. \A id \in fresh : /\ first(id) \in 1..Len(incoming)
                        /\ incoming[first(id)].identity = id
  <2> SUFFICES ASSUME NEW id \in fresh
               PROVE  /\ first(id) \in 1..Len(incoming)
                      /\ incoming[first(id)].identity = id
    OBVIOUS
  <2>1. Occurrences(incoming, id) # {}
    BY DEF Occurrences, Elements
  <2> QED
    BY <2>1, FirstAtIsFirst DEF Occurrences
<1>2. IsFiniteSet(fresh)
  <2> DEFINE identity == [i \in 1..Len(incoming) |-> incoming[i].identity]
             range == {identity[i] : i \in 1..Len(incoming)}
  <2>1. IsFiniteSet(1..Len(incoming))
    BY FS_Interval
  <2>2. fresh \in SUBSET range
    BY DEF Elements
  <2>3. identity \in Surjection(1..Len(incoming), range)
    BY DEF Surjection
  <2> HIDE DEF identity, range
  <2>4. IsFiniteSet(range)
    BY <2>1, <2>3, FS_Surjection
  <2> QED
    BY <2>2, <2>4, FS_Subset
<1> QED
  BY <1>1, <1>2

(* merge_sources keeps its cap: a list within the cap is merged into a     *)
(* list within the cap, however long the incoming one is and however its   *)
(* sources repeat (core/text.py; the runner passes 12).                    *)
THEOREM MergeKeepsTheCap ==
  ASSUME NEW target, IsFiniteSet(DOMAIN target),
         Cardinality(DOMAIN target) <= MaxSources,
         NEW incoming \in Seq(Sources)
  PROVE  /\ IsFiniteSet(DOMAIN MergeSources(target, incoming))
         /\ Cardinality(DOMAIN MergeSources(target, incoming)) <= MaxSources
<1> DEFINE old == DOMAIN target
           fresh == {s.identity : s \in Elements(incoming)} \ old
           first(id) == FirstAt(incoming, id)
           earlier(id) == {other \in fresh : first(other) < first(id)}
           new == Admitted(target, incoming)
<1>1. new = {id \in fresh : Cardinality(old) + Cardinality(earlier(id)) < MaxSources}
  BY DEF Admitted
<1>2. DOMAIN MergeSources(target, incoming) = old \cup new
  BY DEF MergeSources
<1>3. \A id \in fresh : /\ first(id) \in 1..Len(incoming)
                        /\ incoming[first(id)].identity = id
  BY FreshPlaces
<1>4. IsFiniteSet(fresh)
  BY FreshPlaces
<1>5. IsFiniteSet(new) /\ new \subseteq fresh /\ new \cap old = {}
  BY <1>1, <1>4, FS_Subset
<1>6. CASE new = {}
  BY <1>2, <1>6
<1>7. CASE new # {}
  <2> DEFINE places == {first(id) : id \in new}
  <2>1. places \subseteq 1..Len(incoming) /\ places # {}
    BY <1>3, <1>5, <1>7
  <2>2. places \in SUBSET Nat /\ IsFiniteSet(places)
    <3>1. IsFiniteSet(1..Len(incoming))
      BY FS_Interval
    <3>2. places \in SUBSET (1..Len(incoming))
      BY <2>1
    <3>3. places \in SUBSET Nat
      BY <3>2
    <3> HIDE DEF places
    <3>4. IsFiniteSet(places)
      BY <3>1, <3>2, FS_Subset
    <3> QED
      BY <3>3, <3>4
  <2>3. PICK p \in places : \A q \in places : q <= p
    <3> HIDE DEF places
    <3> QED
      BY <2>1, <2>2, Greatest
  <2>4. PICK last \in new : p = first(last)
    OBVIOUS
  <2>5. new \ {last} \subseteq earlier(last)
    <3> SUFFICES ASSUME NEW id \in new, id # last
                 PROVE  first(id) < first(last)
      BY <1>5
    <3>1. first(id) <= first(last)
      BY <2>3, <2>4
    <3>2. first(id) # first(last)
      BY <1>3, <1>5
    <3>3. first(id) \in Nat /\ first(last) \in Nat
      BY <1>3, <1>5
    <3> HIDE DEF first
    <3> QED
      BY <3>1, <3>2, <3>3
  <2>6. Cardinality(new \ {last}) <= Cardinality(earlier(last))
    BY <1>4, <2>5, FS_Subset
  <2>7. Cardinality(new \ {last}) = Cardinality(new) - 1
    BY <1>5, FS_RemoveElement
  <2>8. Cardinality(old) + Cardinality(earlier(last)) < MaxSources
    BY <1>1
  <2>9. /\ IsFiniteSet(old \cup new)
        /\ Cardinality(old \cup new) = Cardinality(old) + Cardinality(new)
    <3>1. old \cap new = {}
      BY <1>5
    <3>2. Cardinality(old \cap new) = 0
      BY <3>1, FS_EmptySet
    <3>3. Cardinality(old) \in Nat /\ Cardinality(new) \in Nat
      BY <1>5, FS_CardinalityType
    <3>4. IsFiniteSet(old) /\ IsFiniteSet(new)
      BY <1>5
    <3> HIDE DEF old, new
    <3>5. /\ IsFiniteSet(old \cup new)
          /\ Cardinality(old \cup new)
               = Cardinality(old) + Cardinality(new) - Cardinality(old \cap new)
      BY <3>4, FS_Union
    <3> QED
      BY <3>2, <3>3, <3>5
  <2>10. /\ Cardinality(old) \in Nat /\ Cardinality(new) \in Nat
         /\ Cardinality(earlier(last)) \in Nat
    BY <1>4, <1>5, FS_CardinalityType, FS_Subset
  <2> HIDE DEF old, new, earlier
  <2> QED
    BY <1>2, <2>6, <2>7, <2>8, <2>9, <2>10, MaxSourcesAssumption
<1> QED
  BY <1>6, <1>7

(* It leaves out no source but for the cap: when one is left out, the list *)
(* is full.  The first one left out comes after as many new ones as fit.   *)
LEMMA MergeFillsTheCap ==
  ASSUME NEW target, IsFiniteSet(DOMAIN target),
         Cardinality(DOMAIN target) <= MaxSources,
         NEW incoming \in Seq(Sources),
         NEW id, Occurrences(incoming, id) # {},
         id \notin DOMAIN MergeSources(target, incoming)
  PROVE  Cardinality(DOMAIN MergeSources(target, incoming)) = MaxSources
<1> DEFINE old == DOMAIN target
           merged == DOMAIN MergeSources(target, incoming)
           fresh == {s.identity : s \in Elements(incoming)} \ old
           first(x) == FirstAt(incoming, x)
           earlier(x) == {other \in fresh : first(other) < first(x)}
           refused == {x \in fresh : x \notin merged}
           behind == {Len(incoming) - first(x) : x \in refused}
<1>1. Admitted(target, incoming)
        = {x \in fresh : Cardinality(old) + Cardinality(earlier(x)) < MaxSources}
  BY DEF Admitted
<1>2. merged = old \cup Admitted(target, incoming)
  BY DEF MergeSources
<1>3. \A x \in fresh : first(x) \in 1..Len(incoming)
  BY FreshPlaces
<1>4. IsFiniteSet(fresh)
  BY FreshPlaces
<1>5. id \in refused
  BY <1>2 DEF Occurrences, Elements
<1>6. behind \subseteq 0..Len(incoming) /\ behind # {}
  BY <1>3, <1>5
<1>7. behind \in SUBSET Nat /\ IsFiniteSet(behind)
  <2>1. IsFiniteSet(0..Len(incoming))
    BY FS_Interval
  <2>2. behind \in SUBSET (0..Len(incoming)) /\ behind \in SUBSET Nat
    BY <1>6
  <2> HIDE DEF behind
  <2> QED
    BY <2>1, <2>2, FS_Subset
<1>8. PICK k \in behind : \A m \in behind : m <= k
  <2> HIDE DEF behind
  <2> QED
    BY <1>6, <1>7, Greatest
<1>9. PICK x \in refused : k = Len(incoming) - first(x)
  OBVIOUS
<1>10. \A y \in refused : first(x) <= first(y)
  <2> SUFFICES ASSUME NEW y \in refused PROVE first(x) <= first(y)
    OBVIOUS
  <2>1. Len(incoming) - first(y) <= Len(incoming) - first(x)
    BY <1>8, <1>9
  <2>2. first(x) \in Nat /\ first(y) \in Nat /\ Len(incoming) \in Nat
    BY <1>3
  <2> HIDE DEF first
  <2> QED
    BY <2>1, <2>2
<1>11. earlier(x) \subseteq merged /\ earlier(x) \cap old = {}
  <2> SUFFICES ASSUME NEW y \in earlier(x) PROVE y \in merged
    OBVIOUS
  <2>1. y \in fresh /\ first(y) < first(x) /\ x \in fresh
    OBVIOUS
  <2>2. first(x) \in Nat /\ first(y) \in Nat
    BY <1>3, <2>1
  <2>3. ~(first(x) <= first(y))
    <3> HIDE DEF first
    <3> QED
      BY <2>1, <2>2
  <2> QED
    BY <1>10, <2>1, <2>3
<1>12. /\ Cardinality(old) + Cardinality(earlier(x)) >= MaxSources
       /\ IsFiniteSet(earlier(x))
       /\ Cardinality(old) \in Nat /\ Cardinality(earlier(x)) \in Nat
  <2>1. IsFiniteSet(earlier(x))
    BY <1>4, FS_Subset
  <2>2. Cardinality(old) \in Nat /\ Cardinality(earlier(x)) \in Nat
    BY <2>1, FS_CardinalityType
  <2>3. ~(Cardinality(old) + Cardinality(earlier(x)) < MaxSources)
    BY <1>1, <1>2
  <2> HIDE DEF old, earlier
  <2> QED
    BY <2>1, <2>2, <2>3, MaxSourcesAssumption
<1>13. /\ IsFiniteSet(merged) /\ Cardinality(merged) \in Nat
       /\ Cardinality(merged) <= MaxSources
  BY MergeKeepsTheCap, FS_CardinalityType
<1>14. Cardinality(old \cup earlier(x)) = Cardinality(old) + Cardinality(earlier(x))
  <2>1. Cardinality(old \cap earlier(x)) = 0
    BY <1>11, FS_EmptySet
  <2>2. IsFiniteSet(old)
    OBVIOUS
  <2> DEFINE before == earlier(x)
  <2>3. /\ Cardinality(old \cap before) = 0 /\ IsFiniteSet(before)
        /\ Cardinality(old) \in Nat /\ Cardinality(before) \in Nat
    BY <1>12, <2>1
  <2> HIDE DEF old, before
  <2>4. Cardinality(old \cup before)
          = Cardinality(old) + Cardinality(before) - Cardinality(old \cap before)
    BY <2>2, <2>3, FS_Union
  <2>5. Cardinality(old \cup before) = Cardinality(old) + Cardinality(before)
    BY <2>3, <2>4
  <2> QED
    BY <2>5 DEF before
<1>15. Cardinality(old \cup earlier(x)) <= Cardinality(merged)
  <2>1. old \cup earlier(x) \subseteq merged
    BY <1>2, <1>11
  <2> HIDE DEF old, earlier, merged
  <2> QED
    BY <1>13, <2>1, FS_Subset
<1> HIDE DEF old, earlier, merged
<1> QED
  BY <1>12, <1>13, <1>14, <1>15, MaxSourcesAssumption DEF merged

-----------------------------------------------------------------------------
(* Sums (module Sums): a sum is a number, and is that of its parts.        *)
LEMMA UnitsAreFinite ==
  ASSUME NEW I, NEW w, IsFiniteSet(I), \A i \in I : w[i] \in Nat
  PROVE  IsFiniteSet(Units(I, w)) /\ Total(I, w) \in Nat
<1> DEFINE U == {{i} \X (1..w[i]) : i \in I}
           f == [i \in I |-> {i} \X (1..w[i])]
<1>1. f \in Surjection(I, U)
  BY DEF Surjection
<1>2. IsFiniteSet(U)
  BY <1>1, FS_Surjection
<1>3. ASSUME NEW i \in I PROVE IsFiniteSet({i} \X (1..w[i]))
  <2>1. IsFiniteSet({i})
    BY FS_Singleton, Zenon
  <2>2. IsFiniteSet(1..w[i])
    BY FS_Interval
  <2> QED
    BY <2>1, <2>2, FS_Product
<1>4. \A T \in U : IsFiniteSet(T)
  BY <1>3
<1>5. IsFiniteSet(UNION U)
  <2> HIDE DEF U
  <2> QED
    BY <1>2, <1>4, FS_UNION
<1> QED
  BY <1>5, FS_CardinalityType DEF Units, Total

LEMMA TotalOfNone == ASSUME NEW w PROVE Total({}, w) = 0
BY FS_EmptySet DEF Total, Units

LEMMA TotalOfOne ==
  ASSUME NEW i, NEW w, w[i] \in Nat
  PROVE  Total({i}, w) = w[i] /\ IsFiniteSet(Units({i}, w))
<1>1. Units({i}, w) = {i} \X (1..w[i])
  BY DEF Units
<1>2. IsFiniteSet({i}) /\ Cardinality({i}) = 1
  BY FS_Singleton
<1>3. IsFiniteSet(1..w[i]) /\ Cardinality(1..w[i]) = w[i]
  BY FS_Interval
<1>4. /\ IsFiniteSet({i} \X (1..w[i]))
      /\ Cardinality({i} \X (1..w[i])) = Cardinality({i}) * Cardinality(1..w[i])
  BY <1>2, <1>3, FS_Product
<1>5. 1 * w[i] = w[i]
  OBVIOUS
<1> QED
  BY <1>1, <1>2, <1>3, <1>4, <1>5 DEF Total

(* The sum over two disjoint sets.                                         *)
LEMMA TotalOfBoth ==
  ASSUME NEW I, NEW J, NEW w, IsFiniteSet(I), IsFiniteSet(J), I \cap J = {},
         \A i \in I \cup J : w[i] \in Nat
  PROVE  Total(I \cup J, w) = Total(I, w) + Total(J, w)
<1>1. IsFiniteSet(Units(I, w)) /\ IsFiniteSet(Units(J, w))
  BY UnitsAreFinite
<1>2. Units(I \cup J, w) = Units(I, w) \cup Units(J, w)
  BY DEF Units
<1>3. Units(I, w) \cap Units(J, w) = {}
  BY DEF Units
<1>4. Cardinality({}) = 0 /\ Total(I, w) \in Nat /\ Total(J, w) \in Nat
  BY FS_EmptySet, UnitsAreFinite
<1>5. Cardinality(Units(I, w) \cup Units(J, w))
        = Cardinality(Units(I, w)) + Cardinality(Units(J, w)) - Cardinality({})
  BY <1>1, <1>3, FS_Union
<1>6. Total(I \cup J, w) = Total(I, w) + Total(J, w) - 0
  BY <1>2, <1>4, <1>5 DEF Total
<1> QED
  BY <1>4, <1>6

LEMMA TotalOfSame ==
  ASSUME NEW I, NEW v, NEW w, \A i \in I : v[i] = w[i]
  PROVE  Total(I, v) = Total(I, w)
BY DEF Total, Units

-----------------------------------------------------------------------------
(* Types.                                                                  *)


(* While the runner is at one of these calls a step is open.               *)
InStep ==
  { "plan", "planned", "recordStop", "other", "final_answer", "guard",
    "tool_call", "execute", "executed", "recordTool" }

(* What the place in the code says of the data: the part of the inductive  *)
(* invariant that types alone do not give.                                 *)
Shape ==
  /\ pc \notin {"idle", "done"} => request \in Requests
  /\ pc \in InStep => steps # << >>
  /\ pc = "planned" => decision \in Decisions
  /\ pc \in {"final_answer", "guard"} =>
       decision \in Decisions /\ decision.action = "final_answer"
  /\ pc \in {"tool_call", "execute"} =>
       decision \in Decisions /\ decision.action = "tool_call"
  /\ pc \in {"recordStop", "finish"} => ending \in EndingType
  /\ pc = "executed" \/ (pc = "recordTool" /\ ending = None) =>
       Current.reply \in ToolReplies

Typed == TypeOK /\ Shape

LEMMA UpdateStepTypes ==
  ASSUME steps \in Seq(StepType), steps # << >>,
         NEW s \in StepType, UpdateStep(s)
  PROVE  /\ steps' \in Seq(StepType)
         /\ steps' # << >>
         /\ Len(steps') = Len(steps)
         /\ Current' = s
  BY DEF UpdateStep, Current

LEMMA CurrentType ==
  ASSUME steps \in Seq(StepType), steps # << >>
  PROVE  Current \in StepType
  BY DEF Current

(* The accounting keeps its type under the updates the runner makes.       *)
LEMMA RunUpdates ==
  ASSUME run \in RunType
  PROVE  /\ [run EXCEPT !.stepCount = @ + 1] \in RunType
         /\ [run EXCEPT !.guardrail = TRUE] \in RunType
         /\ \A call \in Calls : [run EXCEPT !.calls = @ \cup {call}] \in RunType
         /\ \A cloud \in BOOLEAN, tokens \in Nat :
              [run EXCEPT !.unpriced = @ \/ cloud, !.tokens = @ + tokens] \in RunType
<1>1. [run EXCEPT !.stepCount = @ + 1] \in RunType
  BY DEF RunType
<1>2. [run EXCEPT !.guardrail = TRUE] \in RunType
  BY DEF RunType
<1>3. ASSUME NEW call \in Calls
      PROVE  [run EXCEPT !.calls = @ \cup {call}] \in RunType
  BY DEF RunType
<1>4. ASSUME NEW cloud \in BOOLEAN, NEW tokens \in Nat
      PROVE  [run EXCEPT !.unpriced = @ \/ cloud, !.tokens = @ + tokens] \in RunType
  <2> DEFINE b == run.unpriced \/ cloud
             n == run.tokens + tokens
  <2>1. b \in BOOLEAN
    OBVIOUS
  <2>2. n \in Nat
    BY DEF RunType
  <2> HIDE DEF b, n
  <2>3. [run EXCEPT !.unpriced = b, !.tokens = n] \in RunType
    BY <2>1, <2>2 DEF RunType
  <2> QED
    BY <2>3 DEF b, n
<1> QED
  BY <1>1, <1>2, <1>3, <1>4

LEMMA EvaluateStopType ==
  ASSUME NEW r, NEW limits, NEW steplimit, NEW t
  PROVE  EvaluateStop(r, limits, steplimit, t) \in StopReasons \cup {Continue}
  BY DEF EvaluateStop, StopReasons

LEMMA FallbackType ==
  ASSUME NEW reason \in StopReasons
  PROVE  Fallback(reason) \in EndingType
  BY DEF Fallback, EndingType

LEMMA TypedInit == Init => Typed
  BY RunnerAssumption DEF Init, Typed, TypeOK, Shape, Labels, NewRun, RunType, InStep, NoSources

(* The reading of a clock moves time forward, whatever the reading is.     *)
LEMMA ReadingType ==
  ASSUME now \in Nat, NEW t \in Times, Reading(t)
  PROVE  now' \in Nat /\ t \in Nat
  BY RunnerAssumption DEF Times, Reading, ReadClock, ClockLies

LEMMA RefusedType ==
  /\ RefusedResult("invalid_decision") \in ResultType
  /\ RefusedResult("llm_error") \in ResultType
  BY DEF RefusedResult, ResultType, StopReasons

LEMMA TypedSubmit ==
  ASSUME Typed, NEW r \in Requests, Submit(r)
  PROVE  Typed'
<1>1. result' \in ResultType \cup {None}
  BY RefusedType DEF Typed, TypeOK, Submit
<1>2. pc' \in {"reset", "done"}
  BY DEF Submit
<1> QED
  BY <1>1, <1>2 DEF Typed, TypeOK, Shape, Submit, Labels, InStep, Current

LEMMA TypedResetPlanner ==
  ASSUME Typed, ResetPlanner
  PROVE  Typed'
<1>1. result' \in ResultType \cup {None}
  BY RefusedType DEF Typed, TypeOK, ResetPlanner, Refuse
<1>2. pc' \in {"startClock", "done"} /\ UNCHANGED run
  BY DEF ResetPlanner, Refuse
<1> QED
  BY <1>1, <1>2 DEF Typed, TypeOK, Shape, ResetPlanner, Labels, InStep, Current

LEMMA TypedStartClock ==
  ASSUME Typed, StartClock
  PROVE  Typed'
<1>1. request \in Requests /\ now \in Nat
  BY DEF Typed, TypeOK, Shape, StartClock
<1>2. CASE ClockRaises /\ Refuse("llm_error")
  BY <1>1, <1>2, RefusedType
     DEF Typed, TypeOK, Shape, StartClock, Refuse, ClockRaises, Labels, InStep, Current
<1>3. ASSUME NEW t \in Times, Reading(t), run' = NewRun(request, t),
             pc' = "started", UNCHANGED result
      PROVE  Typed'
  <2>1. now' \in Nat /\ t \in Nat
    BY <1>1, <1>3, ReadingType
  <2>2. request.live \in BOOLEAN
    BY <1>1, RunnerAssumption
  <2>3. run' \in RunType
    BY <1>3, <2>1, <2>2 DEF NewRun, RunType
  <2> QED
    BY <1>1, <1>3, <2>1, <2>3
       DEF Typed, TypeOK, Shape, StartClock, Labels, InStep, Current
<1> QED
  BY <1>2, <1>3 DEF StartClock

LEMMA TypedRecordStarted ==
  ASSUME Typed, RecordStarted
  PROVE  Typed'
  BY FallbackType
     DEF Typed, TypeOK, Shape, RecordStarted, StoreOutcomes, Event, EventType,
         StopReasons, Labels, InStep, Current

LEMMA TypedCheckBudget ==
  ASSUME Typed, CheckBudget
  PROVE  Typed'
<1> USE DEF Typed, TypeOK, Shape, Labels, InStep, Current
<1>1. CASE ClockRaises /\ ending' = Fallback("llm_error") /\ pc' = "finish"
           /\ UNCHANGED <<run, steps>>
  BY <1>1, FallbackType DEF CheckBudget, ClockRaises, StopReasons
<1>2. ASSUME NEW t \in Times, Reading(t),
             EvaluateStop(run, request.limits, TRUE, t) # Continue,
             ending' = Fallback(EvaluateStop(run, request.limits, TRUE, t)),
             pc' = "finish", UNCHANGED <<run, steps>>
      PROVE  Typed'
  <2>1. ending' \in EndingType
    BY <1>2, FallbackType, EvaluateStopType
  <2>2. now' \in Nat
    BY <1>2, ReadingType
  <2> QED
    BY <1>2, <2>1, <2>2 DEF CheckBudget
<1>3. ASSUME NEW t \in Times, Reading(t),
             steps' = Append(steps, NewStep),
             run' = [run EXCEPT !.stepCount = @ + 1],
             pc' = "plan", UNCHANGED ending
      PROVE  Typed'
  <2>1. NewStep \in StepType
    BY DEF NewStep, StepType, AgentStates
  <2>2. steps' \in Seq(StepType) /\ steps' # << >>
    BY <1>3, <2>1
  <2>3. run' \in RunType
    BY <1>3, RunUpdates
  <2>4. now' \in Nat
    BY <1>3, ReadingType
  <2> QED
    BY <1>3, <2>2, <2>3, <2>4 DEF CheckBudget
<1> QED
  BY <1>1, <1>2, <1>3 DEF CheckBudget

(* Ending the open step: what PlannerRaises, PlannerReturns and            *)
(* CheckDecision share.                                                    *)
LEMMA EndWithTypes ==
  ASSUME steps \in Seq(StepType), steps # << >>, NEW reason \in StopReasons,
         NEW s \in StepType, EndWith(reason, s)
  PROVE  /\ steps' \in Seq(StepType) /\ steps' # << >>
         /\ ending' \in EndingType
         /\ pc' = "recordStop"
  BY UpdateStepTypes, FallbackType DEF EndWith

LEMMA CountedType ==
  ASSUME NEW tokens \in Usage
  PROVE  Counted(tokens) \in Nat
  BY RunnerAssumption DEF Counted, Usage

LEMMA StoppedTypes ==
  ASSUME NEW s \in StepType
  PROVE  /\ Stopped(s) \in StepType
         /\ \A said \in BOOLEAN : StoppedBy(s, said) \in StepType
  BY DEF Stopped, StoppedBy, StepType, AgentStates

LEMMA TypedPlannerRaises ==
  ASSUME Typed, NEW f \in PlannerFailures, PlannerRaises(f)
  PROVE  Typed'
<1> DEFINE s == [Current EXCEPT !.phase = f.phase, !.cloud = f.cloud,
                                !.tokens = Counted(f.tokens)]
<1>1. pc = "plan" /\ steps \in Seq(StepType) /\ steps # << >> /\ request \in Requests
      /\ run \in RunType
  BY DEF Typed, TypeOK, Shape, InStep, PlannerRaises
<1>2. f.phase \in Phases \cup {None} /\ f.cloud \in BOOLEAN /\ f.said \in BOOLEAN
      /\ Counted(f.tokens) \in Nat
  BY CountedType DEF PlannerFailures, Says
<1>3. s \in StepType
  BY <1>1, <1>2, CurrentType DEF StepType
<1>4. StoppedBy(s, f.said \/ f.tokens = Malformed) \in StepType
  BY <1>2, <1>3, StoppedTypes
<1>5. steps' \in Seq(StepType) /\ steps' # << >> /\ ending' \in EndingType
      /\ pc' = "recordStop"
  BY <1>1, <1>4, EndWithTypes DEF PlannerRaises, StopReasons
<1>6. run' \in RunType
  <2>1. run' = [run EXCEPT !.unpriced = @ \/ f.cloud,
                           !.tokens = @ + Counted(f.tokens)]
    BY DEF PlannerRaises
  <2> QED
    BY <2>1, <1>1, <1>2, RunUpdates
<1> QED
  BY <1>1, <1>5, <1>6 DEF Typed, TypeOK, Shape, Labels, InStep, PlannerRaises

(* What is known in every step of the run: used by the lemmas that follow. *)
LEMMA OpenStep ==
  ASSUME Typed, pc \in InStep
  PROVE  /\ steps \in Seq(StepType) /\ steps # << >>
         /\ Current \in StepType
         /\ Stopped(Current) \in StepType
         /\ request \in Requests /\ run \in RunType /\ now \in Nat
<1>1. steps \in Seq(StepType) /\ steps # << >>
  BY DEF Typed, TypeOK, Shape
<1>2. Current \in StepType /\ Stopped(Current) \in StepType
  BY <1>1, CurrentType, StoppedTypes
<1> QED
  BY <1>1, <1>2 DEF Typed, TypeOK, Shape, InStep

LEMMA TypedPlannerReturns ==
  ASSUME Typed, NEW p \in PlannerResults, PlannerReturns(p)
  PROVE  Typed'
<1> DEFINE s == [Current EXCEPT !.cloud = p.cloud, !.tokens = Counted(p.tokens)]
<1>1. pc = "plan" /\ pc \in InStep
  BY DEF PlannerReturns, InStep
<1>2. p.decision \in Decisions /\ p.cloud \in BOOLEAN /\ Counted(p.tokens) \in Nat
  BY CountedType DEF PlannerResults
<1>3. s \in StepType
  BY <1>1, <1>2, OpenStep DEF StepType
<1>4. Stopped(s) \in StepType
  BY <1>3, StoppedTypes
<1>5. /\ steps' \in Seq(StepType) /\ steps' # << >>
      /\ \/ ending' \in EndingType /\ pc' = "recordStop"
         \/ UNCHANGED ending /\ pc' = "planned"
  <2>1. CASE EndWith("llm_error", Stopped(s))
    BY <1>1, <1>4, <2>1, OpenStep, EndWithTypes DEF StopReasons
  <2>2. CASE UpdateStep(s) /\ pc' = "planned" /\ UNCHANGED ending
    BY <1>1, <1>3, <2>2, OpenStep, UpdateStepTypes
  <2> QED
    BY <2>1, <2>2 DEF PlannerReturns
<1>6. run' \in RunType
  <2>1. run' = [run EXCEPT !.unpriced = @ \/ p.cloud,
                           !.tokens = @ + Counted(p.tokens)]
    BY DEF PlannerReturns
  <2> QED
    BY <2>1, <1>1, <1>2, OpenStep, RunUpdates
<1>7. decision' = p.decision
  BY DEF PlannerReturns
<1> QED
  BY <1>1, <1>2, <1>5, <1>6, <1>7
     DEF Typed, TypeOK, Shape, Labels, InStep, PlannerReturns

LEMMA TypedCheckDecision ==
  ASSUME Typed, CheckDecision
  PROVE  Typed'
<1>1. pc = "planned" /\ pc \in InStep /\ decision \in Decisions
  BY DEF CheckDecision, InStep, Typed, Shape
<1>2. decision.action \in {"final_answer", "tool_call", "other"}
  BY <1>1 DEF Decisions
<1>3. now' \in Nat
  BY <1>1, OpenStep, ReadingType DEF CheckDecision, ClockRaises
<1>4. /\ steps' \in Seq(StepType) /\ steps' # << >>
      /\ \/ ending' \in EndingType /\ pc' = "recordStop"
         \/ UNCHANGED ending /\ pc' = decision.action
  <2>1. ASSUME NEW reason \in StopReasons, EndWith(reason, Stopped(Current))
        PROVE  /\ steps' \in Seq(StepType) /\ steps' # << >>
               /\ ending' \in EndingType /\ pc' = "recordStop"
    BY <1>1, <2>1, OpenStep, EndWithTypes
  <2>2. CASE EndWith("llm_error", Stopped(Current))
    BY <2>1, <2>2 DEF StopReasons
  <2>3. ASSUME NEW t \in Times,
               LET stop == EvaluateStop(run, request.limits, FALSE, t)
               IN  IF stop # Continue
                   THEN EndWith(stop, Stopped(Current))
                   ELSE pc' = decision.action /\ UNCHANGED <<steps, ending>>
        PROVE  <1>4!1 /\ <1>4!2
    <3>1. EvaluateStop(run, request.limits, FALSE, t) \in StopReasons \cup {Continue}
      BY EvaluateStopType
    <3> QED
      BY <1>1, <2>1, <2>3, <3>1, OpenStep
  <2> QED
    BY <2>2, <2>3 DEF CheckDecision
<1> QED
  BY <1>1, <1>2, <1>3, <1>4
     DEF Typed, TypeOK, Shape, Labels, InStep, CheckDecision

LEMMA EventTypes ==
  ASSUME NEW outcome \in StoreOutcomes, NEW step \in StepType \cup {None},
         NEW index \in Nat, NEW kind \in {"started", "step", "completed"}
  PROVE  Event(kind, index, step, outcome) \in EventType
  BY DEF Event, EventType, StoreOutcomes

LEMMA TypedRecordStoppedStep ==
  ASSUME Typed, RecordStoppedStep
  PROVE  Typed'
<1>1. pc = "recordStop" /\ pc \in InStep /\ Len(steps) \in Nat
  BY OpenStep DEF RecordStoppedStep, InStep
<1>2. log' \in Seq(EventType)
  BY <1>1, OpenStep, EventTypes DEF RecordStoppedStep, Typed, TypeOK
<1>3. [Current EXCEPT !.error = TRUE] \in StepType
  BY <1>1, OpenStep DEF StepType
<1>4. steps' \in Seq(StepType) /\ Len(steps') = Len(steps)
  BY <1>1, <1>3, OpenStep, UpdateStepTypes DEF RecordStoppedStep, Typed, TypeOK
<1> QED
  BY <1>1, <1>2, <1>4 DEF Typed, TypeOK, Shape, Labels, InStep, RecordStoppedStep

LEMMA TypedRejectDecision ==
  ASSUME Typed, RejectDecision
  PROVE  Typed'
<1>1. pc = "other" /\ pc \in InStep /\ Len(steps) \in Nat
  BY OpenStep DEF RejectDecision, InStep
<1>2. log' \in Seq(EventType)
  BY <1>1, OpenStep, EventTypes DEF RejectDecision, Typed, TypeOK
<1>3. steps' \in Seq(StepType)
  BY <1>1, OpenStep, UpdateStepTypes DEF RejectDecision
<1>4. ending' \in EndingType
  BY FallbackType DEF RejectDecision, StopReasons
<1> QED
  BY <1>1, <1>2, <1>3, <1>4 DEF Typed, TypeOK, Shape, Labels, InStep, RejectDecision

LEMMA TypedRecordAnswerStep ==
  ASSUME Typed, RecordAnswerStep
  PROVE  Typed'
<1> DEFINE s == [Current EXCEPT !.state = "completed"]
<1>1. pc = "final_answer" /\ pc \in InStep /\ Len(steps) \in Nat
  BY OpenStep DEF RecordAnswerStep, InStep
<1>2. s \in StepType /\ Stopped(s) \in StepType
  <2>1. s \in StepType
    BY <1>1, OpenStep DEF StepType, AgentStates
  <2> QED
    BY <2>1, StoppedTypes
<1>3. PICK outcome \in StoreOutcomes :
        /\ log' = Append(log, Event("step", Len(steps), s, outcome))
        /\ \/ /\ UpdateStep(Stopped(s))
              /\ ending' = Fallback("llm_error") /\ pc' = "finish"
           \/ UpdateStep(s) /\ pc' = "guard" /\ UNCHANGED ending
  BY DEF RecordAnswerStep
<1>4. log' \in Seq(EventType)
  <2>1. log \in Seq(EventType)
    BY DEF Typed, TypeOK
  <2>2. Event("step", Len(steps), s, outcome) \in EventType
    BY <1>1, <1>2, EventTypes
  <2> HIDE DEF s
  <2> QED
    BY <1>3, <2>1, <2>2
<1>5. steps' \in Seq(StepType) /\ steps' # << >>
  BY <1>1, <1>2, <1>3, OpenStep, UpdateStepTypes
<1>6. \/ ending' \in EndingType /\ pc' = "finish"
      \/ UNCHANGED ending /\ pc' = "guard"
  BY <1>3, FallbackType DEF StopReasons
<1> QED
  BY <1>1, <1>4, <1>5, <1>6 DEF Typed, TypeOK, Shape, Labels, InStep, RecordAnswerStep

LEMMA TypedGuardAnswer ==
  ASSUME Typed, GuardAnswer
  PROVE  Typed'
<1>1. pc = "guard" /\ pc \in InStep /\ decision \in Decisions
      /\ decision.action = "final_answer"
  BY DEF GuardAnswer, InStep, Typed, Shape
<1>2. decision.cites \in SUBSET Marks /\ decision.abstains \in BOOLEAN
      /\ decision.fallback \in BOOLEAN
  BY <1>1 DEF Decisions
<1>3. run' \in RunType
  BY <1>1, OpenStep, RunUpdates DEF GuardAnswer
<1>4. ending' \in EndingType
  <2>1. CASE ending' = Fallback("guardrail_triggered")
    BY <2>1, FallbackType DEF StopReasons
  <2>2. ASSUME NEW kept \in SUBSET decision.cites, NEW outputFallback \in BOOLEAN,
               ending' = [reason |-> "completed", cites |-> kept,
                          fallback |-> decision.fallback \/ outputFallback,
                          abstains |-> decision.abstains]
        PROVE  ending' \in EndingType
    <3>1. (decision.fallback \/ outputFallback) \in BOOLEAN
      OBVIOUS
    <3>2. kept \in SUBSET Marks
      BY <1>2
    <3> QED
      BY <1>2, <2>2, <3>1, <3>2 DEF EndingType, StopReasons
  <2> QED
    BY <2>1, <2>2 DEF GuardAnswer
<1>5. pc' = "finish" /\ UNCHANGED <<request, now, steps, sources, decision, log,
                                   executed, result>>
  BY DEF GuardAnswer
<1> QED
  BY <1>1, <1>3, <1>4, <1>5 DEF Typed, TypeOK, Shape, Labels, InStep

(* Ending a tool call: what its four actions share.                        *)
LEMMA EndToolStepTypes ==
  ASSUME steps \in Seq(StepType), steps # << >>, NEW reason \in StopReasons,
         NEW s \in StepType, EndToolStep(reason, s)
  PROVE  /\ steps' \in Seq(StepType) /\ steps' # << >>
         /\ ending' \in EndingType
         /\ ending' # None
         /\ pc' = "recordTool"
  BY UpdateStepTypes, FallbackType, RunnerAssumption DEF EndToolStep

LEMMA TypedScreenToolCall ==
  ASSUME Typed, ScreenToolCall
  PROVE  Typed'
<1> DEFINE call == decision.call
           s == [Current EXCEPT !.state = "tool_call", !.tool = call[1]]
<1>1. pc = "tool_call" /\ pc \in InStep /\ decision \in Decisions
      /\ decision.action = "tool_call"
  BY DEF ScreenToolCall, InStep, Typed, Shape
<1>2. call \in Calls /\ call[1] \in Names
  BY <1>1 DEF Decisions, Calls
<1>3. s \in StepType
  BY <1>1, <1>2, OpenStep DEF StepType, AgentStates
<1>4. [s EXCEPT !.state = "needs_human", !.error = TRUE] \in StepType
  BY <1>3 DEF StepType, AgentStates
<1>5. \A said \in BOOLEAN : StoppedBy(s, said) \in StepType
  BY <1>3, StoppedTypes
<1>6. Objection(call) \in StopReasons \cup {Continue}
  BY DEF Objection, StopReasons
<1>7. CASE Objection(call) = Continue
  <2>1. UpdateStep(s) /\ run' = [run EXCEPT !.calls = @ \cup {call}]
        /\ pc' = "execute" /\ UNCHANGED ending
    BY <1>7 DEF ScreenToolCall
  <2>2. steps' \in Seq(StepType) /\ steps' # << >>
    BY <1>1, <1>3, <2>1, OpenStep, UpdateStepTypes
  <2>3. run' \in RunType
    BY <1>1, <1>2, <2>1, OpenStep, RunUpdates
  <2> QED
    BY <1>1, <2>1, <2>2, <2>3
       DEF Typed, TypeOK, Shape, Labels, InStep, ScreenToolCall
<1>8. CASE Objection(call) # Continue
  <2>1. Objection(call) \in StopReasons
    BY <1>6, <1>8
  <2>2. PICK said \in BOOLEAN :
          EndToolStep(Objection(call),
            IF Objection(call) = "needs_human"
            THEN [s EXCEPT !.state = "needs_human", !.error = TRUE]
            ELSE StoppedBy(s, said))
    BY <1>8 DEF ScreenToolCall, Says
  <2>3. PICK t \in StepType : EndToolStep(Objection(call), t)
    BY <1>4, <1>5, <2>2
  <2>4. /\ steps' \in Seq(StepType) /\ steps' # << >>
        /\ ending' \in EndingType /\ ending' # None /\ pc' = "recordTool"
    BY <1>1, <2>1, <2>3, OpenStep, EndToolStepTypes
  <2>5. UNCHANGED run
    BY <1>8 DEF ScreenToolCall
  <2> QED
    BY <1>1, <2>4, <2>5 DEF Typed, TypeOK, Shape, Labels, InStep, ScreenToolCall
<1> QED
  BY <1>7, <1>8

LEMMA TypedToolRaises ==
  ASSUME Typed, ToolRaises
  PROVE  Typed'
<1>1. pc = "execute" /\ pc \in InStep /\ decision \in Decisions
      /\ decision.action = "tool_call"
  BY DEF ToolRaises, InStep, Typed, Shape
<1>2. decision.call \in Calls
  BY <1>1 DEF Decisions
<1>3. PICK said \in BOOLEAN : EndToolStep("tool_error_limit", StoppedBy(Current, said))
  BY DEF ToolRaises, Says
<1>4. StoppedBy(Current, said) \in StepType
  BY <1>1, OpenStep, StoppedTypes
<1>5. /\ steps' \in Seq(StepType) /\ steps' # << >>
      /\ ending' \in EndingType /\ ending' # None /\ pc' = "recordTool"
  BY <1>1, <1>3, <1>4, OpenStep, EndToolStepTypes DEF StopReasons
<1>6. executed' \in Seq(Calls)
  BY <1>2 DEF ToolRaises, Typed, TypeOK
<1> QED
  BY <1>1, <1>5, <1>6 DEF Typed, TypeOK, Shape, Labels, InStep, ToolRaises

LEMMA ReplyTypes ==
  ASSUME NEW reply \in ToolReplies
  PROVE  /\ reply.ok \in BOOLEAN /\ reply.priced \in BOOLEAN
         /\ reply.hasEvidence \in BOOLEAN
         /\ reply.sources \in Seq(Sources)
         /\ reply.tokens \in Nat \cup {Malformed} /\ reply.cost \in Nat
  BY RunnerAssumption DEF ToolReplyType

LEMMA TypedToolReturns ==
  ASSUME Typed, NEW reply \in ToolReplies, ToolReturns(reply)
  PROVE  Typed'
<1> DEFINE s == [Current EXCEPT !.reply = reply]
<1>1. pc = "execute" /\ pc \in InStep /\ decision \in Decisions
      /\ decision.action = "tool_call"
  BY DEF ToolReturns, InStep, Typed, Shape
<1>2. executed' \in Seq(Calls)
  <2>1. decision.call \in Calls
    BY <1>1 DEF Decisions
  <2> QED
    BY <2>1 DEF ToolReturns, Typed, TypeOK
<1>3. s \in StepType /\ s.reply = reply
  BY <1>1, OpenStep DEF StepType
<1>4. CASE reply.tokens = Malformed
  <2>1. EndToolStep("tool_error_limit", Stopped(s)) /\ UNCHANGED run
    BY <1>4 DEF ToolReturns
  <2>2. Stopped(s) \in StepType
    BY <1>3, StoppedTypes
  <2>3. /\ steps' \in Seq(StepType) /\ steps' # << >>
        /\ ending' \in EndingType /\ ending' # None /\ pc' = "recordTool"
    BY <1>1, <2>1, <2>2, OpenStep, EndToolStepTypes DEF StopReasons
  <2> QED
    BY <1>1, <1>2, <2>1, <2>3 DEF Typed, TypeOK, Shape, Labels, InStep, ToolReturns
<1>5. CASE reply.tokens # Malformed
  <2>1. /\ UpdateStep(WithToolUsage(s, reply))
        /\ run' = [run EXCEPT
             !.tokens = @ + reply.tokens,
             !.cost = @ + reply.cost,
             !.priced = @ \/ reply.priced,
             !.toolErrors = ToolErrors(@, reply.ok)]
        /\ pc' = "executed" /\ UNCHANGED ending
    BY <1>5 DEF ToolReturns
  <2>2. reply.tokens \in Nat /\ reply.cost \in Nat
    BY <1>5, ReplyTypes
  <2>3. WithToolUsage(s, reply) \in StepType /\ WithToolUsage(s, reply).reply = reply
    <3> DEFINE tokens == s.tokens + reply.tokens
               cost == s.cost + reply.cost
    <3>1. WithToolUsage(s, reply) = [s EXCEPT !.tokens = tokens, !.cost = cost]
      BY DEF WithToolUsage
    <3>2. tokens \in Nat /\ cost \in Nat
      <4> HIDE DEF s
      <4> QED
        BY <1>3, <2>2 DEF StepType
    <3> HIDE DEF s, tokens, cost
    <3> QED
      BY <1>3, <3>1, <3>2 DEF StepType
  <2>4. steps' \in Seq(StepType) /\ steps' # << >> /\ Current'.reply = reply
    BY <1>1, <2>1, <2>3, OpenStep, UpdateStepTypes
  <2>5. run' \in RunType
    <3> DEFINE tokens == run.tokens + reply.tokens
               cost == run.cost + reply.cost
               priced == run.priced \/ reply.priced
               errors == ToolErrors(run.toolErrors, reply.ok)
    <3>1. run \in RunType
      BY <1>1, OpenStep
    <3>2. tokens \in Nat /\ cost \in Nat /\ errors \in Nat
      BY <2>2, <3>1 DEF RunType, ToolErrors
    <3>3. priced \in BOOLEAN
      OBVIOUS
    <3>4. run' = [run EXCEPT !.tokens = tokens, !.cost = cost, !.priced = priced,
                             !.toolErrors = errors]
      BY <2>1
    <3> HIDE DEF tokens, cost, priced, errors
    <3> QED
      BY <3>1, <3>2, <3>3, <3>4 DEF RunType
  <2> QED
    BY <1>1, <1>2, <2>1, <2>4, <2>5
       DEF Typed, TypeOK, Shape, Labels, InStep, ToolReturns
<1> QED
  BY <1>4, <1>5

LEMMA TypedCheckToolStep ==
  ASSUME Typed, CheckToolStep
  PROVE  Typed'
<1>1. pc = "executed" /\ pc \in InStep /\ Current.reply \in ToolReplies
  BY DEF CheckToolStep, InStep, Typed, Shape
<1>2. now' \in Nat
  BY <1>1, OpenStep, ReadingType DEF CheckToolStep, ClockRaises
<1>3. [Current EXCEPT !.state = "stopped"] \in StepType
  BY <1>1, OpenStep DEF StepType, AgentStates
<1> DEFINE Ended == /\ steps' \in Seq(StepType) /\ steps' # << >>
                    /\ ending' \in EndingType /\ ending' # None
                    /\ pc' = "recordTool"
<1>4. Ended \/ (pc' = "recordTool" /\ UNCHANGED <<steps, ending>>)
  <2>1. CASE EndToolStep("llm_error", Stopped(Current))
    BY <1>1, <2>1, OpenStep, EndToolStepTypes DEF StopReasons
  <2>2. ASSUME NEW t \in Times,
               EvaluateStop(run, request.limits, FALSE, t) # Continue,
               EndToolStep(EvaluateStop(run, request.limits, FALSE, t),
                           [Current EXCEPT !.state = "stopped"])
        PROVE  Ended
    <3>1. EvaluateStop(run, request.limits, FALSE, t) \in StopReasons
      BY <2>2, EvaluateStopType
    <3> QED
      BY <1>1, <1>3, <2>2, <3>1, OpenStep, EndToolStepTypes
  <2> HIDE DEF Ended
  <2> QED
    BY <2>1, <2>2 DEF CheckToolStep
<1> QED
  BY <1>1, <1>2, <1>4 DEF Typed, TypeOK, Shape, Labels, InStep, CheckToolStep, Current

LEMMA TypedRecordToolStep ==
  ASSUME Typed, RecordToolStep
  PROVE  Typed'
<1>1. pc = "recordTool" /\ pc \in InStep /\ Len(steps) \in Nat
  BY OpenStep DEF RecordToolStep, InStep
<1>2. log' \in Seq(EventType)
  BY <1>1, OpenStep, EventTypes DEF RecordToolStep, Typed, TypeOK
<1>3. CASE UpdateStep(Stopped(Current)) /\ ending' = Fallback("llm_error")
           /\ pc' = "finish" /\ UNCHANGED sources
  <2>1. steps' \in Seq(StepType) /\ ending' \in EndingType
    BY <1>1, <1>3, OpenStep, UpdateStepTypes, FallbackType DEF StopReasons
  <2> QED
    BY <1>1, <1>2, <1>3, <2>1
       DEF Typed, TypeOK, Shape, Labels, InStep, RecordToolStep
<1>4. CASE ending # None /\ pc' = "finish" /\ UNCHANGED <<sources, steps, ending>>
  BY <1>1, <1>2, <1>4 DEF Typed, TypeOK, Shape, Labels, InStep, RecordToolStep
<1>5. CASE /\ ending = None /\ pc' = "loop"
           /\ sources' = MergeSources(sources, Current.reply.sources)
           /\ UNCHANGED <<steps, ending>>
  <2>1. Current.reply \in ToolReplies
    BY <1>1, <1>5 DEF Typed, Shape
  <2>2. Current.reply.sources \in Seq(Sources)
    BY <2>1, ReplyTypes
  <2>3. /\ DOMAIN sources' \subseteq Identities
        /\ \A id \in DOMAIN sources' : sources'[id] \in [Fields -> Marks \cup {NoLabel}]
    <3>1. /\ DOMAIN sources \subseteq Identities
          /\ \A id \in DOMAIN sources : sources[id] \in [Fields -> Marks \cup {NoLabel}]
      BY DEF Typed, TypeOK
    <3> QED
      BY <1>5, <2>2, <3>1, MergedTypes
  <2> QED
    BY <1>1, <1>2, <1>5, <2>3
       DEF Typed, TypeOK, Shape, Labels, InStep, RecordToolStep
<1> QED
  BY <1>3, <1>4, <1>5 DEF RecordToolStep

LEMMA FinishedType ==
  ASSUME NEW e \in EndingType
  PROVE  FinishedResult(e) \in ResultType
<1>1. /\ AnswerStatus(e) \in {"grounded", "abstain", "guardrails_fallback"}
      /\ CostStatus \in {"unknown", "estimated", "local_zero"}
  BY DEF AnswerStatus, CostStatus
<1> DEFINE enforced == e.reason = "completed" /\ AnswerStatus(e) = "abstain"
<1>2. (e.fallback \/ enforced) \in BOOLEAN
  OBVIOUS
<1>3. (IF enforced THEN {} ELSE e.cites) \in SUBSET Marks
  BY DEF EndingType
<1>4. e.reason \in StopReasons
  BY DEF EndingType
<1> QED
  BY <1>1, <1>2, <1>3, <1>4 DEF FinishedResult, ResultType

LEMMA TypedFinish ==
  ASSUME Typed, Finish
  PROVE  Typed'
<1>1. pc = "finish" /\ ending \in EndingType /\ steps \in Seq(StepType)
  BY DEF Finish, Typed, TypeOK, Shape
<1>2. log' \in Seq(EventType)
  <2>1. PICK outcome \in StoreOutcomes :
          log' = Append(log, Event("completed", Len(steps), None, outcome))
    BY DEF Finish
  <2>2. Event("completed", Len(steps), None, outcome) \in EventType
    <3>1. Len(steps) \in Nat /\ None \in StepType \cup {None}
      BY <1>1
    <3> QED
      BY <3>1, EventTypes
  <2> QED
    BY <2>1, <2>2 DEF Typed, TypeOK
<1>3. FinishedResult(ending) \in ResultType
  BY <1>1, FinishedType
<1> QED
  BY <1>1, <1>2, <1>3 DEF Typed, TypeOK, Shape, Labels, InStep, Finish

LEMMA TypedStep ==
  ASSUME Typed, [Next]_vars
  PROVE  Typed'
<1>1. CASE \E r \in Requests : Submit(r)
  BY <1>1, TypedSubmit
<1>2. CASE RunnerStep
  BY <1>2, TypedResetPlanner, TypedStartClock, TypedRecordStarted, TypedCheckBudget,
     TypedPlannerRaises, TypedPlannerReturns, TypedCheckDecision,
     TypedRecordStoppedStep, TypedRejectDecision, TypedRecordAnswerStep,
     TypedGuardAnswer, TypedScreenToolCall, TypedToolRaises, TypedToolReturns,
     TypedCheckToolStep, TypedRecordToolStep, TypedFinish DEF RunnerStep
<1>3. CASE UNCHANGED vars
  BY <1>3 DEF vars, Typed, TypeOK, Shape, Current
<1> QED
  BY <1>1, <1>2, <1>3 DEF Next

LEMMA TypedAlways == Spec => []Typed
  BY TypedInit, TypedStep, PTL DEF Spec

(* Every state of every run has the types of the model: whatever the ports *)
(* raise, each step is open when it is written to, each decision is of the *)
(* kind its branch handles and every run that finishes knows how it ended. *)
THEOREM TypeCorrect == Spec => []TypeOK
<1>1. Typed => TypeOK
  BY DEF Typed
<1> QED
  BY <1>1, TypedAlways, PTL

-----------------------------------------------------------------------------
(* What reaches the tool executor.                                         *)

(* The inductive form of ScreenedExecution: the calls that were executed   *)
(* are among the calls the run remembers, and the call about to be         *)
(* executed has passed the screening and is not among the executed ones.   *)
Screened ==
  /\ pc \in {"idle", "reset", "startClock"} => executed = << >>
  /\ executed # << >> => Elements(executed) \subseteq run.calls
  /\ pc = "execute" =>
       /\ decision.call \in ValidCalls
       /\ decision.call[1] \notin WriteTools
       /\ decision.call \in run.calls
       /\ decision.call \notin Elements(executed)
  /\ ScreenedExecution

(* The actions that neither execute a call nor screen one keep the calls   *)
(* the run remembers.                                                      *)
LEMMA ScreenedElsewhere ==
  ASSUME Typed, Screened, UNCHANGED executed, run'.calls = run.calls,
         pc \notin {"idle", "reset", "startClock"},
         pc' \notin {"idle", "reset", "startClock", "execute"}
  PROVE  Screened'
  BY DEF Screened, ScreenedExecution

(* ToolRaises and ToolReturns: the executor got the call.                  *)
LEMMA ScreenedExecute ==
  ASSUME Typed, Screened, pc = "execute", pc' \notin {"idle", "reset", "startClock", "execute"},
         run'.calls = run.calls, executed' = Append(executed, decision.call)
  PROVE  Screened'
<1>1. executed \in Seq(Calls)
  BY DEF Typed, TypeOK
<1>2. decision.call \in Calls
  BY DEF Typed, Shape, Decisions
<1>3. /\ Len(executed') = Len(executed) + 1
      /\ \A i \in DOMAIN executed : executed'[i] = executed[i]
      /\ executed'[Len(executed) + 1] = decision.call
      /\ DOMAIN executed' = DOMAIN executed \cup {Len(executed) + 1}
      /\ Len(executed) + 1 \notin DOMAIN executed
  BY <1>1, <1>2
<1>4. Elements(executed') = Elements(executed) \cup {decision.call}
  BY <1>3 DEF Elements
<1>5. Elements(executed') \subseteq run'.calls
  <2>1. executed = << >> => Elements(executed) = {}
    BY DEF Elements
  <2> QED
    BY <1>4, <2>1 DEF Screened
<1>6. ScreenedExecution'
  <2>1. ASSUME NEW i \in DOMAIN executed', NEW j \in DOMAIN executed',
               executed'[i] = executed'[j]
        PROVE  i = j
    BY <1>3, <2>1 DEF Screened, ScreenedExecution, Elements
  <2>2. \A i \in DOMAIN executed' :
          executed'[i] \in ValidCalls /\ executed'[i][1] \notin WriteTools
    BY <1>3 DEF Screened, ScreenedExecution
  <2> QED
    BY <2>1, <2>2 DEF ScreenedExecution
<1> QED
  BY <1>5, <1>6 DEF Screened

LEMMA ScreenedScreening ==
  ASSUME Typed, Screened, ScreenToolCall
  PROVE  Screened'
<1>1. pc = "tool_call" /\ run \in RunType /\ UNCHANGED <<executed, decision>>
  BY DEF ScreenToolCall, Typed, TypeOK
<1>2. CASE Objection(decision.call) = Continue
  <2>1. run' = [run EXCEPT !.calls = @ \cup {decision.call}] /\ pc' = "execute"
    BY <1>2 DEF ScreenToolCall
  <2>2. run'.calls = run.calls \cup {decision.call}
    BY <1>1, <2>1 DEF RunType
  <2>3. /\ decision.call \in ValidCalls
        /\ decision.call[1] \notin WriteTools
        /\ decision.call \notin run.calls
    BY <1>2 DEF Objection, IsDuplicate, Continue
  <2>4. decision.call \notin Elements(executed)
    <3>1. executed = << >> => Elements(executed) = {}
      BY DEF Elements
    <3> QED
      BY <2>3, <3>1 DEF Screened
  <2> QED
    BY <1>1, <2>1, <2>2, <2>3, <2>4 DEF Screened, ScreenedExecution
<1>3. CASE Objection(decision.call) # Continue
  <2>1. pc' = "recordTool" /\ UNCHANGED run
    BY <1>3 DEF ScreenToolCall, EndToolStep
  <2> QED
    BY <1>1, <2>1, ScreenedElsewhere
<1> QED
  BY <1>2, <1>3

LEMMA ScreenedStep ==
  ASSUME Typed, Screened, [Next]_vars
  PROVE  Screened'
<1>1. run \in RunType
  BY DEF Typed, TypeOK
<1>2. CASE \E r \in Requests : Submit(r)
  BY <1>2 DEF Submit, Screened, ScreenedExecution
<1>3. CASE ResetPlanner
  BY <1>3 DEF ResetPlanner, Refuse, Screened, ScreenedExecution
<1>4. CASE StartClock
  BY <1>4 DEF StartClock, Refuse, Screened, ScreenedExecution
<1>5. CASE RecordStarted \/ RecordStoppedStep \/ RejectDecision
           \/ RecordAnswerStep \/ CheckToolStep \/ RecordToolStep \/ Finish
  BY <1>5, ScreenedElsewhere
     DEF RecordStarted, RecordStoppedStep, RejectDecision, RecordAnswerStep,
         CheckToolStep, RecordToolStep, Finish, EndToolStep
<1>6. CASE CheckDecision
  <2>1. /\ pc = "planned" /\ pc' \in {"recordStop", decision.action}
        /\ UNCHANGED <<run, executed>>
    BY <1>6 DEF CheckDecision, EndWith
  <2>2. decision.action \in {"final_answer", "tool_call", "other"}
    BY <2>1 DEF Typed, Shape, Decisions
  <2> QED
    BY <2>1, <2>2, ScreenedElsewhere
<1>7. CASE CheckBudget
  <2>1. run'.calls = run.calls
    BY <1>1, <1>7 DEF CheckBudget, RunType
  <2> QED
    BY <1>7, <2>1, ScreenedElsewhere DEF CheckBudget
<1>8. ASSUME NEW f \in PlannerFailures, PlannerRaises(f)
      PROVE  Screened'
  <2>1. run'.calls = run.calls
    BY <1>1, <1>8 DEF PlannerRaises, RunType
  <2> QED
    BY <1>8, <2>1, ScreenedElsewhere DEF PlannerRaises, EndWith
<1>9. ASSUME NEW p \in PlannerResults, PlannerReturns(p)
      PROVE  Screened'
  <2>1. run'.calls = run.calls
    BY <1>1, <1>9 DEF PlannerReturns, RunType
  <2>2. pc = "plan" /\ pc' \in {"recordStop", "planned"} /\ UNCHANGED executed
    BY <1>9 DEF PlannerReturns, EndWith
  <2> QED
    BY <2>1, <2>2, ScreenedElsewhere
<1>10. CASE GuardAnswer
  <2>1. run'.calls = run.calls
    BY <1>1, <1>10 DEF GuardAnswer, RunType
  <2> QED
    BY <1>10, <2>1, ScreenedElsewhere DEF GuardAnswer
<1>11. CASE ScreenToolCall
  BY <1>11, ScreenedScreening
<1>12. CASE ToolRaises
  BY <1>12, ScreenedExecute DEF ToolRaises, EndToolStep
<1>13. ASSUME NEW reply \in ToolReplies, ToolReturns(reply)
       PROVE  Screened'
  <2>1. run'.calls = run.calls
    BY <1>1, <1>13 DEF ToolReturns, RunType
  <2>2. /\ pc = "execute" /\ pc' \in {"recordTool", "executed"}
        /\ executed' = Append(executed, decision.call)
    BY <1>13 DEF ToolReturns, EndToolStep
  <2> QED
    BY <2>1, <2>2, ScreenedExecute
<1>14. CASE UNCHANGED vars
  BY <1>14 DEF vars, Screened, ScreenedExecution
<1> QED
  BY <1>2, <1>3, <1>4, <1>5, <1>6, <1>7, <1>8, <1>9, <1>10, <1>11, <1>12, <1>13,
     <1>14 DEF Next, RunnerStep

LEMMA ScreenedAlways == Spec => []Screened
<1>1. Init => Screened
  BY DEF Init, Screened, ScreenedExecution, Elements
<1>2. Typed /\ Screened /\ [Next]_vars => Screened'
  BY ScreenedStep
<1> QED
  BY <1>1, <1>2, TypedAlways, PTL DEF Spec

(* No run ever executes a tool call twice, executes one that the tool's    *)
(* contract rejects, or executes a tool that writes: for every tool set,   *)
(* every planner and every failure of the ports.                           *)
THEOREM ExecutionIsScreened == Spec => []ScreenedExecution
<1>1. Screened => ScreenedExecution
  BY DEF Screened
<1> QED
  BY <1>1, ScreenedAlways, PTL

-----------------------------------------------------------------------------
(* What the caller is told.                                                *)

(* Every way to end but a guarded answer ends with a fallback answer.      *)
EndsWithFallback ==
  ending = None \/ ending.fallback \/ ending.reason = "completed"

Abstained == EndsWithFallback /\ GroundedOrFallback

LEMMA FallbackEnds ==
  ASSUME NEW reason, ending' = Fallback(reason)
  PROVE  EndsWithFallback'
  BY DEF EndsWithFallback, Fallback

(* A step of a run that is neither refused nor finished by it.             *)
LEMMA AbstainedElsewhere ==
  ASSUME Abstained, pc' # "done",
         UNCHANGED ending \/ \E reason \in StopReasons \cup {Continue} :
                               ending' = Fallback(reason)
  PROVE  Abstained'
  BY FallbackEnds DEF Abstained, EndsWithFallback, GroundedOrFallback

LEMMA AbstainedRefusal ==
  ASSUME Abstained, NEW reason, UNCHANGED ending, result' = RefusedResult(reason)
  PROVE  Abstained'
  BY DEF Abstained, EndsWithFallback, GroundedOrFallback, RefusedResult

LEMMA AbstainedFinish ==
  ASSUME Typed, Abstained, Finish
  PROVE  Abstained'
<1>1. ending \in EndingType /\ result' = FinishedResult(ending) /\ UNCHANGED ending
  BY DEF Finish, Typed, Shape
<1>2. ending # None
  BY <1>1, RunnerAssumption
<1>3. ending.fallback \in BOOLEAN
  BY <1>1 DEF EndingType
<1> DEFINE status == AnswerStatus(ending)
           enforced == ending.reason = "completed" /\ status = "abstain"
<1>4. result'.status = status /\ result'.fallback = (ending.fallback \/ enforced)
  BY <1>1 DEF FinishedResult
<1>5. status \in {"grounded", "abstain", "guardrails_fallback"}
  BY DEF AnswerStatus
<1>6. status = "grounded" => ending.reason = "completed" /\ ~ending.fallback
  BY DEF AnswerStatus
<1>7. status = "guardrails_fallback" => ending.reason # "completed"
  BY DEF AnswerStatus
<1>8. ending.fallback \/ ending.reason = "completed"
  BY <1>2 DEF Abstained, EndsWithFallback
<1>9. status = "grounded" <=> ~(ending.fallback \/ enforced)
  <2> HIDE DEF status
  <2> QED
    BY <1>3, <1>5, <1>6, <1>7, <1>8
<1> QED
  BY <1>1, <1>4, <1>9 DEF Abstained, EndsWithFallback, GroundedOrFallback

LEMMA AbstainedStep ==
  ASSUME Typed, Abstained, [Next]_vars
  PROVE  Abstained'
<1> USE DEF StopReasons
<1>1. CASE \E r \in Requests : Submit(r)
  BY <1>1, AbstainedElsewhere, AbstainedRefusal DEF Submit
<1>2. CASE ResetPlanner \/ StartClock
  BY <1>2, AbstainedElsewhere, AbstainedRefusal DEF ResetPlanner, StartClock, Refuse
<1>3. CASE RecordStarted \/ RecordStoppedStep \/ RejectDecision \/ RecordAnswerStep
           \/ RecordToolStep \/ ToolRaises
  BY <1>3, AbstainedElsewhere
     DEF RecordStarted, RecordStoppedStep, RejectDecision, RecordAnswerStep,
         RecordToolStep, ToolRaises, EndToolStep
<1>4. CASE CheckBudget
  BY <1>4, AbstainedElsewhere, EvaluateStopType DEF CheckBudget
<1>5. ASSUME NEW f \in PlannerFailures, PlannerRaises(f)
      PROVE  Abstained'
  BY <1>5, AbstainedElsewhere DEF PlannerRaises, EndWith
<1>6. ASSUME NEW p \in PlannerResults, PlannerReturns(p)
      PROVE  Abstained'
  BY <1>6, AbstainedElsewhere DEF PlannerReturns, EndWith
<1>7. CASE CheckDecision
  <2>1. decision.action \in {"final_answer", "tool_call", "other"}
    BY <1>7 DEF CheckDecision, Typed, Shape, Decisions
  <2> QED
    BY <1>7, <2>1, AbstainedElsewhere, EvaluateStopType DEF CheckDecision, EndWith
<1>8. CASE GuardAnswer
  <2>1. pc' # "done" /\ EndsWithFallback'
    BY <1>8, FallbackEnds DEF GuardAnswer, EndsWithFallback
  <2> QED
    BY <2>1 DEF Abstained, GroundedOrFallback
<1>9. CASE ScreenToolCall
  <2>1. Objection(decision.call) \in StopReasons \cup {Continue}
    BY DEF Objection
  <2> QED
    BY <1>9, <2>1, AbstainedElsewhere DEF ScreenToolCall, EndToolStep
<1>10. ASSUME NEW reply \in ToolReplies, ToolReturns(reply)
       PROVE  Abstained'
  BY <1>10, AbstainedElsewhere DEF ToolReturns, EndToolStep
<1>11. CASE CheckToolStep
  BY <1>11, AbstainedElsewhere, EvaluateStopType DEF CheckToolStep, EndToolStep
<1>12. CASE Finish
  BY <1>12, AbstainedFinish
<1>13. CASE UNCHANGED vars
  BY <1>13 DEF vars, Abstained, EndsWithFallback, GroundedOrFallback
<1> QED
  BY <1>1, <1>2, <1>3, <1>4, <1>5, <1>6, <1>7, <1>8, <1>9, <1>10, <1>11, <1>12,
     <1>13 DEF Next, RunnerStep

(* Every finished run is grounded or carries a fallback answer, and never  *)
(* both, whichever of its ports failed and however it was stopped.         *)
THEOREM AnswersAreGroundedOrFallback == Spec => []GroundedOrFallback
<1>1. Init => Abstained
  BY DEF Init, Abstained, EndsWithFallback, GroundedOrFallback
<1>2. Typed /\ Abstained /\ [Next]_vars => Abstained'
  BY AbstainedStep
<1>3. Abstained => GroundedOrFallback
  BY DEF Abstained
<1> QED
  BY <1>1, <1>2, <1>3, TypedAlways, PTL DEF Spec

-----------------------------------------------------------------------------
(* The accounts of the run are the sums over its steps.                    *)

LEMMA TotalOfLast ==
  ASSUME NEW n \in Nat \ {0}, NEW w, \A i \in 1..n : w[i] \in Nat
  PROVE  Total(1..n, w) = Total(1..(n - 1), w) + w[n]
<1>1. (1..(n - 1)) \cup {n} = 1..n /\ (1..(n - 1)) \cap {n} = {}
  OBVIOUS
<1>2. IsFiniteSet(1..(n - 1))
  BY FS_Interval
<1>3. IsFiniteSet({n})
  BY FS_Singleton, Zenon
<1>4. Total({n}, w) = w[n]
  <2>1. w[n] \in Nat
    OBVIOUS
  <2> QED
    BY <2>1, TotalOfOne
<1>5. \A i \in (1..(n - 1)) \cup {n} : w[i] \in Nat
  BY <1>1
<1>6. Total((1..(n - 1)) \cup {n}, w) = Total(1..(n - 1), w) + Total({n}, w)
  BY <1>1, <1>2, <1>3, <1>5, TotalOfBoth
<1> QED
  BY <1>1, <1>4, <1>6

(* A charge to the last element is added to the sum.                       *)
LEMMA TotalCharged ==
  ASSUME NEW n \in Nat \ {0}, NEW v, NEW w, NEW d \in Nat,
         \A i \in 1..n : v[i] \in Nat /\ w[i] \in Nat,
         \A i \in 1..(n - 1) : w[i] = v[i], w[n] = v[n] + d
  PROVE  Total(1..n, w) = Total(1..n, v) + d
<1>1. Total(1..(n - 1), w) = Total(1..(n - 1), v)
  BY TotalOfSame
<1>2. Total(1..n, w) = Total(1..(n - 1), w) + w[n]
  BY TotalOfLast
<1>3. Total(1..n, v) = Total(1..(n - 1), v) + v[n]
  BY TotalOfLast
<1>4. Total(1..(n - 1), v) \in Nat
  <2>1. IsFiniteSet(1..(n - 1))
    BY FS_Interval
  <2> QED
    BY <2>1, UnitsAreFinite
<1>5. v[n] \in Nat
  OBVIOUS
<1> QED
  BY <1>1, <1>2, <1>3, <1>4, <1>5

(* Before the run has begun it has no steps and no log; and a request that *)
(* was refused never began.                                                *)
Unstarted == {"idle", "reset", "startClock", "started"}

Ledger ==
  /\ run.tokens = Total(DOMAIN steps, StepTokens)
  /\ run.cost = Total(DOMAIN steps, StepCosts)
  /\ run.stepCount = Len(steps)
  /\ pc \in Unstarted => steps = << >> /\ log = << >>
  /\ pc \notin {"idle", "reset", "startClock", "done"} \/ log # << >> =>
       (request.live => run.unpriced)
  /\ \A i \in DOMAIN steps : steps[i].cloud => run.unpriced
  /\ \A i \in DOMAIN steps : steps[i].cost # 0 => run.priced
  /\ pc = "plan" => Current.tokens = 0
  /\ pc = "done" /\ log # << >> => result.cost = CostStatus

(* Within a step, and from its end to the next.                            *)
Going == (InStep \ {"plan"}) \cup {"loop", "finish"}

LEMMA LedgerQuiet ==
  ASSUME Ledger, pc \in InStep \cup {"loop"}, pc' \in Going, UNCHANGED <<request, steps>>,
         run'.tokens = run.tokens, run'.cost = run.cost, run'.stepCount = run.stepCount,
         run'.unpriced = run.unpriced, run'.priced = run.priced
  PROVE  Ledger'
<1>1. /\ pc \notin {"idle", "reset", "startClock", "done"}
      /\ pc' \notin Unstarted \cup {"plan", "done"}
  BY DEF Going, InStep, Unstarted
<1>2. request.live => run.unpriced
  BY <1>1 DEF Ledger
<1> QED
  BY <1>1, <1>2 DEF Ledger, StepTokens, StepCosts

(* The open step is charged what the run is charged.                       *)
LEMMA LedgerCharged ==
  ASSUME Typed, Ledger, pc \in InStep, pc' \in Going, UNCHANGED request,
         NEW s \in StepType, UpdateStep(s), NEW d \in Nat, NEW e \in Nat,
         s.tokens = Current.tokens + d, s.cost = Current.cost + e,
         s.cloud => Current.cloud \/ run'.unpriced,
         run'.tokens = run.tokens + d, run'.cost = run.cost + e,
         run'.stepCount = run.stepCount,
         run.unpriced => run'.unpriced, run.priced => run'.priced,
         e # 0 => run'.priced
  PROVE  Ledger'
<1> DEFINE n == Len(steps)
<1>1. steps \in Seq(StepType) /\ n \in Nat \ {0} /\ DOMAIN steps = 1..n
  BY OpenStep
<1>2. /\ steps' \in Seq(StepType) /\ Len(steps') = n /\ DOMAIN steps' = 1..n
      /\ \A i \in 1..(n - 1) : steps'[i] = steps[i]
      /\ steps'[n] = s /\ Current = steps[n]
  <2>1. steps' = [steps EXCEPT ![n] = s] /\ Current = steps[n]
    BY DEF UpdateStep, Current
  <2>2. steps' \in Seq(StepType) /\ Len(steps') = n
    BY <1>1, UpdateStepTypes
  <2> HIDE DEF n
  <2> QED
    BY <1>1, <2>1, <2>2
<1>3. \A t \in StepType : t.tokens \in Nat /\ t.cost \in Nat
  BY DEF StepType
<1>4. \A i \in 1..n : steps[i] \in StepType /\ steps'[i] \in StepType
  BY <1>1, <1>2
<1>5. run'.tokens = Total(DOMAIN steps', StepTokens')
  <2>1. \A i \in 1..n : StepTokens[i] = steps[i].tokens /\ StepTokens'[i] = steps'[i].tokens
    BY <1>1, <1>2 DEF StepTokens
  <2>2. \A i \in 1..n : StepTokens[i] \in Nat /\ StepTokens'[i] \in Nat
    BY <1>3, <1>4, <2>1
  <2>3. \A i \in 1..(n - 1) : StepTokens'[i] = StepTokens[i]
    BY <1>1, <1>2, <2>1
  <2>4. StepTokens'[n] = StepTokens[n] + d
    BY <1>1, <1>2, <2>1
  <2>5. Total(1..n, StepTokens') = Total(1..n, StepTokens) + d
    <3> HIDE DEF n
    <3> QED
      BY <1>1, <2>2, <2>3, <2>4, TotalCharged
  <2> QED
    BY <1>1, <1>2, <2>5 DEF Ledger
<1>6. run'.cost = Total(DOMAIN steps', StepCosts')
  <2>1. \A i \in 1..n : StepCosts[i] = steps[i].cost /\ StepCosts'[i] = steps'[i].cost
    BY <1>1, <1>2 DEF StepCosts
  <2>2. \A i \in 1..n : StepCosts[i] \in Nat /\ StepCosts'[i] \in Nat
    BY <1>3, <1>4, <2>1
  <2>3. \A i \in 1..(n - 1) : StepCosts'[i] = StepCosts[i]
    BY <1>1, <1>2, <2>1
  <2>4. StepCosts'[n] = StepCosts[n] + e
    BY <1>1, <1>2, <2>1
  <2>5. Total(1..n, StepCosts') = Total(1..n, StepCosts) + e
    <3> HIDE DEF n
    <3> QED
      BY <1>1, <2>2, <2>3, <2>4, TotalCharged
  <2> QED
    BY <1>1, <1>2, <2>5 DEF Ledger
<1>7. /\ pc \notin {"idle", "reset", "startClock", "done"}
      /\ pc' \notin Unstarted \cup {"plan", "done"}
  BY DEF Going, InStep, Unstarted
<1>8. request'.live => run'.unpriced
  BY <1>7 DEF Ledger
<1>9. \A i \in 1..n : i = n \/ i \in 1..(n - 1)
  BY <1>1
<1>10. \A i \in 1..n : steps'[i].cloud => run'.unpriced
  BY <1>1, <1>2, <1>9 DEF Ledger
<1>11. \A i \in 1..n : steps'[i].cost # 0 => run'.priced
  <2>1. steps[n].cost \in Nat /\ (steps[n].cost # 0 => run.priced)
    BY <1>1, <1>3, <1>4 DEF Ledger
  <2>2. s.cost # 0 => run'.priced
    <3>1. CASE e = 0
      <4>1. s.cost = steps[n].cost
        BY <1>2, <2>1, <3>1
      <4> QED
        BY <2>1, <4>1
    <3> QED
      BY <3>1
  <2>3. \A i \in 1..(n - 1) : steps'[i].cost # 0 => run'.priced
    <3> SUFFICES ASSUME NEW i \in 1..(n - 1), steps'[i].cost # 0 PROVE run'.priced
      OBVIOUS
    <3>1. i \in DOMAIN steps /\ steps[i].cost # 0
      BY <1>1, <1>2
    <3> QED
      BY <3>1 DEF Ledger
  <2> QED
    BY <1>2, <1>9, <2>2, <2>3
<1>12. run'.stepCount = Len(steps')
  BY <1>2 DEF Ledger
<1> QED
  BY <1>2, <1>5, <1>6, <1>7, <1>8, <1>10, <1>11, <1>12 DEF Ledger

(* Steps that charge nothing.                                              *)
LEMMA LedgerUncharged ==
  ASSUME Typed, Ledger, pc \in InStep, pc' \in Going, UNCHANGED request,
         NEW s \in StepType, UpdateStep(s),
         s.tokens = Current.tokens, s.cost = Current.cost, s.cloud = Current.cloud,
         run'.tokens = run.tokens, run'.cost = run.cost, run'.stepCount = run.stepCount,
         run'.unpriced = run.unpriced, run'.priced = run.priced
  PROVE  Ledger'
<1>1. Current \in StepType /\ run \in RunType
  BY OpenStep
<1>2. Current.tokens \in Nat /\ Current.cost \in Nat /\ run.tokens \in Nat /\ run.cost \in Nat
  BY <1>1 DEF StepType, RunType
<1>3. /\ s.tokens = Current.tokens + 0 /\ s.cost = Current.cost + 0
      /\ run'.tokens = run.tokens + 0 /\ run'.cost = run.cost + 0
  BY <1>2
<1> QED
  BY <1>3, LedgerCharged

(* What the updates of the open step leave alone.                          *)
LEMMA StepFieldsKept ==
  ASSUME NEW s \in StepType
  PROVE  /\ Stopped(s) \in StepType /\ Stopped(s).tokens = s.tokens
         /\ Stopped(s).cost = s.cost /\ Stopped(s).cloud = s.cloud
         /\ \A said \in BOOLEAN :
              LET t == StoppedBy(s, said)
              IN  /\ t \in StepType /\ t.tokens = s.tokens
                  /\ t.cost = s.cost /\ t.cloud = s.cloud
BY StoppedTypes DEF Stopped, StoppedBy, StepType

LEMMA LedgerPlans ==
  ASSUME Typed, Ledger,
         \/ \E f \in PlannerFailures : PlannerRaises(f)
         \/ \E p \in PlannerResults : PlannerReturns(p)
  PROVE  Ledger'
<1>1. /\ pc = "plan" /\ pc \in InStep /\ UNCHANGED request
      /\ Current \in StepType /\ run \in RunType /\ Current.tokens = 0
  <2>1. pc = "plan" /\ pc \in InStep /\ UNCHANGED request
    BY DEF PlannerRaises, PlannerReturns, InStep
  <2> QED
    BY <2>1, OpenStep DEF Ledger
<1>2. ASSUME NEW phase \in Phases \cup {None}, NEW cloud \in BOOLEAN, NEW tokens \in Usage,
             NEW s \in StepType, UpdateStep(s), pc' \in Going,
             s.tokens = Counted(tokens), s.cost = Current.cost, s.cloud = cloud,
             run' = [run EXCEPT !.unpriced = @ \/ cloud, !.tokens = @ + Counted(tokens)]
      PROVE  Ledger'
  <2>1. Counted(tokens) \in Nat
    BY CountedType
  <2> DEFINE d == Counted(tokens)
  <2> HIDE DEF d
  <2>2. /\ run'.tokens = run.tokens + d /\ run'.cost = run.cost /\ run'.priced = run.priced
        /\ run'.unpriced = (run.unpriced \/ cloud) /\ run'.stepCount = run.stepCount
    BY <1>1, <1>2 DEF RunType, d
  <2>3. /\ s.tokens = Current.tokens + d /\ s.cost = Current.cost + 0
        /\ run'.cost = run.cost + 0 /\ d \in Nat
    BY <1>1, <1>2, <2>1, <2>2 DEF RunType, StepType, d
  <2>4. /\ s.cloud => Current.cloud \/ run'.unpriced
        /\ run.unpriced => run'.unpriced
        /\ run.priced => run'.priced
    BY <1>2, <2>2, Zenon
  <2>5. 0 \in Nat /\ (0 # 0 => run'.priced)
    OBVIOUS
  <2> QED
    BY <1>1, <1>2, <2>2, <2>3, <2>4, <2>5, LedgerCharged
<1>3. ASSUME NEW f \in PlannerFailures, PlannerRaises(f) PROVE Ledger'
  <2> DEFINE s == [Current EXCEPT !.phase = f.phase, !.cloud = f.cloud,
                                  !.tokens = Counted(f.tokens)]
             said == f.said \/ f.tokens = Malformed
  <2>1. /\ f.phase \in Phases \cup {None} /\ f.cloud \in BOOLEAN /\ said \in BOOLEAN
        /\ f.tokens \in Usage /\ Counted(f.tokens) \in Nat
    BY CountedType DEF PlannerFailures, Says
  <2>2. /\ s \in StepType /\ s.tokens = Counted(f.tokens) /\ s.cost = Current.cost
        /\ s.cloud = f.cloud
    BY <1>1, <2>1 DEF StepType
  <2>3. UpdateStep(StoppedBy(s, said)) /\ pc' \in Going
        /\ run' = [run EXCEPT !.unpriced = @ \/ f.cloud, !.tokens = @ + Counted(f.tokens)]
    BY <1>3 DEF PlannerRaises, EndWith, Going, InStep
  <2> DEFINE t == StoppedBy(s, said)
  <2>4. /\ t \in StepType /\ t.tokens = Counted(f.tokens) /\ t.cost = Current.cost
        /\ t.cloud = f.cloud
    <3> HIDE DEF s, said
    <3> QED
      BY <2>1, <2>2, StepFieldsKept
  <2> HIDE DEF t, s, said
  <2> QED
    BY <1>2, <2>1, <2>3, <2>4 DEF t
<1>4. ASSUME NEW p \in PlannerResults, PlannerReturns(p) PROVE Ledger'
  <2> DEFINE s == [Current EXCEPT !.cloud = p.cloud, !.tokens = Counted(p.tokens)]
  <2>1. p.cloud \in BOOLEAN /\ p.tokens \in Usage /\ Counted(p.tokens) \in Nat
    BY CountedType DEF PlannerResults
  <2>2. /\ s \in StepType /\ s.tokens = Counted(p.tokens) /\ s.cost = Current.cost
        /\ s.cloud = p.cloud
    BY <1>1, <2>1 DEF StepType
  <2>3. /\ UpdateStep(s) \/ UpdateStep(Stopped(s))
        /\ run' = [run EXCEPT !.unpriced = @ \/ p.cloud, !.tokens = @ + Counted(p.tokens)]
    BY <1>4 DEF PlannerReturns, EndWith, Going, InStep
  <2> HIDE DEF s
  <2>4. PICK t \in {s, Stopped(s)} : UpdateStep(t)
    BY <2>3
  <2>5. /\ t \in StepType /\ t.tokens = Counted(p.tokens) /\ t.cost = Current.cost
        /\ t.cloud = p.cloud
    BY <2>2, <2>4, StepFieldsKept
  <2>6. None \in Phases \cup {None} /\ pc' \in Going
    BY <1>4 DEF PlannerReturns, EndWith, Going, InStep
  <2> QED
    BY <1>2, <2>1, <2>3, <2>4, <2>5, <2>6
<1> QED
  BY <1>3, <1>4

LEMMA LedgerExecutes ==
  ASSUME Typed, Ledger, NEW reply \in ToolReplies, ToolReturns(reply)
  PROVE  Ledger'
<1> DEFINE s == [Current EXCEPT !.reply = reply]
<1>1. /\ pc \in InStep /\ UNCHANGED request /\ pc' \in Going
      /\ Current \in StepType /\ run \in RunType
  <2>1. pc \in InStep /\ UNCHANGED request /\ pc' \in Going
    BY DEF ToolReturns, EndToolStep, InStep, Going
  <2> QED
    BY <2>1, OpenStep
<1>2. /\ s \in StepType /\ s.tokens = Current.tokens /\ s.cost = Current.cost
      /\ s.cloud = Current.cloud
  BY <1>1 DEF StepType
<1>3. CASE reply.tokens = Malformed
  <2>1. UpdateStep(Stopped(s)) /\ UNCHANGED run
    BY <1>3 DEF ToolReturns, EndToolStep
  <2> HIDE DEF s
  <2> QED
    BY <1>1, <1>2, <2>1, StepFieldsKept, LedgerUncharged
<1>4. CASE reply.tokens # Malformed
  <2> DEFINE d == reply.tokens
             e == reply.cost
  <2>1. d \in Nat /\ e \in Nat /\ (e # 0 => reply.priced)
    <3>1. d \in Nat /\ e \in Nat
      BY <1>4, ReplyTypes
    <3>2. reply.cost > 0 => reply.priced
      BY RunnerAssumption
    <3> QED
      BY <3>1, <3>2
  <2>2. /\ UpdateStep(WithToolUsage(s, reply))
        /\ run' = [run EXCEPT !.tokens = @ + reply.tokens, !.cost = @ + reply.cost,
                              !.priced = @ \/ reply.priced,
                              !.toolErrors = ToolErrors(@, reply.ok)]
    BY <1>4 DEF ToolReturns
  <2> HIDE DEF s
  <2> DEFINE t == WithToolUsage(s, reply)
  <2>3. t \in StepType /\ t.tokens = s.tokens + d /\ t.cost = s.cost + e /\ t.cloud = s.cloud
    <3> DEFINE tokens == s.tokens + reply.tokens
               cost == s.cost + reply.cost
    <3>1. WithToolUsage(s, reply) = [s EXCEPT !.tokens = tokens, !.cost = cost]
      BY DEF WithToolUsage
    <3>2. tokens \in Nat /\ cost \in Nat
      BY <1>2, <2>1 DEF StepType
    <3> HIDE DEF tokens, cost
    <3>3. /\ WithToolUsage(s, reply) \in StepType
          /\ WithToolUsage(s, reply).tokens = tokens /\ WithToolUsage(s, reply).cost = cost
          /\ WithToolUsage(s, reply).cloud = s.cloud
      BY <1>2, <3>1, <3>2 DEF StepType
    <3> QED
      BY <3>3 DEF tokens, cost
  <2>4. /\ run'.tokens = run.tokens + d /\ run'.cost = run.cost + e
        /\ run'.stepCount = run.stepCount /\ run'.unpriced = run.unpriced
        /\ run'.priced = (run.priced \/ reply.priced)
    BY <1>1, <2>2 DEF RunType
  <2> HIDE DEF t, d, e
  <2> QED
    BY <1>1, <1>2, <2>1, <2>2, <2>3, <2>4, LedgerCharged DEF t
<1> QED
  BY <1>3, <1>4

LEMMA LedgerOpens ==
  ASSUME Typed, Ledger, CheckBudget
  PROVE  Ledger'
<1>1. pc = "loop" /\ pc \in InStep \cup {"loop"} /\ UNCHANGED request
  BY DEF CheckBudget
<1>2. \/ pc' = "finish" /\ UNCHANGED <<run, steps>>
      \/ /\ steps' = Append(steps, NewStep)
         /\ run' = [run EXCEPT !.stepCount = @ + 1]
         /\ pc' = "plan"
  BY DEF CheckBudget
<1>3. CASE pc' = "finish" /\ UNCHANGED <<run, steps>>
  BY <1>1, <1>3, LedgerQuiet DEF Going
<1>4. CASE /\ steps' = Append(steps, NewStep)
           /\ run' = [run EXCEPT !.stepCount = @ + 1]
           /\ pc' = "plan"
  <2> DEFINE n == Len(steps)
  <2>1. steps \in Seq(StepType) /\ n \in Nat /\ DOMAIN steps = 1..n /\ run \in RunType
    BY DEF Typed, TypeOK
  <2>2. /\ run'.tokens = run.tokens /\ run'.cost = run.cost /\ run'.priced = run.priced
        /\ run'.unpriced = run.unpriced /\ run'.stepCount = run.stepCount + 1
    BY <1>4, <2>1 DEF RunType
  <2>3. /\ DOMAIN steps' = 1..(n + 1) /\ Len(steps') = n + 1 /\ steps'[n + 1] = NewStep
        /\ \A i \in 1..n : steps'[i] = steps[i]
    BY <1>4, <2>1
  <2>4. NewStep.tokens = 0 /\ NewStep.cost = 0 /\ NewStep.cloud = FALSE
    BY DEF NewStep
  <2> HIDE DEF n
  <2>5. /\ n + 1 \in Nat \ {0} /\ (n + 1) - 1 = n /\ n + 1 \in 1..(n + 1)
        /\ \A i \in 1..(n + 1) : i \in 1..n \/ i = n + 1
        /\ \A i \in 1..n : i \in 1..(n + 1)
    BY <2>1
  <2>6. \A i \in 1..n : steps[i].tokens \in Nat /\ steps[i].cost \in Nat
    <3> SUFFICES ASSUME NEW i \in 1..n
                 PROVE  steps[i].tokens \in Nat /\ steps[i].cost \in Nat
      OBVIOUS
    <3>1. steps[i] \in StepType
      BY <2>1
    <3> QED
      BY <3>1 DEF StepType
  <2>7. IsFiniteSet(1..n)
    BY <2>1, FS_Interval
  <2>8. Total(1..(n + 1), StepTokens') = Total(1..n, StepTokens)
    <3>1. /\ \A i \in 1..n : StepTokens'[i] = StepTokens[i] /\ StepTokens[i] \in Nat
          /\ StepTokens'[n + 1] = 0
      BY <2>1, <2>3, <2>4, <2>5, <2>6 DEF StepTokens
    <3>2. Total(1..n, StepTokens') = Total(1..n, StepTokens)
          /\ Total(1..n, StepTokens) \in Nat
      BY <3>1, <2>7, TotalOfSame, UnitsAreFinite
    <3>3. \A i \in 1..(n + 1) : StepTokens'[i] \in Nat
      BY <2>5, <3>1
    <3>4. Total(1..(n + 1), StepTokens') = Total(1..n, StepTokens') + StepTokens'[n + 1]
      BY <2>5, <3>3, TotalOfLast
    <3> QED
      BY <3>1, <3>2, <3>4
  <2>9. Total(1..(n + 1), StepCosts') = Total(1..n, StepCosts)
    <3>1. /\ \A i \in 1..n : StepCosts'[i] = StepCosts[i] /\ StepCosts[i] \in Nat
          /\ StepCosts'[n + 1] = 0
      BY <2>1, <2>3, <2>4, <2>5, <2>6 DEF StepCosts
    <3>2. Total(1..n, StepCosts') = Total(1..n, StepCosts)
          /\ Total(1..n, StepCosts) \in Nat
      BY <3>1, <2>7, TotalOfSame, UnitsAreFinite
    <3>3. \A i \in 1..(n + 1) : StepCosts'[i] \in Nat
      BY <2>5, <3>1
    <3>4. Total(1..(n + 1), StepCosts') = Total(1..n, StepCosts') + StepCosts'[n + 1]
      BY <2>5, <3>3, TotalOfLast
    <3> QED
      BY <3>1, <3>2, <3>4
  <2>10. \A i \in 1..(n + 1) : /\ steps'[i].cloud => run'.unpriced
                               /\ steps'[i].cost # 0 => run'.priced
    BY <2>1, <2>2, <2>3, <2>4, <2>5 DEF Ledger
  <2>11. Current' = NewStep /\ run'.stepCount = Len(steps')
    BY <2>2, <2>3 DEF Current, Ledger, n
  <2>12. request'.live => run'.unpriced
    BY <1>1, <2>2 DEF Ledger
  <2>13. pc' \notin Unstarted \cup {"done"}
    BY <1>4 DEF Unstarted
  <2> QED
    BY <2>1, <2>2, <2>3, <2>4, <2>8, <2>9, <2>10, <2>11, <2>12, <2>13 DEF Ledger
<1> QED
  BY <1>2, <1>3, <1>4

LEMMA LedgerStarts ==
  ASSUME Typed, Ledger,
         \/ \E r \in Requests : Submit(r)
         \/ ResetPlanner \/ StartClock \/ RecordStarted
  PROVE  Ledger'
<1>1. pc \in Unstarted /\ steps = << >> /\ log = << >> /\ UNCHANGED steps
  BY DEF Submit, ResetPlanner, StartClock, RecordStarted, Unstarted, Ledger
<1>2. /\ Total(DOMAIN steps, StepTokens) = 0 /\ Total(DOMAIN steps, StepCosts) = 0
      /\ UNCHANGED <<StepTokens, StepCosts>>
  BY <1>1, TotalOfNone DEF StepTokens, StepCosts
<1>3. CASE (\E r \in Requests : Submit(r)) \/ ResetPlanner
  <2>1. UNCHANGED <<run, log>> /\ pc \in {"idle", "reset"}
        /\ pc' \in {"reset", "startClock", "done"}
    BY <1>3 DEF Submit, ResetPlanner, Refuse
  <2> QED
    BY <1>1, <1>2, <2>1 DEF Ledger
<1>4. CASE StartClock
  <2>1. pc = "startClock" /\ UNCHANGED <<request, log>>
        /\ \/ pc' = "started" /\ \E t \in Times : run' = NewRun(request, t)
           \/ pc' = "done" /\ UNCHANGED run
    BY <1>4 DEF StartClock, Refuse
  <2>2. \A t : LET r == NewRun(request, t)
               IN  r.tokens = 0 /\ r.cost = 0 /\ r.stepCount = 0 /\ r.unpriced = request.live
    BY DEF NewRun
  <2> QED
    BY <1>1, <1>2, <2>1, <2>2 DEF Ledger
<1>5. CASE RecordStarted
  <2>1. pc = "started" /\ UNCHANGED <<request, run>> /\ pc' \in {"finish", "loop"}
    BY <1>5 DEF RecordStarted
  <2> QED
    BY <1>1, <1>2, <2>1 DEF Ledger, Unstarted
<1> QED
  BY <1>3, <1>4, <1>5

LEMMA LedgerStores ==
  ASSUME Typed, Ledger,
         \/ CheckDecision \/ CheckToolStep
         \/ RecordStoppedStep \/ RejectDecision \/ RecordAnswerStep \/ RecordToolStep
  PROVE  Ledger'
<1>1. pc \in InStep /\ UNCHANGED <<request, run>> /\ pc # "plan"
  BY DEF CheckDecision, CheckToolStep, RecordStoppedStep, RejectDecision,
     RecordAnswerStep, RecordToolStep, InStep
<1>2. pc' \in Going
  <2>1. pc = "planned" => decision.action \in {"final_answer", "tool_call", "other"}
    BY DEF Typed, Shape, Decisions
  <2> QED
    BY <2>1 DEF CheckDecision, CheckToolStep, RecordStoppedStep, RejectDecision,
       RecordAnswerStep, RecordToolStep, EndWith, EndToolStep, InStep, Going
<1> DEFINE answered == [Current EXCEPT !.state = "completed"]
           Bare(s) == /\ s \in StepType /\ s.tokens = Current.tokens
                      /\ s.cost = Current.cost /\ s.cloud = Current.cloud
<1>3. /\ Bare(Stopped(Current)) /\ Bare([Current EXCEPT !.error = TRUE])
      /\ Bare([Current EXCEPT !.state = "stopped"]) /\ Bare(answered)
  <2>1. Current \in StepType
    BY <1>1, OpenStep
  <2> QED
    BY <2>1, StepFieldsKept DEF StepType, AgentStates
<1>4. Bare(Stopped(answered))
  <2> HIDE DEF answered
  <2> QED
    BY <1>3, StepFieldsKept
<1>5. \/ UNCHANGED steps
      \/ UpdateStep(Stopped(Current))
      \/ UpdateStep([Current EXCEPT !.error = TRUE])
      \/ UpdateStep([Current EXCEPT !.state = "stopped"])
      \/ UpdateStep(answered)
      \/ UpdateStep(Stopped(answered))
  <2>1. CASE CheckDecision \/ CheckToolStep
    BY <2>1 DEF CheckDecision, CheckToolStep, EndWith, EndToolStep
  <2>2. CASE RecordStoppedStep \/ RejectDecision \/ RecordAnswerStep \/ RecordToolStep
    BY <2>2 DEF RecordStoppedStep, RejectDecision, RecordAnswerStep, RecordToolStep
  <2> QED
    BY <2>1, <2>2
<1>6. UNCHANGED steps \/ \E s : Bare(s) /\ UpdateStep(s)
  BY <1>3, <1>4, <1>5
<1> HIDE DEF answered
<1> QED
  BY <1>1, <1>2, <1>6, LedgerQuiet, LedgerUncharged

LEMMA LedgerScreens ==
  ASSUME Typed, Ledger, ScreenToolCall \/ ToolRaises \/ GuardAnswer
  PROVE  Ledger'
<1>1. pc \in InStep /\ pc' \in Going /\ UNCHANGED request
  BY DEF ScreenToolCall, ToolRaises, GuardAnswer, EndToolStep, InStep, Going
<1>2. Current \in StepType /\ run \in RunType
  BY <1>1, OpenStep
<1>3. /\ run'.tokens = run.tokens /\ run'.cost = run.cost /\ run'.stepCount = run.stepCount
      /\ run'.unpriced = run.unpriced /\ run'.priced = run.priced
  <2>1. \/ UNCHANGED run
        \/ run' = [run EXCEPT !.guardrail = TRUE]
        \/ \E call : run' = [run EXCEPT !.calls = @ \cup {call}]
    BY DEF ScreenToolCall, ToolRaises, GuardAnswer
  <2> QED
    BY <1>2, <2>1 DEF RunType
<1> DEFINE Bare(s) == /\ s \in StepType /\ s.tokens = Current.tokens
                      /\ s.cost = Current.cost /\ s.cloud = Current.cloud
<1>4. CASE GuardAnswer
  <2>1. UNCHANGED steps
    BY <1>4 DEF GuardAnswer
  <2> QED
    BY <1>1, <1>3, <2>1, LedgerQuiet
<1>5. CASE ToolRaises
  <2>1. PICK said \in BOOLEAN : UpdateStep(StoppedBy(Current, said))
    BY <1>5 DEF ToolRaises, EndToolStep, Says
  <2> QED
    BY <1>1, <1>2, <1>3, <2>1, StepFieldsKept, LedgerUncharged
<1>6. CASE ScreenToolCall
  <2> DEFINE s == [Current EXCEPT !.state = "tool_call", !.tool = decision.call[1]]
             h == [s EXCEPT !.state = "needs_human", !.error = TRUE]
  <2>1. decision.call[1] \in Names
    BY <1>6 DEF ScreenToolCall, Typed, Shape, Decisions, Calls
  <2>2. Bare(s)
    BY <1>2, <2>1 DEF StepType, AgentStates
  <2>3. Bare(h)
    <3> HIDE DEF s
    <3> QED
      BY <2>2 DEF StepType, AgentStates
  <2>4. \/ UpdateStep(s) \/ UpdateStep(h)
        \/ \E said \in BOOLEAN : UpdateStep(StoppedBy(s, said))
    BY <1>6 DEF ScreenToolCall, EndToolStep, Says
  <2> HIDE DEF s, h
  <2>5. \E t : Bare(t) /\ UpdateStep(t)
    BY <2>2, <2>3, <2>4, StepFieldsKept
  <2> QED
    BY <1>1, <1>3, <2>5, LedgerUncharged
<1> QED
  BY <1>4, <1>5, <1>6

LEMMA LedgerFinish ==
  ASSUME Typed, Ledger, Finish
  PROVE  Ledger'
<1>1. /\ pc = "finish" /\ pc' = "done" /\ UNCHANGED <<request, run, steps>>
      /\ result' = FinishedResult(ending)
  BY DEF Finish
<1>2. result'.cost = CostStatus /\ CostStatus' = CostStatus
  BY <1>1 DEF FinishedResult, CostStatus
<1> QED
  BY <1>1, <1>2 DEF Ledger, StepTokens, StepCosts, Unstarted

LEMMA LedgerStep ==
  ASSUME Typed, Ledger, [Next]_vars
  PROVE  Ledger'
<1>1. CASE UNCHANGED vars
  BY <1>1 DEF vars, Ledger, StepTokens, StepCosts, Current, CostStatus
<1> QED
  BY <1>1, LedgerStarts, LedgerOpens, LedgerPlans, LedgerStores, LedgerScreens,
     LedgerExecutes, LedgerFinish DEF Next, RunnerStep

LEMMA LedgerAlways == Spec => []Ledger
<1>1. Init => Ledger
  BY TotalOfNone DEF Init, Ledger, NewRun, StepTokens, StepCosts, Unstarted
<1> QED
  BY <1>1, LedgerStep, TypedAlways, PTL DEF Spec

(* The runner's totals are those of its steps, whatever port fails on the  *)
(* way, and a cost that is not known is not reported as known.             *)
THEOREM TotalsAreThoseOfTheSteps == Spec => []UsageLedger
<1>1. Typed /\ Ledger => UsageLedger
  <2> SUFFICES ASSUME Typed, Ledger PROVE UsageLedger
    OBVIOUS
  <2>1. CostStatus = "local_zero" => ~run.priced
    BY DEF CostStatus
  <2>2. run.unpriced => CostStatus = "unknown"
    BY DEF CostStatus
  <2> QED
    BY <2>1, <2>2 DEF Ledger, UsageLedger
<1> QED
  BY <1>1, LedgerAlways, TypedAlways, PTL
=============================================================================
