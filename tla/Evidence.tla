------------------------------ MODULE Evidence ------------------------------
(***************************************************************************)
(* Sources, citations and grounding: core/text.py (merge_sources) and the  *)
(* properties of AgentRunResult in core/contracts.py.                      *)
(*                                                                         *)
(* A source is a record: "identity" is what source_identity returns for    *)
(* the compacted source (node id, or path and position: the compaction of  *)
(* core/security.py has dropped the text, and an update never changes it); *)
(* "file" and "title" stand for the six keys _source_label tries in order, *)
(* "index" for the citation index; NoLabel is an empty value.  What an     *)
(* answer cites is a set of labels and indices; prose is not modelled.     *)
(***************************************************************************)
EXTENDS Integers, Sequences, FiniteSets

CONSTANTS Sources,     \* the sources tools may return
          NoLabel,     \* an empty field; _source_label(source) is None
          MaxSources   \* the cap the runner passes to merge_sources (12)

ASSUME MaxSourcesAssumption == MaxSources \in Nat

Fields == {"file", "title", "index"}

Identities == {s.identity : s \in Sources}
Marks == {s[f] : s \in Sources, f \in Fields} \ {NoLabel}

(* _source_label: the first key that has a value. *)
Label(s) == IF s.file # NoLabel THEN s.file ELSE s.title

(* The list of sources of a run: the fields by identity; its order is not  *)
(* modelled.                                                               *)
Elements(list) == {list[i] : i \in DOMAIN list}

(* The positions of a list whose source has this identity, and those where *)
(* it has this field too.                                                  *)
Occurrences(list, id) == {i \in DOMAIN list : list[i].identity = id}
Filled(list, id, f) == {i \in Occurrences(list, id) : list[i][f] # NoLabel}

FirstAt(list, id) ==
  CHOOSE i \in Occurrences(list, id) :
    \A j \in Occurrences(list, id) : i <= j

(* The last value a list has for a field of a source. *)
LastValue(list, id, f) ==
  LET last == CHOOSE i \in Filled(list, id, f) :
                \A j \in Filled(list, id, f) : j <= i
  IN  list[last][f]

(* The identities merge_sources appends: those not listed yet, in the order *)
(* of their first occurrence, while the list is shorter than the cap.       *)
AdmittedFault(target, incoming) ==
  {id \in {s.identity : s \in Elements(incoming)} \ DOMAIN target :
     Cardinality(DOMAIN target) <= MaxSources}
Admitted(target, incoming) ==
  LET fresh == {s.identity : s \in Elements(incoming)} \ DOMAIN target
      earlier(id) ==
        {other \in fresh : FirstAt(incoming, other) < FirstAt(incoming, id)}
  IN  {id \in fresh :
         Cardinality(DOMAIN target) + Cardinality(earlier(id)) < MaxSources}

(* A listed source is updated in place by every later one of its identity,  *)
(* field by field: a field the later one has wins, one it lacks is kept.    *)
MergedFieldFault(target, incoming, id, f) ==
  IF Occurrences(incoming, id) # {}
  THEN incoming[CHOOSE i \in Occurrences(incoming, id) :
                  \A j \in Occurrences(incoming, id) : j <= i][f]
  ELSE target[id][f]
MergedField(target, incoming, id, f) ==
  IF Filled(incoming, id, f) # {} THEN LastValue(incoming, id, f)
  ELSE IF id \in DOMAIN target THEN target[id][f]
  ELSE NoLabel

MergeSources(target, incoming) ==
  [id \in DOMAIN target \cup Admitted(target, incoming) |->
     [f \in Fields |-> MergedField(target, incoming, id, f)]]

NoSources == [id \in {} |-> NoLabel]

Labelled(list) == \E s \in list : Label(s) # NoLabel

(* One source is cited when its label or its index is in the answer; a      *)
(* source without a label is skipped whatever its index.                    *)
CitesOne(cites, list) ==
  \E s \in list : Label(s) # NoLabel /\ {Label(s), s.index} \cap cites # {}
=============================================================================
