----------------------------- MODULE MCLiveRun -----------------------------
(***************************************************************************)
(* Small instances of LiveRun for TLC: two tools, one of which retrieves;  *)
(* a provider that answers well, twice, with nothing, or badly.            *)
(***************************************************************************)
EXTENDS LiveRun

MCNames == {"rag.search", "learner.profile", "ghost"}
MCRegistered == MCNames \ {"ghost"}
MCPhaseOf ==
  [n \in MCNames |-> CASE n = "rag.search" -> "knowledge_retrieval"
                       [] n = "learner.profile" -> "learner_context"
                       [] OTHER -> None]
MCCalls == MCRegistered \X {"a"}
MCSources == {[identity |-> "f1", file |-> "f1", title |-> NoLabel, index |-> NoLabel]}

Reply(ok, tokens) ==
  [ok |-> ok, hasEvidence |-> FALSE, sources |-> << >>, tokens |-> tokens,
   cost |-> 0, priced |-> FALSE]
MCReplies == {Reply(TRUE, 0), Reply(FALSE, 1), Reply(FALSE, Malformed)}

Limits(steps_, tokens) ==
  [maxSteps |-> steps_, maxTime |-> 0, maxTokens |-> tokens, maxCost |-> 0,
   toolErrorLimit |-> 3]
MCRequests ==
  { [hasRunId |-> TRUE, live |-> TRUE, limits |-> Limits(3, 0)],
    [hasRunId |-> TRUE, live |-> TRUE, limits |-> Limits(3, 2)],
    [hasRunId |-> FALSE, live |-> TRUE, limits |-> Limits(3, 0)] }

Response(calls, usage) ==
  [sound |-> TRUE, usage |-> usage, hasId |-> TRUE, calls |-> calls,
   cites |-> {}, abstains |-> FALSE, empty |-> FALSE]

CallOf(id, name, args) == [id |-> id, call |-> <<name, args>>]

(* Accepted, one call or none; a text that is empty.                       *)
GoodResponses ==
  { Response(<<CallOf(id, name, "a")>>, 1) : id \in {"c1", "c2"}, name \in MCNames }
  \cup {Response(<< >>, 1), [Response(<< >>, 0) EXCEPT !.empty = TRUE]}

(* Two calls, arguments that are no object, a blank id, no response id, a  *)
(* response that is incomplete, and malformed usage.                       *)
BadResponses ==
  { Response(<<CallOf("c1", "rag.search", "a"), CallOf("c2", "rag.search", "a")>>, 1),
    Response(<<CallOf("c1", "rag.search", "list")>>, 1),
    Response(<<CallOf("blank", "rag.search", "a")>>, 1),
    [Response(<<CallOf("c1", "rag.search", "a")>>, 1) EXCEPT !.hasId = FALSE],
    [Response(<< >>, 1) EXCEPT !.sound = FALSE],
    Response(<< >>, Malformed) }

MCResponses == GoodResponses \cup BadResponses
MCCallIds == {"c1", "c2", "blank"}
MCStrip == [id \in MCCallIds |-> id]

(* No requirement, one that can be met, one that cannot.                   *)
MCRequirements == {None, <<"rag.search", "a">>, <<"ghost", "a">>}
=============================================================================
