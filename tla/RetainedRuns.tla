---------------------------- MODULE RetainedRuns ----------------------------
(***************************************************************************)
(* What the Mock Agent API promises its clients (docs/api.md), as atomic   *)
(* operations on the list of the runs it retains, oldest first: a run is   *)
(* known by its idempotency key and its request body; a key is retained    *)
(* with one body at a time; at most MaxRuns runs are retained, and the     *)
(* oldest is forgotten together with its key.                              *)
(*                                                                         *)
(* A call is pending from Call to Return and takes effect once in between. *)
(***************************************************************************)
EXTENDS Integers, Sequences

CONSTANTS
  Clients,
  Keys,
  TooLong,   \* a key that is refused
  Bodies,
  Outcome,   \* what executing a body comes to: "ok", "unknown", "too_large"
  MaxRuns,
  NoCall

Requests == [op : {"create", "get"}, key : Keys \cup {TooLong}, body : Bodies]

VARIABLES
  retained,  \* the runs retained, oldest first
  call,      \* the pending call of each client, or NoCall
  answer     \* its answer, or "none" while it has not taken effect

vars == <<retained, call, answer>>

Run(key, body) == [key |-> key, body |-> body]
Runs == [key : Keys, body : Bodies]

Newest(n, list) ==
  IF Len(list) <= n THEN list ELSE SubSeq(list, Len(list) - n + 1, Len(list))

Holds(list, run) == \E i \in DOMAIN list : list[i] = run
HoldsKey(list, key) == \E i \in DOMAIN list : list[i].key = key

Init ==
  /\ retained = << >>
  /\ call = [c \in Clients |-> NoCall]
  /\ answer = [c \in Clients |-> "none"]

Call(c, r) ==
  /\ call[c] = NoCall
  /\ call' = [call EXCEPT ![c] = r]
  /\ UNCHANGED <<retained, answer>>

Answer(c, a) == answer[c] = "none" /\ answer' = [answer EXCEPT ![c] = a]

Refuse(c) ==
  /\ call[c] # NoCall /\ call[c].op = "create" /\ call[c].key = TooLong
  /\ Answer(c, "invalid_idempotency_key")
  /\ UNCHANGED <<retained, call>>

(* A key that is retained answers for its body and conflicts with another. *)
Replay(c) ==
  LET r == call[c]
  IN  /\ r # NoCall /\ r.op = "create"
      /\ HoldsKey(retained, r.key)
      /\ Answer(c, IF Holds(retained, Run(r.key, r.body))
                   THEN "accepted" ELSE "idempotency_conflict")
      /\ UNCHANGED <<retained, call>>

(* A key that is not retained is executed, and retained if that went well. *)
Execute(c) ==
  LET r == call[c]
  IN  /\ r # NoCall /\ r.op = "create"
      /\ r.key # TooLong /\ ~HoldsKey(retained, r.key)
      /\ IF Outcome[r.body] = "ok"
         THEN /\ Answer(c, "accepted")
              /\ retained' = Newest(MaxRuns, Append(retained, Run(r.key, r.body)))
         ELSE /\ Answer(c, Outcome[r.body])
              /\ UNCHANGED retained
      /\ UNCHANGED call

Fetch(c) ==
  LET r == call[c]
  IN  /\ r # NoCall /\ r.op = "get"
      /\ Answer(c, IF Holds(retained, Run(r.key, r.body))
                   THEN "found" ELSE "unknown_run")
      /\ UNCHANGED <<retained, call>>

Return(c) ==
  /\ answer[c] # "none"
  /\ call' = [call EXCEPT ![c] = NoCall]
  /\ answer' = [answer EXCEPT ![c] = "none"]
  /\ UNCHANGED retained

Next ==
  \E c \in Clients :
    \/ \E r \in Requests : Call(c, r)
    \/ Refuse(c) \/ Replay(c) \/ Execute(c) \/ Fetch(c) \/ Return(c)

Spec == Init /\ [][Next]_vars
=============================================================================
