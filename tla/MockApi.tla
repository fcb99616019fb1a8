------------------------------- MODULE MockApi -------------------------------
(***************************************************************************)
(* api/service.py: MockApiService under the threads of the web server.     *)
(* create_run does everything under one lock: the idempotency lookup, the  *)
(* run itself, the two dictionaries and the eviction.  get_run holds the   *)
(* lock for its lookup only.  Every statement between the lock and its     *)
(* release that touches the shared state is an action.                     *)
(*                                                                         *)
(* A run id is a hash of the normalized key and the request fingerprint,   *)
(* so a run id is that pair here.  A request without a key has the key     *)
(* that is derived from its body.                                          *)
(***************************************************************************)
EXTENDS Integers, Sequences, FiniteSets

CONSTANTS
  Threads,      \* the server threads, one request each at a time
  Keys,         \* normalized idempotency keys
  TooLong,      \* a key _normalize_idempotency_key refuses
  Bodies,       \* request fingerprints
  Outcome,      \* what building and executing a body comes to
  MaxRuns,      \* MAX_STORED_RUNS (256)
  NoRequest     \* the thread is idle

Run(key, body) == [key |-> key, body |-> body]
Runs == [key : Keys, body : Bodies]
Requests == [op : {"create", "get"}, key : Keys \cup {TooLong}, body : Bodies]

ASSUME MockApiAssumption ==
  /\ Outcome \in [Bodies -> {"ok", "unknown_scenario", "result_too_large"}]
  /\ MaxRuns \in Nat \ {0}
  /\ TooLong \notin Keys
  /\ NoRequest \notin Requests

VARIABLES
  pc,           \* where each thread is
  request,      \* the request each thread serves
  answer,       \* the answer it will return, "none" while undecided
  lock,         \* the threads that hold the lock: none or one
  runs,         \* _runs: a dictionary in insertion order
  idempotency   \* _idempotency: key -> run id

vars == <<pc, request, answer, lock, runs, idempotency>>

Stored == {runs[i] : i \in DOMAIN runs}

Goto(t, from, to) ==
  /\ pc[t] = from
  /\ pc' = [pc EXCEPT ![t] = to]

Decide(t, a) == answer' = [answer EXCEPT ![t] = a]

Init ==
  /\ pc = [t \in Threads |-> "idle"]
  /\ request = [t \in Threads |-> NoRequest]
  /\ answer = [t \in Threads |-> "none"]
  /\ lock = {}
  /\ runs = << >>
  /\ idempotency = [k \in {} |-> NoRequest]

(* The request arrives; its fingerprint and key need no lock.              *)
Arrive(t, r) ==
  /\ Goto(t, "idle", "acquire")
  /\ request' = [request EXCEPT ![t] = r]
  /\ UNCHANGED <<answer, lock, runs, idempotency>>

(* _normalize_idempotency_key refuses a key before the lock is asked for.  *)
Refused(r) == r.op = "create" /\ r.key = TooLong

RefuseKey(t) ==
  /\ pc[t] = "acquire"
  /\ Refused(request[t])
  /\ Goto(t, "acquire", "respond")
  /\ Decide(t, "invalid_idempotency_key")
  /\ UNCHANGED <<request, lock, runs, idempotency>>

AcquireFault(t) ==
  /\ pc[t] = "acquire"
  /\ ~Refused(request[t])
  /\ Goto(t, "acquire", IF request[t].op = "create" THEN "lookup" ELSE "fetch")
  /\ lock' = {t}
  /\ UNCHANGED <<request, answer, runs, idempotency>>
Acquire(t) ==
  /\ pc[t] = "acquire"
  /\ ~Refused(request[t])
  /\ Goto(t, "acquire", IF request[t].op = "create" THEN "lookup" ELSE "fetch")
  /\ lock = {}
  /\ lock' = {t}
  /\ UNCHANGED <<request, answer, runs, idempotency>>

(* The key is known: _runs[existing_run_id] is compared with the request.  *)
ReplayFault(t) ==
  LET r == request[t]
  IN  /\ pc[t] = "lookup"
      /\ r.key \in DOMAIN idempotency
      /\ Goto(t, "lookup", "release")
      /\ Decide(t, "accepted")
      /\ UNCHANGED <<request, lock, runs, idempotency>>
Replay(t) ==
  LET r == request[t]
      existing == idempotency[r.key]
  IN  /\ pc[t] = "lookup"
      /\ r.key \in DOMAIN idempotency
      /\ Goto(t, "lookup", "release")
      /\ Decide(t, IF existing.body = r.body
                   THEN "accepted" ELSE "idempotency_conflict")
      /\ UNCHANGED <<request, lock, runs, idempotency>>

(* The key is not known: the scenario is built and executed.               *)
Execute(t) ==
  LET r == request[t]
  IN  /\ pc[t] = "lookup"
      /\ r.key \notin DOMAIN idempotency
      /\ IF Outcome[r.body] = "ok"
         THEN Goto(t, "lookup", "store") /\ UNCHANGED answer
         ELSE Goto(t, "lookup", "release") /\ Decide(t, Outcome[r.body])
      /\ UNCHANGED <<request, lock, runs, idempotency>>

(* A dictionary keeps the place of a key it already has.                   *)
Store(t) ==
  LET run == Run(request[t].key, request[t].body)
  IN  /\ Goto(t, "store", "map")
      /\ runs' = IF run \in Stored THEN runs ELSE Append(runs, run)
      /\ Decide(t, "accepted")
      /\ UNCHANGED <<request, lock, idempotency>>

MapKey(t) ==
  LET r == request[t]
  IN  /\ Goto(t, "map", "evict")
      /\ idempotency' = [k \in DOMAIN idempotency \cup {r.key} |->
                           IF k = r.key THEN Run(r.key, r.body) ELSE idempotency[k]]
      /\ UNCHANGED <<request, answer, lock, runs>>

(* The keys that go with the oldest run: the first one that maps to it.    *)
KeysOf(run) == {k \in DOMAIN idempotency : idempotency[k] = run}

(* One turn of the eviction loop, or its end.                              *)
EvictFault(t) ==
  /\ pc[t] = "evict"
  /\ IF Len(runs) > MaxRuns
     THEN runs' = Tail(runs) /\ UNCHANGED pc
     ELSE Goto(t, "evict", "release") /\ UNCHANGED runs
  /\ UNCHANGED <<request, answer, lock, idempotency>>
EvictForever(t) ==
  /\ pc[t] = "evict"
  /\ Len(runs) <= MaxRuns
  /\ Goto(t, "evict", "release")
  /\ UNCHANGED <<request, answer, lock, runs, idempotency>>
Evict(t) ==
  /\ pc[t] = "evict"
  /\ IF Len(runs) > MaxRuns
     THEN /\ runs' = Tail(runs)
          /\ IF KeysOf(Head(runs)) = {}
             THEN UNCHANGED idempotency
             ELSE \E gone \in KeysOf(Head(runs)) :
                    idempotency' = [k \in DOMAIN idempotency \ {gone} |-> idempotency[k]]
          /\ UNCHANGED pc
     ELSE /\ Goto(t, "evict", "release")
          /\ UNCHANGED <<runs, idempotency>>
  /\ UNCHANGED <<request, answer, lock>>

(* get_run: the lookup.                                                    *)
Fetch(t) ==
  LET r == request[t]
  IN  /\ Goto(t, "fetch", "release")
      /\ Decide(t, IF Run(r.key, r.body) \in Stored THEN "found" ELSE "unknown_run")
      /\ UNCHANGED <<request, lock, runs, idempotency>>

(* The with block is left, by return or by exception.                      *)
Release(t) ==
  /\ Goto(t, "release", "respond")
  /\ lock' = lock \ {t}
  /\ UNCHANGED <<request, answer, runs, idempotency>>

Respond(t) ==
  /\ Goto(t, "respond", "idle")
  /\ request' = [request EXCEPT ![t] = NoRequest]
  /\ answer' = [answer EXCEPT ![t] = "none"]
  /\ UNCHANGED <<lock, runs, idempotency>>

(* What a thread does once it holds the lock.                              *)
Critical(t) ==
  \/ Replay(t) \/ Execute(t) \/ Store(t) \/ MapKey(t) \/ Evict(t)
  \/ Fetch(t) \/ Release(t)

Next ==
  \E t \in Threads :
    \/ \E r \in Requests : Arrive(t, r)
    \/ RefuseKey(t) \/ Acquire(t) \/ Critical(t) \/ Respond(t)

Spec == Init /\ [][Next]_vars

(* A thread that holds the lock computes, and never waits.  Nothing is     *)
(* assumed of Acquire: threading.Lock promises its waiters no turn.        *)
FairSpec == Spec /\ \A t \in Threads : WF_vars(Critical(t))

-----------------------------------------------------------------------------
Labels ==
  { "idle", "acquire", "lookup", "store", "map", "evict", "fetch", "release",
    "respond" }

Answers ==
  { "none", "accepted", "idempotency_conflict", "unknown_scenario",
    "result_too_large", "invalid_idempotency_key", "found", "unknown_run" }

(* The type invariant. *)
TypeOK ==
  /\ pc \in [Threads -> Labels]
  /\ request \in [Threads -> Requests \cup {NoRequest}]
  /\ answer \in [Threads -> Answers]
  /\ lock \in SUBSET Threads
  /\ runs \in Seq(Runs)
  /\ DOMAIN idempotency \subseteq Keys
  /\ \A k \in DOMAIN idempotency : idempotency[k] \in Runs

(* Between calls the two dictionaries agree: every run has its one key,    *)
(* every key its run, no two runs share a key, and MAX_STORED_RUNS bounds  *)
(* both ("oldest run ids, and their idempotency keys, are evicted").       *)
Paired ==
  lock = {} =>
    /\ Len(runs) <= MaxRuns
    /\ DOMAIN idempotency = {run.key : run \in Stored}
    /\ \A i \in DOMAIN runs : idempotency[runs[i].key] = runs[i]
    /\ \A i, j \in DOMAIN runs : runs[i].key = runs[j].key => i = j

(* What the lookup found still holds when its result is used: the run that *)
(* an existing key names is there (the code subscripts _runs with it), and *)
(* a run is stored only under a key that nobody took meanwhile.            *)
LookupStillHolds ==
  \A t \in Threads :
    LET r == request[t]
    IN  /\ pc[t] = "lookup" /\ r.key \in DOMAIN idempotency =>
             idempotency[r.key] \in Stored
        /\ pc[t] = "store" =>
             /\ r.key \notin DOMAIN idempotency
             /\ Run(r.key, r.body) \notin Stored
        /\ pc[t] = "map" => r.key \notin DOMAIN idempotency

(* A thread that took the lock gives it back, the eviction loop included.  *)
LockIsReleased == \A t \in Threads : (lock = {t}) ~> (t \notin lock)

(* Clients cannot tell the service from the atomic list of retained runs:  *)
(* every request takes effect at one moment between its arrival and its    *)
(* answer, a replayed key is answered from the run it named, and a run is  *)
(* forgotten with its key.                                                 *)
Retained == INSTANCE RetainedRuns WITH
  Clients <- Threads, NoCall <- NoRequest,
  retained <- SubSeq(runs, IF Len(runs) > MaxRuns THEN Len(runs) - MaxRuns + 1 ELSE 1,
                     Len(runs)),
  call <- request

ImplementsRetainedRuns == Retained!Spec
=============================================================================
