---------------------------- MODULE MockApiProofs ----------------------------
(***************************************************************************)
(* Proofs about MockApi, for every number of threads, keys and bodies and  *)
(* every capacity: the two dictionaries stay paired and within the cap,    *)
(* what a lookup found still holds when it is used, and the service        *)
(* implements RetainedRuns.                                                *)
(***************************************************************************)
EXTENDS MockApi, TLAPS

(* The places in the code where a thread holds the lock.                   *)
Holding == {"lookup", "store", "map", "evict", "fetch", "release"}

(* Mutual exclusion: who holds the lock is where the lock says.            *)
Exclusive ==
  /\ \A t \in Threads : t \in lock <=> pc[t] \in Holding
  /\ \A t, u \in lock : t = u

(* A request that got past the key check has a key.                        *)
Admissible ==
  \A t \in Threads :
    /\ pc[t] # "idle" => request[t] \in Requests
    /\ pc[t] \in {"lookup", "store", "map", "evict"} =>
         request[t].op = "create" /\ request[t].key \in Keys

(* The positions of the runs whose key is in the other dictionary: all of  *)
(* them, but the last while a thread is about to map its key.              *)
Mapping == \E t \in Threads : pc[t] = "map"
Growing == \E t \in Threads : pc[t] \in {"map", "evict"}
Mapped == IF Mapping THEN 1..(Len(runs) - 1) ELSE 1..Len(runs)

Agreement ==
  /\ \A i, j \in 1..Len(runs) : runs[i].key = runs[j].key => i = j
  /\ DOMAIN idempotency = {runs[i].key : i \in Mapped}
  /\ \A i \in Mapped : idempotency[runs[i].key] = runs[i]
  /\ Len(runs) <= MaxRuns + (IF Growing THEN 1 ELSE 0)
  /\ \A t \in Threads :
       /\ pc[t] = "store" => request[t].key \notin DOMAIN idempotency
       /\ pc[t] = "map" =>
            /\ runs # << >>
            /\ runs[Len(runs)] = Run(request[t].key, request[t].body)

Inv == TypeOK /\ Exclusive /\ Admissible /\ Agreement

LEMMA InvInit == Init => Inv
<1> SUFFICES ASSUME Init PROVE Inv
  OBVIOUS
<1>1. TypeOK
  BY DEF Init, TypeOK, Labels, Answers
<1>2. Exclusive /\ Admissible
  BY DEF Init, Exclusive, Admissible, Holding
<1>3. Agreement
  BY MockApiAssumption DEF Init, Agreement, Mapping, Growing, Mapped
<1> QED
  BY <1>1, <1>2, <1>3 DEF Inv

(* Only one thread holds the lock, so only one maps, stores or evicts.     *)
LEMMA Alone ==
  ASSUME Inv, NEW t \in Threads, pc[t] \in Holding,
         NEW u \in Threads, u # t
  PROVE  pc[u] \notin Holding
  BY DEF Inv, Exclusive

(* Steps outside the lock.                                                 *)
LEMMA OutsideStep ==
  ASSUME Inv, NEW t \in Threads,
         Respond(t) \/ RefuseKey(t) \/ \E r \in Requests : Arrive(t, r)
  PROVE  Inv'
<1>1. TypeOK'
  BY DEF Inv, TypeOK, Labels, Answers, Respond, RefuseKey, Arrive, Goto, Decide
<1>2. \A u \in Threads : pc'[u] = pc[u] \/ (pc[u] \notin Holding /\ pc'[u] \notin Holding)
  BY DEF Inv, TypeOK, Holding, Respond, RefuseKey, Arrive, Goto
<1>3. Exclusive'
  BY <1>2 DEF Inv, Exclusive, Respond, RefuseKey, Arrive
<1>4. Admissible'
  BY DEF Inv, TypeOK, Admissible, Respond, RefuseKey, Arrive, Goto
<1>5. \A u \in Threads : \/ pc'[u] = pc[u] /\ request'[u] = request[u]
                         \/ pc[u] \notin Holding /\ pc'[u] \notin Holding
  BY DEF Inv, TypeOK, Holding, Respond, RefuseKey, Arrive, Goto
<1>6. UNCHANGED <<runs, idempotency>> /\ Mapping' = Mapping /\ Growing' = Growing
  BY <1>5 DEF Mapping, Growing, Holding, Respond, RefuseKey, Arrive
<1>7. Agreement'
  BY <1>5, <1>6 DEF Inv, Agreement, Mapped, Holding
<1> QED
  BY <1>1, <1>3, <1>4, <1>7 DEF Inv

LEMMA AcquireStep ==
  ASSUME Inv, NEW t \in Threads, Acquire(t)
  PROVE  Inv'
<1>1. /\ pc[t] = "acquire" /\ request[t] \in Requests /\ ~Refused(request[t])
      /\ pc' = [pc EXCEPT ![t] = IF request[t].op = "create" THEN "lookup" ELSE "fetch"]
      /\ lock = {} /\ lock' = {t}
      /\ UNCHANGED <<request, answer, runs, idempotency>>
  BY DEF Inv, Admissible, Acquire, Goto
<1>2. TypeOK'
  BY <1>1 DEF Inv, TypeOK, Labels
<1>3. Exclusive'
  BY <1>1 DEF Inv, TypeOK, Exclusive, Holding
<1>4. Admissible'
  BY <1>1 DEF Inv, TypeOK, Admissible, Requests, Refused
<1>5. \A u \in Threads : pc[u] \notin {"map", "evict", "store"}
                         /\ pc'[u] \notin {"map", "evict", "store"}
  BY <1>1 DEF Inv, TypeOK, Exclusive, Holding
<1>6. Mapped' = Mapped /\ ~Growing /\ ~Growing'
  BY <1>1, <1>5 DEF Mapped, Mapping, Growing
<1>7. Agreement'
  BY <1>1, <1>5, <1>6 DEF Inv, Agreement
<1> QED
  BY <1>2, <1>3, <1>4, <1>7 DEF Inv

(* A thread that moves on under the lock leaves the others where they are. *)
LEMMA MoveUnderLock ==
  ASSUME Inv, NEW t \in Threads, NEW to \in Holding, pc[t] \in Holding,
         pc' = [pc EXCEPT ![t] = to], UNCHANGED lock
  PROVE  /\ Exclusive' /\ pc' \in [Threads -> Labels] /\ pc'[t] = to
         /\ \A u \in Threads : u # t => pc'[u] = pc[u] /\ pc[u] \notin Holding
         /\ Mapping' <=> to = "map"
         /\ Growing' <=> to \in {"map", "evict"}
         /\ Mapping <=> pc[t] = "map"
         /\ Growing <=> pc[t] \in {"map", "evict"}
<1>1. pc \in [Threads -> Labels]
  BY DEF Inv, TypeOK
<1>2. pc' \in [Threads -> Labels] /\ pc'[t] = to
  BY <1>1 DEF Holding, Labels
<1>3. \A u \in Threads : u # t => pc'[u] = pc[u] /\ pc[u] \notin Holding
  BY <1>1, Alone
<1>4. Exclusive'
  BY <1>2, <1>3 DEF Inv, Exclusive
<1> QED
  BY <1>2, <1>3, <1>4 DEF Mapping, Growing, Holding

(* The lookups, and the executions that store nothing.                     *)
LEMMA LookupStep ==
  ASSUME Inv, NEW t \in Threads, Replay(t) \/ Fetch(t) \/ Execute(t)
  PROVE  Inv'
<1>1. PICK to \in {"release", "store"} :
        /\ pc' = [pc EXCEPT ![t] = to]
        /\ pc[t] \in {"lookup", "fetch"}
        /\ to = "store" =>
             pc[t] = "lookup" /\ request[t].key \notin DOMAIN idempotency
        /\ UNCHANGED <<request, lock, runs, idempotency>>
  BY DEF Replay, Fetch, Execute, Goto
<1>2. answer' \in [Threads -> Answers]
  <2>1. answer \in [Threads -> Answers]
    BY DEF Inv, TypeOK
  <2>2. CASE Replay(t) \/ Fetch(t)
    BY <2>1, <2>2 DEF Replay, Fetch, Decide, Answers
  <2>3. CASE Execute(t)
    <3>1. Outcome[request[t].body] = "ok" \/ Outcome[request[t].body] \in Answers
      <4>1. request[t].body \in Bodies
        BY <2>3 DEF Execute, Inv, Admissible, Requests
      <4> QED
        BY <4>1, MockApiAssumption DEF Answers
    <3> QED
      BY <2>1, <2>3, <3>1 DEF Execute, Decide
  <2> QED
    BY <2>2, <2>3
<1>3. pc[t] \in Holding /\ to \in Holding
  BY <1>1 DEF Holding
<1>4. TypeOK' /\ Exclusive'
  BY <1>1, <1>2, <1>3, MoveUnderLock DEF Inv, TypeOK
<1>5. Admissible'
  BY <1>1, <1>3, MoveUnderLock DEF Inv, Admissible
<1>6. ~Mapping /\ ~Mapping' /\ ~Growing /\ ~Growing'
  BY <1>1, <1>3, MoveUnderLock
<1>7. Agreement'
  BY <1>1, <1>3, <1>6, MoveUnderLock DEF Inv, Agreement, Mapped, Holding
<1> QED
  BY <1>4, <1>5, <1>7 DEF Inv

LEMMA StoreStep ==
  ASSUME Inv, NEW t \in Threads, Store(t)
  PROVE  Inv'
<1> DEFINE run == Run(request[t].key, request[t].body)
<1>1. /\ pc[t] = "store" /\ pc[t] \in Holding /\ "map" \in Holding
      /\ pc' = [pc EXCEPT ![t] = "map"]
      /\ UNCHANGED <<request, lock, idempotency>>
  BY DEF Store, Goto, Holding
<1>2. run \in Runs /\ run.key = request[t].key
  BY <1>1 DEF Inv, Admissible, Run, Runs, Requests
<1>3. runs \in Seq(Runs) /\ Mapped = 1..Len(runs) /\ Len(runs) <= MaxRuns
  <2>1. ~Mapping /\ ~Growing
    BY <1>1, MoveUnderLock
  <2>2. Len(runs) <= MaxRuns + 0
    BY <2>1 DEF Inv, Agreement
  <2> QED
    BY <2>1, <2>2, MockApiAssumption DEF Inv, TypeOK, Mapped
<1>4. \A i \in 1..Len(runs) : runs[i].key # run.key
  BY <1>1, <1>2, <1>3 DEF Inv, Agreement
<1>5. run \notin Stored
  BY <1>3, <1>4 DEF Stored
<1>6. runs' = Append(runs, run)
  BY <1>5 DEF Store
<1>7. /\ runs' \in Seq(Runs) /\ Len(runs') = Len(runs) + 1
      /\ \A i \in 1..Len(runs) : runs'[i] = runs[i]
      /\ runs'[Len(runs')] = run
  BY <1>2, <1>3, <1>6
<1>8. TypeOK'
  BY <1>1, <1>7, MoveUnderLock DEF Inv, TypeOK, Store, Decide, Answers
<1>9. Admissible'
  BY <1>1, MoveUnderLock DEF Inv, Admissible
<1>10. Mapped' = 1..Len(runs) /\ Growing'
  <2>1. Mapping' /\ Growing'
    BY <1>1, MoveUnderLock
  <2>2. Len(runs') - 1 = Len(runs)
    BY <1>3, <1>7
  <2> QED
    BY <2>1, <2>2 DEF Mapped
<1>11. Agreement'
  <2>1. \A i, j \in 1..Len(runs') : runs'[i].key = runs'[j].key => i = j
    <3> SUFFICES ASSUME NEW i \in 1..Len(runs'), NEW j \in 1..Len(runs'),
                        runs'[i].key = runs'[j].key
                 PROVE  i = j
      OBVIOUS
    <3>1. i \in 1..Len(runs) \/ i = Len(runs')
      BY <1>3, <1>7
    <3>2. j \in 1..Len(runs) \/ j = Len(runs')
      BY <1>3, <1>7
    <3> HIDE DEF run
    <3> QED
      BY <1>4, <1>7, <3>1, <3>2 DEF Inv, Agreement
  <2>2. /\ DOMAIN idempotency' = {runs'[i].key : i \in Mapped'}
        /\ \A i \in Mapped' : idempotency'[runs'[i].key] = runs'[i]
    BY <1>1, <1>3, <1>7, <1>10 DEF Inv, Agreement
  <2>3. Len(runs') <= MaxRuns + 1
    BY <1>3, <1>7, MockApiAssumption
  <2>4. \A u \in Threads :
          /\ pc'[u] # "store"
          /\ pc'[u] = "map" => u = t
    BY <1>1, MoveUnderLock DEF Holding
  <2>5. runs' # << >> /\ request'[t] = request[t]
    BY <1>1, <1>3, <1>7
  <2> QED
    BY <1>7, <1>10, <2>1, <2>2, <2>3, <2>4, <2>5 DEF Agreement
<1> QED
  BY <1>1, <1>8, <1>9, <1>11, MoveUnderLock DEF Inv

LEMMA MapKeyStep ==
  ASSUME Inv, NEW t \in Threads, MapKey(t)
  PROVE  Inv'
<1> DEFINE key == request[t].key
           run == Run(key, request[t].body)
<1>1. /\ pc[t] = "map" /\ pc[t] \in Holding /\ "evict" \in Holding
      /\ pc' = [pc EXCEPT ![t] = "evict"]
      /\ UNCHANGED <<request, answer, lock, runs>>
  BY DEF MapKey, Goto, Holding
<1>2. /\ runs \in Seq(Runs) /\ runs # << >> /\ runs[Len(runs)] = run
      /\ run \in Runs /\ run.key = key /\ key \in Keys
  BY <1>1 DEF Inv, TypeOK, Agreement, Admissible, Requests, Run, Runs
<1>3. /\ Mapped = 1..(Len(runs) - 1) /\ Mapped' = 1..Len(runs)
      /\ Growing /\ Growing'
  BY <1>1, MoveUnderLock DEF Mapped
<1>4. /\ DOMAIN idempotency' = DOMAIN idempotency \cup {key}
      /\ idempotency'[key] = run
      /\ \A k \in DOMAIN idempotency : k # key => idempotency'[k] = idempotency[k]
  BY DEF MapKey
<1>5. Mapped' = Mapped \cup {Len(runs)} /\ Len(runs) \notin Mapped
      /\ Len(runs) \in 1..Len(runs) /\ Mapped \subseteq 1..Len(runs)
  BY <1>2, <1>3
<1>6. \A i \in Mapped : runs[i].key # key
  BY <1>2, <1>5 DEF Inv, Agreement
<1>7. TypeOK'
  <2>1. \A k \in DOMAIN idempotency' : idempotency'[k] \in Runs
    <3> HIDE DEF key, run
    <3> QED
      BY <1>2, <1>4 DEF Inv, TypeOK
  <2>2. DOMAIN idempotency' \subseteq Keys
    BY <1>2, <1>4 DEF Inv, TypeOK
  <2> QED
    BY <1>1, <2>1, <2>2, MoveUnderLock DEF Inv, TypeOK
<1>8. Admissible'
  BY <1>1, MoveUnderLock DEF Inv, Admissible
<1>9. Agreement'
  <2> HIDE DEF key, run
  <2>1. DOMAIN idempotency' = {runs[i].key : i \in Mapped'}
    BY <1>2, <1>4, <1>5 DEF Inv, Agreement
  <2>2. \A i \in Mapped' : idempotency'[runs[i].key] = runs[i]
    BY <1>2, <1>4, <1>5, <1>6, <2>1 DEF Inv, Agreement
  <2>3. \A u \in Threads : pc'[u] \notin {"store", "map"}
    BY <1>1, MoveUnderLock DEF Holding
  <2> QED
    BY <1>1, <1>3, <2>1, <2>2, <2>3 DEF Inv, Agreement
<1> QED
  BY <1>1, <1>7, <1>8, <1>9, MoveUnderLock DEF Inv

LEMMA EvictStep ==
  ASSUME Inv, NEW t \in Threads, Evict(t)
  PROVE  Inv'
<1>1. /\ pc[t] = "evict" /\ pc[t] \in Holding /\ "release" \in Holding
      /\ UNCHANGED <<request, answer, lock>>
  BY DEF Evict, Holding
<1>2. /\ Mapped = 1..Len(runs) /\ Len(runs) <= MaxRuns + 1 /\ runs \in Seq(Runs)
      /\ \A u \in Threads : u # t => pc[u] \notin Holding
  <2>1. ~Mapping /\ Growing
    <3>1. \A u \in Threads : u # t => pc[u] \notin Holding
      BY <1>1, Alone
    <3> QED
      BY <1>1, <3>1 DEF Mapping, Growing, Holding
  <2> QED
    BY <1>1, <2>1, Alone DEF Mapped, Inv, TypeOK, Agreement
<1>3. CASE Len(runs) > MaxRuns
  <2> DEFINE oldest == runs[1]
  <2>1. /\ runs' = Tail(runs) /\ Head(runs) = oldest /\ UNCHANGED pc
        /\ Len(runs) \in Nat \ {0}
    BY <1>2, <1>3, MockApiAssumption DEF Evict
  <2>2. /\ runs' \in Seq(Runs) /\ Len(runs') = Len(runs) - 1
        /\ \A i \in 1..Len(runs') : runs'[i] = runs[i + 1]
    BY <1>2, <2>1
  <2>3. KeysOf(oldest) = {oldest.key}
    <3>1. 1 \in Mapped /\ oldest.key \in DOMAIN idempotency
          /\ idempotency[oldest.key] = oldest
      BY <1>2, <2>1 DEF Inv, Agreement
    <3>2. ASSUME NEW k \in DOMAIN idempotency, idempotency[k] = oldest
          PROVE  k = oldest.key
      <4>1. PICK i \in Mapped : k = runs[i].key
        BY DEF Inv, Agreement
      <4> QED
        BY <3>2, <4>1 DEF Inv, Agreement
    <3> QED
      BY <3>1, <3>2 DEF KeysOf
  <2>4. idempotency' = [k \in DOMAIN idempotency \ {oldest.key} |-> idempotency[k]]
    BY <1>3, <2>1, <2>3 DEF Evict
  <2>5. TypeOK'
    BY <1>1, <2>1, <2>2, <2>4 DEF Inv, TypeOK
  <2>6. /\ Mapping' = Mapping /\ Growing' = Growing
        /\ Mapped' = 1..Len(runs') /\ ~Mapping /\ Growing
    BY <1>1, <1>2, <2>1 DEF Mapping, Growing, Mapped, Holding
  <2>7. Agreement'
    <3>1. \A i, j \in 1..Len(runs') : runs'[i].key = runs'[j].key => i = j
      <4> SUFFICES ASSUME NEW i \in 1..Len(runs'), NEW j \in 1..Len(runs'),
                          runs'[i].key = runs'[j].key
                   PROVE  i = j
        OBVIOUS
      <4>1. i + 1 \in 1..Len(runs) /\ j + 1 \in 1..Len(runs)
        BY <2>1, <2>2
      <4>2. i + 1 = j + 1
        BY <2>2, <4>1 DEF Inv, Agreement
      <4> QED
        BY <4>2
    <3>2. \A i \in 1..Len(runs') :
            i + 1 \in 1..Len(runs) /\ runs[i + 1].key # oldest.key
      <4> SUFFICES ASSUME NEW i \in 1..Len(runs')
                   PROVE  i + 1 \in 1..Len(runs) /\ runs[i + 1].key # oldest.key
        OBVIOUS
      <4>1. i + 1 \in 1..Len(runs) /\ 1 \in 1..Len(runs) /\ i + 1 # 1
        BY <2>1, <2>2
      <4> QED
        BY <4>1 DEF Inv, Agreement
    <3>3. DOMAIN idempotency' = {runs'[i].key : i \in Mapped'}
      <4>1. ASSUME NEW k \in DOMAIN idempotency'
            PROVE  k \in {runs'[i].key : i \in 1..Len(runs')}
        <5>1. k \in DOMAIN idempotency /\ k # oldest.key
          BY <2>4
        <5>2. PICK j \in 1..Len(runs) : k = runs[j].key
          BY <1>2, <5>1 DEF Inv, Agreement
        <5>3. j - 1 \in 1..Len(runs') /\ (j - 1) + 1 = j
          BY <2>1, <2>2, <5>1, <5>2
        <5>4. runs'[j - 1].key = k
          BY <2>2, <5>2, <5>3
        <5> QED
          BY <5>3, <5>4
      <4>2. ASSUME NEW i \in 1..Len(runs')
            PROVE  runs'[i].key \in DOMAIN idempotency'
        BY <1>2, <2>2, <2>4, <3>2 DEF Inv, Agreement
      <4> QED
        BY <2>6, <4>1, <4>2
    <3>4. \A i \in Mapped' : idempotency'[runs'[i].key] = runs'[i]
      <4> SUFFICES ASSUME NEW i \in 1..Len(runs')
                   PROVE  idempotency'[runs'[i].key] = runs'[i]
        BY <2>6
      <4>1. i + 1 \in Mapped /\ runs[i + 1].key # oldest.key /\ runs'[i] = runs[i + 1]
        BY <1>2, <2>2, <3>2
      <4>2. runs[i + 1].key \in DOMAIN idempotency
            /\ idempotency[runs[i + 1].key] = runs[i + 1]
        BY <4>1 DEF Inv, Agreement
      <4> QED
        BY <2>4, <4>1, <4>2
    <3>5. Len(runs') <= MaxRuns + 1
      BY <1>2, <2>1, <2>2, MockApiAssumption
    <3>6. \A u \in Threads : pc'[u] \notin {"store", "map"}
      BY <1>1, <1>2, <2>1 DEF Holding
    <3> QED
      BY <2>6, <3>1, <3>3, <3>4, <3>5, <3>6 DEF Agreement
  <2>8. Exclusive' /\ Admissible'
    BY <1>1, <2>1 DEF Inv, Exclusive, Admissible
  <2> QED
    BY <2>5, <2>7, <2>8 DEF Inv
<1>4. CASE ~(Len(runs) > MaxRuns)
  <2>1. pc' = [pc EXCEPT ![t] = "release"] /\ UNCHANGED <<runs, idempotency>>
    BY <1>4 DEF Evict, Goto
  <2>2. TypeOK' /\ Exclusive'
    BY <1>1, <2>1, MoveUnderLock DEF Inv, TypeOK
  <2>3. Admissible'
    BY <1>1, <2>1, MoveUnderLock DEF Inv, Admissible
  <2>4. ~Mapping' /\ ~Growing'
    BY <1>1, <2>1, MoveUnderLock
  <2>5. Mapped' = 1..Len(runs') /\ Len(runs') <= MaxRuns
    BY <1>2, <1>4, <2>1, <2>4, MockApiAssumption DEF Mapped
  <2>6. \A u \in Threads : pc'[u] \notin {"store", "map"}
    BY <1>1, <2>1, MoveUnderLock DEF Holding
  <2>7. Agreement'
    BY <1>2, <2>1, <2>4, <2>5, <2>6, MockApiAssumption DEF Inv, Agreement
  <2> QED
    BY <2>2, <2>3, <2>7 DEF Inv
<1> QED
  BY <1>3, <1>4

LEMMA ReleaseStep ==
  ASSUME Inv, NEW t \in Threads, Release(t)
  PROVE  Inv'
<1>1. /\ pc[t] = "release" /\ pc' = [pc EXCEPT ![t] = "respond"]
      /\ lock' = lock \ {t}
      /\ UNCHANGED <<request, answer, runs, idempotency>>
  BY DEF Release, Goto
<1>2. TypeOK'
  BY <1>1 DEF Inv, TypeOK, Labels
<1>3. \A u \in Threads : u # t => pc'[u] = pc[u] /\ pc[u] \notin Holding
  BY <1>1, Alone DEF Inv, TypeOK, Holding
<1>4. pc'[t] = "respond"
  BY <1>1 DEF Inv, TypeOK
<1>5. Exclusive'
  BY <1>1, <1>3, <1>4 DEF Inv, Exclusive, Holding
<1>6. Admissible'
  BY <1>1, <1>3, <1>4 DEF Inv, Admissible
<1>7. ~Mapping /\ ~Mapping' /\ ~Growing /\ ~Growing'
  BY <1>1, <1>3, <1>4 DEF Mapping, Growing, Holding
<1>8. Agreement'
  BY <1>1, <1>3, <1>4, <1>7 DEF Inv, Agreement, Mapped, Holding
<1> QED
  BY <1>2, <1>5, <1>6, <1>8 DEF Inv

LEMMA InvAlways == Spec => []Inv
<1>1. Inv /\ [Next]_vars => Inv'
  <2> SUFFICES ASSUME Inv, [Next]_vars PROVE Inv'
    OBVIOUS
  <2>1. CASE Next
    BY <2>1, OutsideStep, AcquireStep, LookupStep, StoreStep, MapKeyStep, EvictStep,
       ReleaseStep DEF Next, Critical
  <2>2. CASE UNCHANGED vars
    BY <2>2 DEF vars, Inv, TypeOK, Exclusive, Admissible, Agreement, Mapped,
                Mapping, Growing
  <2> QED
    BY <2>1, <2>2
<1> QED
  BY <1>1, InvInit, PTL DEF Spec

(* Between two calls each retained run has exactly its own key, each key   *)
(* its run, and the capacity holds: for any number of threads.             *)
THEOREM DictionariesStayPaired == Spec => []Paired
<1>1. Inv => Paired
  <2> SUFFICES ASSUME Inv, lock = {}
               PROVE  /\ Len(runs) <= MaxRuns
                      /\ DOMAIN idempotency = {run.key : run \in Stored}
                      /\ \A i \in DOMAIN runs : idempotency[runs[i].key] = runs[i]
                      /\ \A i, j \in DOMAIN runs : runs[i].key = runs[j].key => i = j
    BY DEF Paired
  <2>1. ~Mapping /\ ~Growing
    BY DEF Inv, Exclusive, Mapping, Growing, Holding
  <2>2. DOMAIN runs = 1..Len(runs) /\ Mapped = 1..Len(runs)
    BY <2>1 DEF Inv, TypeOK, Mapped
  <2>3. Len(runs) <= MaxRuns + 0
    BY <2>1 DEF Inv, Agreement
  <2> QED
    BY <2>2, <2>3, MockApiAssumption DEF Inv, Agreement, Stored
<1> QED
  BY <1>1, InvAlways, PTL

(* What a thread looked up under the lock still holds when it uses it: the *)
(* subscript of _runs never fails and no run is stored over another.       *)
THEOREM LookupsStillHold == Spec => []LookupStillHolds
<1>1. Inv => LookupStillHolds
  <2> SUFFICES ASSUME Inv, NEW t \in Threads
               PROVE  LET r == request[t]
                      IN  /\ pc[t] = "lookup" /\ r.key \in DOMAIN idempotency =>
                               idempotency[r.key] \in Stored
                          /\ pc[t] = "store" =>
                               /\ r.key \notin DOMAIN idempotency
                               /\ Run(r.key, r.body) \notin Stored
                          /\ pc[t] = "map" => r.key \notin DOMAIN idempotency
    BY DEF LookupStillHolds
  <2>1. DOMAIN runs = 1..Len(runs) /\ Mapped \subseteq 1..Len(runs)
    BY DEF Inv, TypeOK, Mapped
  <2>2. \A k \in DOMAIN idempotency : idempotency[k] \in Stored
    BY <2>1 DEF Inv, Agreement, Stored
  <2>3. CASE pc[t] = "store"
    <3>1. ~Mapping
      <4>1. \A u \in Threads : u # t => pc[u] \notin Holding
        BY <2>3, Alone DEF Holding
      <4> QED
        BY <2>3, <4>1 DEF Mapping, Holding
    <3>2. Mapped = DOMAIN runs /\ request[t].key \notin DOMAIN idempotency
      BY <2>1, <2>3, <3>1 DEF Inv, Agreement, Mapped
    <3>3. \A run \in Stored : run.key # request[t].key
      BY <3>2 DEF Inv, Agreement, Stored
    <3> QED
      BY <2>3, <3>2, <3>3 DEF Run
  <2>4. CASE pc[t] = "map"
    <3>1. Mapping /\ Mapped = 1..(Len(runs) - 1)
      BY <2>4 DEF Mapping, Mapped
    <3>2. runs # << >> /\ runs[Len(runs)] = Run(request[t].key, request[t].body)
      BY <2>4 DEF Inv, Agreement
    <3>3. /\ Len(runs) \in 1..Len(runs) /\ Len(runs) \notin Mapped
          /\ runs[Len(runs)].key = request[t].key
      BY <3>1, <3>2 DEF Inv, TypeOK, Run
    <3> QED
      BY <2>1, <2>4, <3>3 DEF Inv, Agreement
  <2> QED
    BY <2>2, <2>3, <2>4
<1> QED
  BY <1>1, InvAlways, PTL
-----------------------------------------------------------------------------
(* The refinement of RetainedRuns.  A thread has an answer from the moment *)
(* its request takes effect until it has answered, and has a request       *)
(* whenever it is not idle.                                                *)
Undecided == {"idle", "acquire", "lookup", "store", "fetch"}

Pending ==
  \A t \in Threads :
    /\ answer[t] = "none" <=> pc[t] \in Undecided
    /\ request[t] = NoRequest <=> pc[t] = "idle"
    /\ pc[t] = "fetch" => request[t].op = "get"
    /\ pc[t] = "store" => Outcome[request[t].body] = "ok"

LEMMA PendingNext ==
  ASSUME Inv, Pending, [Next]_vars
  PROVE  Pending'
<1>1. CASE UNCHANGED vars
  BY <1>1 DEF vars, Pending
<1>2. ASSUME NEW t \in Threads,
             \/ \E r \in Requests : Arrive(t, r)
             \/ RefuseKey(t) \/ Acquire(t) \/ Critical(t) \/ Respond(t)
      PROVE  Pending'
  <2> DEFINE Here(u) == /\ answer[u] = "none" <=> pc[u] \in Undecided
                        /\ request[u] = NoRequest <=> pc[u] = "idle"
                        /\ pc[u] = "fetch" => request[u].op = "get"
                        /\ pc[u] = "store" => Outcome[request[u].body] = "ok"
  <2>1. /\ pc \in [Threads -> Labels] /\ answer \in [Threads -> Answers]
        /\ request \in [Threads -> Requests \cup {NoRequest}]
    BY DEF Inv, TypeOK
  <2>2. \A u \in Threads : u # t =>
          pc'[u] = pc[u] /\ answer'[u] = answer[u] /\ request'[u] = request[u]
    BY <1>2, <2>1 DEF Arrive, RefuseKey, Acquire, Critical, Replay, Execute, Store,
       MapKey, Evict, Fetch, Release, Respond, Goto, Decide
  <2>3. Here(t)
    BY DEF Pending
  <2>4. Here(t)'
    <3>1. CASE \E r \in Requests : Arrive(t, r)
      BY <2>1, <2>3, <3>1, MockApiAssumption DEF Arrive, Goto, Undecided
    <3>2. CASE RefuseKey(t) \/ Acquire(t) \/ Respond(t)
      <4>1. pc[t] = "acquire" => request[t] \in Requests
        BY DEF Inv, Admissible
      <4> QED
        BY <2>1, <2>3, <3>2, <4>1
           DEF RefuseKey, Acquire, Respond, Goto, Decide, Undecided, Requests
    <3>3. CASE Execute(t)
      <4>1. pc[t] = "lookup" => Outcome[request[t].body]
                                  \in {"ok", "unknown_scenario", "result_too_large"}
        BY MockApiAssumption DEF Inv, Admissible, Requests
      <4> QED
        BY <2>1, <2>3, <3>3, <4>1 DEF Execute, Goto, Decide, Undecided
    <3>4. CASE Replay(t) \/ Fetch(t) \/ Store(t)
      BY <2>1, <2>3, <3>4 DEF Replay, Fetch, Store, Goto, Decide, Undecided
    <3>5. CASE MapKey(t) \/ Evict(t) \/ Release(t)
      BY <2>1, <2>3, <3>5 DEF MapKey, Evict, Release, Goto, Undecided
    <3> QED
      BY <1>2, <3>1, <3>2, <3>3, <3>4, <3>5 DEF Critical
  <2> QED
    BY <2>2, <2>4 DEF Pending
<1> QED
  BY <1>1, <1>2 DEF Next

(* Where nobody is growing the list, it is the list of retained runs.      *)
Kept(s) == SubSeq(s, IF Len(s) > MaxRuns THEN Len(s) - MaxRuns + 1 ELSE 1, Len(s))

LEMMA KeptIsNewest ==
  ASSUME NEW s \in Seq(Runs)
  PROVE  /\ Kept(s) = Retained!Newest(MaxRuns, s)
         /\ Len(s) <= MaxRuns => Kept(s) = s
<1>1. SubSeq(s, 1, Len(s)) = s
  OBVIOUS
<1>2. Len(s) > MaxRuns <=> ~(Len(s) <= MaxRuns)
  BY MockApiAssumption
<1>3. Kept(s) = IF Len(s) <= MaxRuns THEN SubSeq(s, 1, Len(s))
                ELSE SubSeq(s, Len(s) - MaxRuns + 1, Len(s))
  BY <1>2 DEF Kept
<1>4. Kept(s) = Retained!Newest(MaxRuns, s)
  BY <1>1, <1>3 DEF Retained!Newest
<1> QED
  BY <1>1, <1>3, <1>4

LEMMA EvictKeepsTheNewest ==
  ASSUME NEW s \in Seq(Runs), Len(s) = MaxRuns + 1
  PROVE  Kept(Tail(s)) = Kept(s)
<1>1. /\ Tail(s) \in Seq(Runs) /\ Len(Tail(s)) = MaxRuns /\ s # << >>
      /\ \A i \in 1..MaxRuns : Tail(s)[i] = s[i + 1]
  BY MockApiAssumption
<1>2. Len(Tail(s)) <= MaxRuns
  BY <1>1, MockApiAssumption
<1>3. Kept(Tail(s)) = Tail(s)
  BY <1>1, <1>2, KeptIsNewest
<1>4. Kept(s) = SubSeq(s, 2, MaxRuns + 1)
  BY MockApiAssumption DEF Kept
<1>5. SubSeq(s, 2, MaxRuns + 1) = Tail(s)
  BY <1>1, MockApiAssumption
<1> QED
  BY <1>3, <1>4, <1>5

(* The lookup under the lock finds what the abstract list holds.           *)
LEMMA LookupAgrees ==
  ASSUME Inv, NEW t \in Threads, pc[t] \in {"lookup", "fetch", "store"}
  PROVE  /\ runs \in Seq(Runs) /\ Len(runs) <= MaxRuns /\ Kept(runs) = runs
         /\ Mapped = DOMAIN runs
         /\ DOMAIN idempotency = {runs[i].key : i \in DOMAIN runs}
         /\ \A i \in DOMAIN runs : idempotency[runs[i].key] = runs[i]
<1>1. \A u \in Threads : u # t => pc[u] \notin Holding
  BY Alone DEF Holding
<1>2. ~Mapping /\ ~Growing
  BY <1>1 DEF Mapping, Growing, Holding
<1>3. runs \in Seq(Runs) /\ Mapped = DOMAIN runs
  BY <1>2 DEF Inv, TypeOK, Mapped
<1>4. Len(runs) <= MaxRuns + 0
  BY <1>2 DEF Inv, Agreement
<1>5. Len(runs) <= MaxRuns
  BY <1>3, <1>4, MockApiAssumption
<1> QED
  BY <1>3, <1>5, KeptIsNewest DEF Inv, Agreement

LEMMA ReplayRefines ==
  ASSUME Inv, Pending, NEW t \in Threads, Replay(t)
  PROVE  Retained!Replay(t)
<1> DEFINE r == request[t]
<1>1. pc[t] = "lookup" /\ r.key \in DOMAIN idempotency
      /\ UNCHANGED <<request, runs>>
  BY DEF Replay
<1>2. r \in Requests /\ r.op = "create" /\ r.key \in Keys /\ r # NoRequest
      /\ answer[t] = "none"
  BY <1>1, MockApiAssumption DEF Inv, Admissible, Pending, Undecided
<1>3. PICK i \in DOMAIN runs : runs[i].key = r.key /\ idempotency[r.key] = runs[i]
  <2>1. r.key \in {runs[i].key : i \in DOMAIN runs}
    BY <1>1, LookupAgrees
  <2>2. PICK i \in DOMAIN runs : runs[i].key = r.key
    BY <2>1
  <2> QED
    BY <1>1, <2>2, LookupAgrees
<1>4. Kept(runs) = runs /\ runs \in Seq(Runs)
  BY <1>1, LookupAgrees
<1>5. Retained!HoldsKey(runs, r.key)
  BY <1>3 DEF Retained!HoldsKey
<1>6. Retained!Holds(runs, Retained!Run(r.key, r.body)) <=> idempotency[r.key].body = r.body
  <2>1. \A j \in DOMAIN runs : runs[j].key = r.key => j = i
    BY <1>3, <1>4 DEF Inv, Agreement
  <2>2. runs[i] \in Runs /\ runs[i] = [key |-> runs[i].key, body |-> runs[i].body]
    <3>1. runs[i] \in Runs
      BY <1>3, <1>4
    <3> QED
      BY <3>1 DEF Runs
  <2> QED
    BY <1>3, <2>1, <2>2 DEF Retained!Holds, Retained!Run
<1>7. Retained!Answer(t, IF Retained!Holds(runs, Retained!Run(r.key, r.body))
                         THEN "accepted" ELSE "idempotency_conflict")
  BY <1>2, <1>6 DEF Retained!Answer, Replay, Decide
<1> QED
  BY <1>1, <1>2, <1>4, <1>5, <1>7 DEF Retained!Replay, Kept

LEMMA FetchRefines ==
  ASSUME Inv, Pending, NEW t \in Threads, Fetch(t)
  PROVE  Retained!Fetch(t)
<1> DEFINE r == request[t]
<1>1. pc[t] = "fetch" /\ UNCHANGED <<request, runs>>
  BY DEF Fetch, Goto
<1>2. r # NoRequest /\ r.op = "get" /\ answer[t] = "none"
  BY <1>1 DEF Pending, Undecided
<1>3. Kept(runs) = runs
  BY <1>1, LookupAgrees
<1>4. Retained!Holds(runs, Retained!Run(r.key, r.body)) <=> Run(r.key, r.body) \in Stored
  BY DEF Retained!Holds, Retained!Run, Run, Stored
<1> QED
  BY <1>1, <1>2, <1>3, <1>4 DEF Retained!Fetch, Retained!Answer, Fetch, Decide, Kept

(* A failed execution takes effect at the lookup; a good one, later.       *)
LEMMA ExecuteRefines ==
  ASSUME Inv, Pending, NEW t \in Threads, Execute(t)
  PROVE  Retained!Execute(t) \/ UNCHANGED <<runs, request, answer>>
<1> DEFINE r == request[t]
<1>1. pc[t] = "lookup" /\ r.key \notin DOMAIN idempotency /\ UNCHANGED <<request, runs>>
  BY DEF Execute
<1>2. r # NoRequest /\ r.op = "create" /\ r.key # TooLong /\ answer[t] = "none"
  BY <1>1, MockApiAssumption DEF Inv, Admissible, Pending, Undecided
<1>3. Kept(runs) = runs /\ ~Retained!HoldsKey(runs, r.key)
  BY <1>1, LookupAgrees DEF Retained!HoldsKey
<1> QED
  BY <1>1, <1>2, <1>3 DEF Retained!Execute, Retained!Answer, Execute, Decide, Kept

LEMMA StoreRefines ==
  ASSUME Inv, Pending, NEW t \in Threads, Store(t)
  PROVE  Retained!Execute(t)
<1> DEFINE r == request[t]
           run == Run(r.key, r.body)
<1>1. pc[t] = "store" /\ UNCHANGED request
  BY DEF Store, Goto
<1>2. r \in Requests /\ r # NoRequest /\ r.op = "create" /\ r.key \in Keys
      /\ r.key # TooLong /\ answer[t] = "none"
  BY <1>1, MockApiAssumption DEF Inv, Admissible, Pending, Undecided
<1>3. /\ Kept(runs) = runs /\ runs \in Seq(Runs)
      /\ \A i \in DOMAIN runs : runs[i].key # r.key
  BY <1>1, LookupAgrees DEF Inv, Agreement
<1>4. ~Retained!HoldsKey(runs, r.key) /\ run \notin Stored
  BY <1>3 DEF Retained!HoldsKey, Stored, Run
<1>5. runs' = Append(runs, run) /\ runs' \in Seq(Runs)
  BY <1>2, <1>3, <1>4 DEF Store, Run, Runs, Requests
<1>6. Kept(runs') = Retained!Newest(MaxRuns, Append(runs, Retained!Run(r.key, r.body)))
  BY <1>5, KeptIsNewest DEF Run, Retained!Run
<1>7. Retained!Answer(t, "accepted")
  BY <1>2 DEF Retained!Answer, Store, Decide
<1>8. Outcome[r.body] = "ok"
  BY <1>1 DEF Pending
<1> QED
  BY <1>1, <1>2, <1>3, <1>4, <1>6, <1>7, <1>8 DEF Retained!Execute, Kept

LEMMA StepRefines ==
  ASSUME Inv, Pending, [Next]_vars
  PROVE  [Retained!Next]_(Retained!vars)
<1> DEFINE Still == UNCHANGED <<Kept(runs), request, answer>>
<1>1. ASSUME NEW t \in Threads, Replay(t) \/ Fetch(t) \/ Execute(t) \/ Store(t)
      PROVE  \/ Retained!Replay(t) \/ Retained!Fetch(t) \/ Retained!Execute(t)
             \/ Still
  BY <1>1, ReplayRefines, FetchRefines, ExecuteRefines, StoreRefines DEF Kept
<1>2. ASSUME NEW t \in Threads, RefuseKey(t)
      PROVE  Retained!Refuse(t)
  <2>1. pc[t] = "acquire" /\ request[t] \in Requests
    BY <1>2 DEF RefuseKey, Inv, Admissible
  <2>2. request[t] # NoRequest /\ answer[t] = "none"
    BY <2>1, MockApiAssumption DEF Pending, Undecided
  <2> QED
    BY <1>2, <2>2 DEF RefuseKey, Refused, Decide, Retained!Refuse, Retained!Answer
<1>3. ASSUME NEW t \in Threads, NEW r \in Requests, Arrive(t, r)
      PROVE  Retained!Call(t, r)
  BY <1>3 DEF Arrive, Goto, Pending, Retained!Call
<1>4. ASSUME NEW t \in Threads, Respond(t)
      PROVE  Retained!Return(t)
  BY <1>4 DEF Respond, Goto, Pending, Undecided, Retained!Return
<1>5. ASSUME NEW t \in Threads, Evict(t)
      PROVE  Still
  <2>1. CASE Len(runs) > MaxRuns
    <3>1. Growing
      BY <1>5 DEF Evict, Growing
    <3>2. runs \in Seq(Runs) /\ Len(runs) <= MaxRuns + 1
      BY <3>1 DEF Inv, TypeOK, Agreement
    <3>3. Len(runs) = MaxRuns + 1
      BY <2>1, <3>2, MockApiAssumption
    <3>4. Kept(Tail(runs)) = Kept(runs)
      BY <3>2, <3>3, EvictKeepsTheNewest
    <3>5. runs' = Tail(runs) /\ UNCHANGED <<request, answer>>
      BY <1>5, <2>1 DEF Evict
    <3> QED
      BY <3>4, <3>5 DEF Kept
  <2>2. CASE ~(Len(runs) > MaxRuns)
    BY <1>5, <2>2 DEF Evict, Kept
  <2> QED
    BY <2>1, <2>2
<1>6. ASSUME NEW t \in Threads, Acquire(t) \/ MapKey(t) \/ Release(t)
      PROVE  Still
  BY <1>6 DEF Acquire, MapKey, Release, Kept
<1>7. CASE UNCHANGED vars
  BY <1>7 DEF vars, Retained!vars
<1>8. Still => UNCHANGED Retained!vars
  BY DEF Kept, Retained!vars
<1>9. Requests = Retained!Requests
  BY DEF Requests, Retained!Requests
<1> HIDE DEF Still
<1>10. CASE Next
  BY <1>1, <1>2, <1>3, <1>4, <1>5, <1>6, <1>8, <1>9, <1>10
     DEF Next, Critical, Retained!Next
<1> QED
  BY <1>7, <1>10

(* For any number of threads and any capacity, clients cannot tell the     *)
(* service from the atomic list of retained runs: each request takes       *)
(* effect at one moment between its arrival and its answer.                *)
THEOREM ServiceIsAtomic == Spec => ImplementsRetainedRuns
<1>1. Init => Retained!Init
  BY MockApiAssumption DEF Init, Retained!Init
<1>2. Init => Pending
  BY DEF Init, Pending, Undecided
<1> QED
  BY <1>1, <1>2, InvAlways, PendingNext, StepRefines, PTL
     DEF Spec, ImplementsRetainedRuns, Retained!Spec
=============================================================================
