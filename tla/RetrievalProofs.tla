--------------------------- MODULE RetrievalProofs ---------------------------
(***************************************************************************)
(* Theorems about Retrieval: the index is whole, and what the tool answers *)
(* comes from the corpus it names, for any documents and any rebuilds.     *)
(***************************************************************************)
EXTENDS Retrieval, FiniteSetTheorems, WellFoundedInduction, TLAPS

(* The records of a build and of a question.                               *)
BuildOf(chunks, rest, rows, for) ==
  [chunks |-> chunks, rest |-> rest, rows |-> rows, base |-> for]
RunOf(question, similar, call, result, answer) ==
  [question |-> question, similar |-> similar, call |-> call, result |-> result,
   answer |-> answer]

(* What was indexed so far, and what is left of the list.                  *)
Done == Len(pending.chunks) - Len(pending.rest)

Building ==
  /\ pending = BuildOf(pending.chunks, pending.rest, pending.rows, pending.base)
  /\ pending.chunks \in Seq(Chunks) /\ pending.rest \in Seq(Chunks)
  /\ pending.base \in Loaded \cup {None}
  /\ Len(pending.rest) <= Len(pending.chunks)
  /\ \A i \in DOMAIN pending.rest : pending.rest[i] = pending.chunks[Done + i]
  /\ pending.rows = {pending.chunks[i] : i \in 1..Done}
  /\ IsFiniteSet(pending.rows) /\ pending.rows \subseteq Chunks
  /\ \A c, d \in pending.rows : c.id = d.id => c = d

(* What a question was told is what its call finds in the index and the    *)
(* corpus, which do not change before it leaves.                           *)
Reply ==
  IF run.result.ok /\ HasEvidence(run.result) /\ Quoted.chunk.text # {}
  THEN [quotes |-> Quoted.chunk, cites |-> 1]
  ELSE Abstention

Answering ==
  /\ run = RunOf(run.question, run.similar, run.call, run.result, run.answer)
  /\ run.similar \in [store.rows -> Scores]
  /\ pc = "asked" => run.result = None
  /\ pc \in {"called", "answered"} => run.result = Execute(run.call, run.similar)
  /\ pc = "answered" => run.call = ScriptedCall(run.question) /\ run.answer = Reply

Inv ==
  /\ pc \in {"idle", "build", "asked", "called", "answered"}
  /\ base \in Loaded \cup {None}
  /\ IndexIsWhole /\ IsFiniteSet(store.rows) /\ store.rows \subseteq Chunks
  /\ pc = "build" => Building
  /\ pc \in {"idle", "build"} => run = None
  /\ pc \in {"asked", "called", "answered"} => Answering

LEMMA InvInit == Init => Inv
BY FS_EmptySet DEF Init, Inv, IndexIsWhole, EmptyStore

-----------------------------------------------------------------------------
(* The lists of chunks are sequences of chunks.                            *)
LEMMA ListsOfChunks ==
  /\ \A d \in Documents : d.chunks \in Seq(Chunks)
  /\ \A cs \in Chunkings : cs \in Seq(Chunks)
<1>1. ASSUME NEW d \in Documents PROVE d.chunks \in Seq(Chunks)
  <2>1. d.chunks \in Seq(Range(d.chunks)) /\ Range(d.chunks) \subseteq Chunks
    BY RetrievalAssumption DEF Chunks
  <2>2. QED
    BY <2>1
<1>2. ASSUME NEW cs \in Chunkings PROVE cs \in Seq(Chunks)
  <2>1. cs \in Seq(Range(cs)) /\ Range(cs) \subseteq Chunks
    BY RetrievalAssumption DEF Chunks
  <2>2. QED
    BY <2>1
<1>3. QED
  BY <1>1, <1>2

LEMMA StartBuilds ==
  ASSUME Inv, NEW chunks \in Seq(Chunks), NEW for \in Loaded \cup {None},
         StartBuild(chunks, for)
  PROVE  Inv'
<1>1. pending' = BuildOf(chunks, chunks, {}, for)
  BY DEF StartBuild, BuildOf
<1>2. /\ pending'.chunks = chunks /\ pending'.rest = chunks
      /\ pending'.rows = {} /\ pending'.base = for
  BY <1>1 DEF BuildOf
<1>3. Done' = 0 /\ Len(chunks) \in Nat /\ DOMAIN chunks = 1..Len(chunks)
  BY <1>2 DEF Done
<1>4. pending'.rows = {pending'.chunks[i] : i \in 1..Done'}
  BY <1>2, <1>3
<1>5. Building'
  <2>1. pending' = BuildOf(pending'.chunks, pending'.rest, pending'.rows, pending'.base)
    BY <1>1, <1>2
  <2>2. \A i \in DOMAIN pending'.rest : pending'.rest[i] = pending'.chunks[Done' + i]
    BY <1>2, <1>3
  <2>3. pending'.base \in Loaded' \cup {None}
    BY <1>2 DEF Loaded
  <2>4. /\ pending'.chunks \in Seq(Chunks) /\ pending'.rest \in Seq(Chunks)
        /\ Len(pending'.rest) <= Len(pending'.chunks)
    BY <1>2, <1>3
  <2>5. IsFiniteSet(pending'.rows) /\ pending'.rows = {}
    BY <1>2, FS_EmptySet
  <2>6. QED
    BY <2>1, <2>2, <2>3, <2>4, <2>5, <1>4 DEF Building
<1>6. QED
  BY <1>5 DEF StartBuild, Inv, IndexIsWhole

LEMMA IndexesChunks == ASSUME Inv, IndexChunk PROVE Inv'
<1> DEFINE c == Head(pending.rest)
<1>1. /\ Building /\ pending.rest # << >>
      /\ \A r \in pending.rows : r.id # c.id
      /\ UNCHANGED <<store, base, run, pc>> /\ pc = "build"
  BY DEF IndexChunk, Buildable, Inv
<1>2. pending' = BuildOf(pending.chunks, Tail(pending.rest), pending.rows \cup {c}, pending.base)
  BY <1>1 DEF IndexChunk, Building, BuildOf
<1>3. /\ pending'.chunks = pending.chunks /\ pending'.rest = Tail(pending.rest)
      /\ pending'.rows = pending.rows \cup {c} /\ pending'.base = pending.base
  BY <1>2 DEF BuildOf
<1>4. /\ Tail(pending.rest) \in Seq(Chunks)
      /\ Len(Tail(pending.rest)) = Len(pending.rest) - 1
      /\ \A i \in DOMAIN Tail(pending.rest) : Tail(pending.rest)[i] = pending.rest[i + 1]
      /\ \A i \in DOMAIN Tail(pending.rest) : i + 1 \in DOMAIN pending.rest
      /\ c = pending.rest[1] /\ 1 \in DOMAIN pending.rest
  BY <1>1 DEF Building
<1>5. Done' = Done + 1 /\ Done \in Nat /\ c = pending.chunks[Done + 1]
  <2>1. /\ Len(pending.chunks) \in Nat /\ Len(pending.rest) \in Nat
        /\ Len(pending.rest) <= Len(pending.chunks)
        /\ Len(pending'.rest) = Len(pending.rest) - 1
    BY <1>1, <1>3, <1>4 DEF Building
  <2>2. Done' = Done + 1 /\ Done \in Nat
    BY <2>1, <1>3 DEF Done
  <2>3. pending.rest[1] = pending.chunks[Done + 1]
    BY <1>1, <1>4 DEF Building
  <2>4. QED
    BY <1>4, <2>2, <2>3
<1>6. pending.rows \cup {c} = {pending.chunks[i] : i \in 1..(Done + 1)}
  BY <1>1, <1>5 DEF Building
<1>7. \A i \in DOMAIN Tail(pending.rest) :
        Tail(pending.rest)[i] = pending.chunks[Done + 1 + i]
  <2> TAKE i \in DOMAIN Tail(pending.rest)
  <2>1. i \in Nat /\ pending.rest[i + 1] = pending.chunks[Done + (i + 1)]
    BY <1>1, <1>4 DEF Building
  <2>2. Done + (i + 1) = Done + 1 + i
    BY <2>1, <1>5
  <2>3. QED
    BY <1>4, <2>1, <2>2
<1>8. \A b, d \in pending.rows \cup {c} : b.id = d.id => b = d
  BY <1>1 DEF Building
<1>9. Building'
  <2>1. pending' = BuildOf(pending'.chunks, pending'.rest, pending'.rows, pending'.base)
    BY <1>2, <1>3
  <2>2. Len(pending'.rest) <= Len(pending'.chunks) /\ pending'.base \in Loaded \cup {None}
        /\ pending'.chunks \in Seq(Chunks) /\ pending'.rest \in Seq(Chunks)
    BY <1>1, <1>3, <1>4 DEF Building
  <2>3. pending'.rows = {pending'.chunks[i] : i \in 1..Done'}
    BY <1>3, <1>5, <1>6
  <2>4. \A i \in DOMAIN pending'.rest : pending'.rest[i] = pending'.chunks[Done' + i]
    BY <1>3, <1>5, <1>7
  <2>5. IsFiniteSet(pending'.rows) /\ pending'.rows \subseteq Chunks
    <3>1. IsFiniteSet(pending.rows \cup {c})
      BY <1>1, FS_AddElement DEF Building
    <3>2. c \in Chunks /\ pending.rows \subseteq Chunks
      BY <1>1, <1>4 DEF Building
    <3>3. QED
      BY <1>3, <3>1, <3>2
  <2>6. QED
    BY <2>1, <2>2, <2>3, <2>4, <2>5, <1>3, <1>8, (Loaded \cup {None})' = Loaded \cup {None}
    DEF Building
<1>10. QED
  BY <1>1, <1>9 DEF Inv, IndexIsWhole

LEMMA FinishesBuild == ASSUME Inv, FinishBuild PROVE Inv'
<1>1. pc = "build" /\ Building
  BY DEF FinishBuild, Inv
<1>2. store' = [rows |-> pending.rows, chunkSet |-> pending.rows, index |-> pending.rows]
  BY DEF FinishBuild
<1>3. IndexIsWhole'
  BY <1>1, <1>2 DEF IndexIsWhole, Building
<1>4. QED
  BY <1>1, <1>3 DEF FinishBuild, Inv, Building

LEMMA CallsTool == ASSUME Inv, CallTool PROVE Inv'
<1>1. pc = "asked" /\ Answering /\ pc' = "called" /\ UNCHANGED <<store, base, pending>>
  BY DEF CallTool, Inv
<1>2. PICK call \in Calls \cup {ScriptedCall(run.question)} :
        run' = [run EXCEPT !.call = call, !.result = Execute(call, run.similar)]
  BY DEF CallTool
<1>3. run' = RunOf(run.question, run.similar, call, Execute(call, run.similar), run.answer)
  BY <1>1, <1>2 DEF Answering, RunOf
<1>4. /\ run' = RunOf(run'.question, run'.similar, run'.call, run'.result, run'.answer)
      /\ run'.similar = run.similar /\ run'.call = call
      /\ run'.result = Execute(call, run.similar)
  BY <1>3 DEF RunOf
<1>5. Execute(run.call, run.similar)' = Execute(call, run.similar)
  BY <1>1, <1>4 DEF Execute, Accepted, SameChunks, Search, Candidates, Failure
<1>6. (run.result = Execute(run.call, run.similar))'
  BY <1>4, <1>5
<1>7. Answering'
  BY <1>1, <1>4, <1>6 DEF Answering
<1>8. QED
  BY <1>1, <1>7 DEF Inv, IndexIsWhole

LEMMA Answers == ASSUME Inv, Answer PROVE Inv'
<1>1. /\ pc = "called" /\ Answering /\ pc' = "answered" /\ UNCHANGED <<store, base, pending>>
      /\ run.call = ScriptedCall(run.question)
  BY DEF Answer, Inv
<1>2. run' = [run EXCEPT !.answer = Reply]
  BY DEF Answer, Reply
<1>3. run' = RunOf(run.question, run.similar, run.call, run.result, Reply)
  BY <1>1, <1>2 DEF Answering, RunOf
<1>4. /\ run' = RunOf(run'.question, run'.similar, run'.call, run'.result, run'.answer)
      /\ run'.question = run.question /\ run'.similar = run.similar
      /\ run'.call = run.call /\ run'.result = run.result /\ run'.answer = Reply
  BY <1>3 DEF RunOf
<1>5. Reply = Reply'
  BY <1>4 DEF Reply, HasEvidence, Quoted, Abstention
<1>6. Execute(run.call, run.similar) = Execute(run.call, run.similar)'
  BY <1>1, <1>4 DEF Execute, Accepted, SameChunks, Search, Candidates, Failure
<1>7. Answering'
  BY <1>1, <1>4, <1>5, <1>6 DEF Answering
<1>8. QED
  BY <1>1, <1>7 DEF Inv, IndexIsWhole

LEMMA InvNext == Inv /\ [Next]_vars => Inv'
<1> SUFFICES ASSUME Inv, [Next]_vars PROVE Inv'
  OBVIOUS
<1>1. ASSUME NEW d \in Documents, Compose(d) PROVE Inv'
  BY <1>1, StartBuilds, ListsOfChunks DEF Compose, Loaded
<1>2. ASSUME NEW chunks \in Chunkings, Rebuild(chunks) PROVE Inv'
  BY <1>2, StartBuilds, ListsOfChunks DEF Rebuild, Inv
<1>3. CASE IndexChunk
  BY <1>3, IndexesChunks
<1>4. CASE FailBuild
  BY <1>4 DEF FailBuild, Inv, IndexIsWhole
<1>5. CASE FinishBuild
  BY <1>5, FinishesBuild
<1>6. ASSUME NEW question \in Questions, Ask(question) PROVE Inv'
  <2>1. PICK similar \in [store.rows -> Scores] :
          run' = RunOf(question, similar, None, None, None)
    BY <1>6 DEF Ask, RunOf
  <2>2. Answering'
    BY <1>6, <2>1 DEF Ask, Answering, RunOf
  <2>3. QED
    BY <1>6, <2>2 DEF Ask, Inv, IndexIsWhole
<1>7. CASE CallTool
  BY <1>7, CallsTool
<1>8. CASE Answer
  BY <1>8, Answers
<1>9. CASE Leave
  BY <1>9 DEF Leave, Inv, IndexIsWhole
<1>10. CASE UNCHANGED vars
  <2>1. Building => Building'
    BY <1>10 DEF vars, Building, Done, Loaded
  <2>2. Execute(run.call, run.similar)' = Execute(run.call, run.similar) /\ Reply' = Reply
    BY <1>10 DEF vars, Reply, HasEvidence, Quoted, Abstention, Execute, Accepted,
       SameChunks, Search, Candidates, Failure
  <2>3. Answering => Answering'
    BY <1>10, <2>2 DEF vars, Answering
  <2>4. QED
    BY <1>10, <2>1, <2>3 DEF vars, Inv, IndexIsWhole
<1>11. QED
  BY <1>1, <1>2, <1>3, <1>4, <1>5, <1>6, <1>7, <1>8, <1>9, <1>10 DEF Next

LEMMA Invariance == Spec => []Inv
BY InvInit, InvNext, PTL DEF Spec

-----------------------------------------------------------------------------
(* Rows and digests of an index belong together, and no two rows share an  *)
(* id, whatever it was built with and wherever a build failed.             *)
THEOREM IndexStaysWhole == Spec => []IndexIsWhole
<1>1. Inv => IndexIsWhole
  BY DEF Inv
<1>2. QED
  BY <1>1, Invariance, PTL

LEMMA HitsAreRows ==
  \A words, topK, similar : \A h \in Search(words, topK, similar) :
    h.chunk \in Candidates(words, similar) /\ h.chunk \in store.rows
<1> SUFFICES ASSUME NEW words, NEW topK, NEW similar, NEW h \in Search(words, topK, similar)
             PROVE  h.chunk \in Candidates(words, similar) /\ h.chunk \in store.rows
  OBVIOUS
<1>1. Candidates(words, similar) \subseteq store.rows
  BY DEF Candidates
<1>2. h.chunk \in Candidates(words, similar)
  BY DEF Search
<1>3. QED
  BY <1>1, <1>2

(* What the tool returns comes from the corpus its result names, and the   *)
(* loader has accepted that corpus and each of its chunks.                 *)
THEOREM AnswersKeepToTheirCorpus == Spec => []AnswersComeFromOneCorpus
<1>1. ASSUME Inv PROVE AnswersComeFromOneCorpus
  <2> SUFFICES ASSUME run # None, run.result # None, run.result.ok
               PROVE  /\ run.result.corpus # None
                      /\ \A h \in run.result.hits :
                           /\ h.chunk \in Range(run.result.corpus.chunks)
                           /\ h.chunk.source \in Labels /\ ~h.chunk.unsafe
    BY DEF AnswersComeFromOneCorpus
  <2>1. pc \in {"called", "answered"} /\ run.result = Execute(run.call, run.similar)
    BY <1>1 DEF Inv, Answering
  <2>2. Accepted(run.call)
    BY <2>1 DEF Execute, Failure
  <2>3. /\ run.result.corpus = base
        /\ run.result.hits = Search(Bounded(run.call.query), run.call.topK, run.similar)
    BY <2>1, <2>2 DEF Execute
  <2>4. base \in Loaded /\ base # None /\ store.rows = Range(base.chunks)
    BY <1>1, <2>2 DEF Inv, Accepted, SameChunks, IndexIsWhole
  <2>5. \A h \in run.result.hits : h.chunk \in Range(base.chunks)
    BY <2>3, <2>4, HitsAreRows
  <2>6. \A d \in Loaded : \A c \in Range(d.chunks) : c.source \in Labels /\ ~c.unsafe
    BY DEF Loaded, Loads, ParsesChunk
  <2>7. QED
    BY <2>3, <2>4, <2>5, <2>6
<1>2. QED
  BY <1>1, Invariance, PTL

-----------------------------------------------------------------------------
(* No two chunks of an accepted corpus share an id.                        *)
LEMMA IdsAreDistinct ==
  ASSUME NEW d \in Loaded, NEW i \in DOMAIN d.chunks, NEW j \in DOMAIN d.chunks,
         d.chunks[i].id = d.chunks[j].id
  PROVE  i = j
<1> DEFINE n == Len(d.chunks)
           ids == Ids(d.chunks)
<1>1. d.chunks \in Seq(Chunks) /\ n \in Nat /\ DOMAIN d.chunks = 1..n
  BY ListsOfChunks DEF Loaded
<1>2. ids \in Seq(Range(ids)) /\ Len(ids) = n /\ DOMAIN ids = 1..n
  BY <1>1 DEF Ids, Range
<1>3. Cardinality(Range(ids)) = n
  BY <1>2 DEF Loaded, Loads, DistinctIds, AllDistinct
<1>4. ids \in Surjection(1..n, Range(ids))
  BY <1>2 DEF Surjection, Range
<1>5. IsFiniteSet(1..n) /\ Cardinality(1..n) = n
  BY <1>1, FS_Interval
<1>6. ids \in Injection(1..n, Range(ids))
  <2> HIDE DEF n, ids
  <2>1. QED
    BY <1>3, <1>4, <1>5, FS_Surjection
<1>7. ids[i] = ids[j]
  BY DEF Ids
<1>8. QED
  BY <1>1, <1>6, <1>7 DEF Injection, IsInjective

LEMMA LoadedCorporaAreBuildable ==
  ASSUME Inv, pc = "build", pending.base # None, pending.chunks = pending.base.chunks
  PROVE  Buildable
<1> DEFINE d == pending.base
           c == Head(pending.rest)
<1>1. Building /\ d \in Loaded
  BY DEF Inv, Building
<1>2. Len(pending.chunks) <= MaxChunks
  BY <1>1 DEF Loaded, Loads
<1>3. ASSUME pending.rest # << >>
      PROVE  c.text # {} /\ \A r \in pending.rows : r.id # c.id
  <2>1. /\ Len(pending.chunks) \in Nat /\ Len(pending.rest) \in Nat \ {0}
        /\ Len(pending.rest) <= Len(pending.chunks)
        /\ DOMAIN pending.chunks = 1..Len(pending.chunks)
        /\ c = pending.rest[1] /\ 1 \in DOMAIN pending.rest
    BY <1>1, <1>3 DEF Building
  <2>2. c = pending.chunks[Done + 1]
    BY <1>1, <2>1 DEF Building
  <2>3. Done \in Nat /\ Done + 1 \in DOMAIN d.chunks /\ 1..Done \subseteq DOMAIN d.chunks
    <3>1. \A m, l \in Nat : l # 0 /\ l <= m => m - l \in Nat /\ (m - l) + 1 \in 1..m
      OBVIOUS
    <3>2. Done \in Nat /\ Done + 1 \in 1..Len(pending.chunks)
      BY <2>1, <3>1, Zenon DEF Done
    <3>3. DOMAIN d.chunks = 1..Len(pending.chunks)
      BY <2>1
    <3>4. QED
      BY <2>1, <3>2, <3>3
  <2>4. c \in Range(d.chunks)
    BY <2>2, <2>3 DEF Range
  <2>5. c.text # {}
    BY <1>1, <2>4 DEF Loaded, Loads, ParsesChunk
  <2>6. \A i \in 1..Done : pending.chunks[i].id # c.id
    BY <1>1, <2>2, <2>3, IdsAreDistinct
  <2>7. QED
    BY <1>1, <2>5, <2>6 DEF Building
<1>4. QED
  BY <1>2, <1>3 DEF Buildable

LEMMA DeclaredQueriesAreWhole ==
  ASSUME NEW d \in Loaded, NEW q \in Range(Declared(d))
  PROVE  Bounded(q.words) = q.words /\ q.expected \in {c.id : c \in Range(d.chunks)}
<1>1. q.words \in Seq(Range(q.words)) /\ Len(q.words) <= MaxQuery /\ Len(q.words) \in Nat
  <2>1. d \in Documents /\ (\A r \in Range(Declared(d)) : ParsesQuery(r.words))
    BY Zenon DEF Loaded, Loads
  <2>2. \A e \in Documents : \A r \in Range(Declared(e)) : r.words \in Seq(Range(r.words))
    BY RetrievalAssumption, Zenon DEF Declared
  <2>3. q.words \in Seq(Range(q.words)) /\ Len(q.words) <= MaxQuery
    BY <2>1, <2>2, Zenon DEF ParsesQuery
  <2>4. QED
    BY <2>3
<1>2. (IF Len(q.words) < MaxQuery THEN Len(q.words) ELSE MaxQuery) = Len(q.words)
  BY <1>1, RetrievalAssumption
<1>3. Bounded(q.words) = SubSeq(q.words, 1, Len(q.words))
  BY <1>2 DEF Bounded
<1>4. SubSeq(q.words, 1, Len(q.words)) = q.words
  BY <1>1
<1>5. q.expected \in Range(Ids(d.chunks))
  BY DEF Loaded, Loads
<1>6. QED
  BY <1>3, <1>4, <1>5 DEF Range, Ids

(* What the loader accepts is never refused by the index, and each query   *)
(* it declares is asked whole and finds its chunk in the index.            *)
THEOREM LoadedCorporaStayUsable == Spec => []LoadedCorporaAreUsable
<1>1. ASSUME Inv PROVE LoadedCorporaAreUsable
  <2>1. ASSUME SameChunks, NEW q \in Range(Declared(base))
        PROVE  Bounded(q.words) = q.words /\ \E c \in store.rows : c.id = q.expected
    <3>1. base \in Loaded /\ store.rows = Range(base.chunks)
      BY <1>1, <2>1 DEF Inv, SameChunks, IndexIsWhole
    <3>2. QED
      BY <3>1, DeclaredQueriesAreWhole
  <2>2. QED
    BY <1>1, <2>1, LoadedCorporaAreBuildable DEF LoadedCorporaAreUsable
<1>2. QED
  BY <1>1, Invariance, PTL

-----------------------------------------------------------------------------
(* Candidates that are told apart by their ids are ranked strictly: each   *)
(* has a rank of its own, and no rank up to their number is free.          *)
Rankable(from, similar) ==
  /\ IsFiniteSet(from)
  /\ \A c \in from : similar[c] \in Int /\ c.doc \in Int /\ c.id \in Int
  /\ \A b, c \in from : b.id = c.id => b = c

LEMMA BeforeIsAnOrder ==
  ASSUME NEW from, NEW similar, Rankable(from, similar),
         NEW a \in from, NEW b \in from, NEW c \in from
  PROVE  /\ ~Before(a, a, similar)
         /\ Before(a, b, similar) /\ Before(b, c, similar) => Before(a, c, similar)
         /\ a # b => Before(a, b, similar) \/ Before(b, a, similar)
<1>1. /\ similar[a] \in Int /\ similar[b] \in Int /\ similar[c] \in Int
      /\ a.doc \in Int /\ b.doc \in Int /\ c.doc \in Int
      /\ a.id \in Int /\ b.id \in Int /\ c.id \in Int
      /\ a # b => a.id # b.id
  BY DEF Rankable
<1>2. QED
  BY <1>1 DEF Before

LEMMA RanksAreInRange ==
  ASSUME NEW from, NEW similar, Rankable(from, similar), NEW c \in from
  PROVE  CiteIndex(c, from, similar) \in 1..Cardinality(from)
<1> DEFINE better == {b \in from : Before(b, c, similar)}
<1>1. better \in SUBSET (from \ {c})
  BY BeforeIsAnOrder
<1>2. /\ IsFiniteSet(from \ {c}) /\ Cardinality(from \ {c}) = Cardinality(from) - 1
      /\ Cardinality(from) \in Nat
  BY FS_RemoveElement, FS_CardinalityType DEF Rankable
<1>3. Cardinality(better) \in Nat /\ Cardinality(better) <= Cardinality(from \ {c})
  <2> HIDE DEF better
  <2>1. QED
    BY <1>1, <1>2, FS_Subset, FS_CardinalityType
<1>4. CiteIndex(c, from, similar) = 1 + Cardinality(better)
  BY DEF CiteIndex
<1>5. QED
  <2> HIDE DEF better
  <2>1. QED
    BY <1>2, <1>3, <1>4

LEMMA BetterRanksAreSmaller ==
  ASSUME NEW from, NEW similar, Rankable(from, similar),
         NEW a \in from, NEW c \in from, Before(a, c, similar)
  PROVE  CiteIndex(a, from, similar) < CiteIndex(c, from, similar)
<1> DEFINE below(x) == {b \in from : Before(b, x, similar)}
<1>1. below(a) \in SUBSET below(c) /\ a \in below(c) /\ a \notin below(a)
  BY BeforeIsAnOrder
<1>2. IsFiniteSet(below(c)) /\ IsFiniteSet(below(a))
  <2>1. below(c) \in SUBSET from /\ below(a) \in SUBSET from
    OBVIOUS
  <2>2. QED
    BY <2>1, FS_Subset DEF Rankable
<1>3. /\ CiteIndex(a, from, similar) = 1 + Cardinality(below(a))
      /\ CiteIndex(c, from, similar) = 1 + Cardinality(below(c))
  BY DEF CiteIndex
<1>4. QED
  <2> HIDE DEF below
  <2>1. /\ Cardinality(below(a)) \in Nat /\ Cardinality(below(c)) \in Nat
        /\ Cardinality(below(a)) <= Cardinality(below(c))
        /\ Cardinality(below(a)) # Cardinality(below(c))
    BY <1>1, <1>2, FS_Subset, FS_CardinalityType
  <2>2. QED
    BY <1>3, <2>1

LEMMA RanksDiffer ==
  ASSUME NEW from, NEW similar, Rankable(from, similar), NEW a \in from, NEW b \in from,
         CiteIndex(a, from, similar) = CiteIndex(b, from, similar)
  PROVE  a = b
<1>1. Cardinality(from) \in Nat
  BY FS_CardinalityType DEF Rankable
<1>2. ~Before(a, b, similar) /\ ~Before(b, a, similar)
  BY <1>1, RanksAreInRange, BetterRanksAreSmaller
<1>3. QED
  BY <1>2, BeforeIsAnOrder

LEMMA EveryRankIsTaken ==
  ASSUME NEW from, NEW similar, Rankable(from, similar),
         NEW k \in 1..Cardinality(from)
  PROVE  \E c \in from : CiteIndex(c, from, similar) = k
<1> DEFINE n == Cardinality(from)
           rank == [c \in from |-> CiteIndex(c, from, similar)]
<1>1. n \in Nat /\ IsFiniteSet(1..n) /\ Cardinality(1..n) = n
  <2>1. n \in Nat
    BY FS_CardinalityType DEF Rankable
  <2>2. QED
    BY <2>1, FS_Interval
<1>2. rank \in [from -> 1..n]
  BY RanksAreInRange
<1>3. \A a, b \in from : rank[a] = rank[b] => a = b
  BY RanksDiffer
<1>4. rank \in Injection(from, 1..n)
  BY <1>2, <1>3 DEF Injection, IsInjective
<1>5. rank \in Surjection(from, 1..n)
  <2> HIDE DEF rank, n
  <2>1. Cardinality(from) = n
    BY DEF n
  <2>2. QED
    BY <1>1, <1>4, <2>1, FS_Injection
<1>6. PICK c \in from : rank[c] = k
  BY <1>5 DEF Surjection
<1>7. QED
  BY <1>6

LEMMA CandidatesAreRankable ==
  ASSUME Inv, NEW words, NEW similar \in [store.rows -> Scores]
  PROVE  Rankable(Candidates(words, similar), similar)
<1> DEFINE found == Candidates(words, similar)
<1>1. found \in SUBSET store.rows
  BY DEF Candidates
<1> HIDE DEF found
<1>2. IsFiniteSet(found)
  BY <1>1, FS_Subset DEF Inv
<1>3. \A c \in found : similar[c] \in Int
  BY <1>1, RetrievalAssumption
<1>4. \A c \in Chunks : c.doc \in Int /\ c.id \in Int
  BY RetrievalAssumption DEF Chunks
<1>5. QED
  BY <1>1, <1>2, <1>3, <1>4 DEF Inv, IndexIsWhole, Rankable, found

(* The hits of a search are its best candidates, numbered from 1.          *)
Ranks(hits, found, topK, similar) ==
  /\ {h.cite : h \in hits} = 1..Cardinality(hits)
  /\ Cardinality(hits) = IF Cardinality(found) < topK THEN Cardinality(found) ELSE topK
  /\ \A h \in hits, c \in found :
       similar[c] > h.score => \E g \in hits : g.chunk = c /\ g.cite < h.cite

LEMMA SearchRanks ==
  ASSUME Inv, NEW words, NEW topK \in Nat, NEW similar \in [store.rows -> Scores]
  PROVE  Ranks(Search(words, topK, similar), Candidates(words, similar), topK, similar)
<1> DEFINE hits == Search(words, topK, similar)
           found == Candidates(words, similar)
           m == IF Cardinality(found) < topK THEN Cardinality(found) ELSE topK
           rank(c) == CiteIndex(c, found, similar)
           hit(c) == [chunk |-> c, score |-> similar[c], cite |-> rank(c)]
<1> HIDE DEF hits, found, m
<1>1. Rankable(found, similar) /\ Cardinality(found) \in Nat
  BY CandidatesAreRankable, FS_CardinalityType DEF Rankable, found
<1>2. m \in Nat /\ \A k \in Int : k \in 1..m <=> k \in 1..Cardinality(found) /\ k <= topK
  BY <1>1 DEF m
<1>3. /\ \A h \in hits : h.chunk \in found /\ h = hit(h.chunk) /\ rank(h.chunk) <= topK
      /\ \A c \in found : rank(c) <= topK => hit(c) \in hits
  BY DEF Search, hits, found
<1>4. \A c \in found : rank(c) \in 1..Cardinality(found)
  BY <1>1, RanksAreInRange
<1>5. /\ \A h \in hits : h.cite = rank(h.chunk) /\ h.cite \in 1..m
      /\ \A h \in hits : h.score = similar[h.chunk]
  <2>1. \A h \in hits : h.cite = rank(h.chunk) /\ h.score = similar[h.chunk]
    BY <1>3
  <2>2. QED
    BY <1>2, <1>3, <1>4, <2>1
<1>6. {h.cite : h \in hits} = 1..m
  <2>1. ASSUME NEW k \in 1..m PROVE \E h \in hits : h.cite = k
    <3>1. k \in 1..Cardinality(found) /\ k <= topK
      BY <1>2
    <3>2. PICK c \in found : rank(c) = k
      BY <1>1, <3>1, EveryRankIsTaken
    <3>3. hit(c) \in hits /\ hit(c).cite = k
      BY <1>3, <3>1, <3>2
    <3>4. QED
      BY <3>3
  <2>2. QED
    BY <1>5, <2>1
<1>7. Cardinality(hits) = m
  <2> DEFINE cites == [h \in hits |-> h.cite]
  <2>1. cites \in Surjection(hits, 1..m)
    BY <1>5, <1>6 DEF Surjection
  <2>2. ASSUME NEW g \in hits, NEW h \in hits, cites[g] = cites[h] PROVE g = h
    <3>1. g.chunk = h.chunk
      BY <1>1, <1>3, <1>5, <2>2, RanksDiffer
    <3>2. QED
      BY <1>3, <3>1
  <2>3. cites \in Injection(hits, 1..m)
    BY <2>1, <2>2 DEF Surjection, Injection, IsInjective
  <2>4. IsFiniteSet(1..m) /\ Cardinality(1..m) = m
    BY <1>2, FS_Interval
  <2>5. QED
    <3> HIDE DEF cites
    <3>1. QED
      BY <2>1, <2>3, <2>4, FS_Injection
<1>8. ASSUME NEW h \in hits, NEW c \in found, similar[c] > h.score
      PROVE  \E g \in hits : g.chunk = c /\ g.cite < h.cite
  <2>1. Before(c, h.chunk, similar)
    BY <1>5, <1>8 DEF Before
  <2>2. rank(c) < h.cite
    BY <1>1, <1>3, <1>5, <2>1, BetterRanksAreSmaller
  <2>3. rank(c) <= topK
    BY <1>2, <1>4, <1>5, <2>2
  <2>4. hit(c) \in hits /\ hit(c).chunk = c /\ hit(c).cite = rank(c)
    BY <1>3, <2>3
  <2>5. QED
    BY <2>2, <2>4
<1>9. {h.cite : h \in hits} = 1..Cardinality(hits)
  BY <1>6, <1>7
<1>10. QED
  BY <1>7, <1>8, <1>9 DEF Ranks, hits, found, m

LEMMA AcceptedSearches ==
  ASSUME Inv, run # None, run.result # None, run.result.ok
  PROVE  /\ Answering /\ run.call.topK \in Nat \ {0}
         /\ run.result.query = Bounded(run.call.query)
         /\ run.result.hits = Search(run.result.query, run.call.topK, run.similar)
<1>1. pc \in {"called", "answered"} /\ Answering
  BY DEF Inv, Answering
<1>2. run.result = Execute(run.call, run.similar)
  BY <1>1 DEF Answering
<1>3. Accepted(run.call)
  BY <1>2 DEF Execute, Failure
<1>4. run.call.topK \in Nat \ {0}
  BY <1>3, RetrievalAssumption DEF Accepted, ValidTopK
<1>5. QED
  BY <1>1, <1>2, <1>3, <1>4 DEF Execute

(* Hits are the best candidates, whatever top_k is, and they are numbered  *)
(* by their rank.                                                          *)
THEOREM HitsStayRanked == Spec => []HitsAreRanked
<1>1. ASSUME Inv PROVE HitsAreRanked
  <2> SUFFICES ASSUME run # None, run.result # None, run.result.ok
               PROVE  Ranks(run.result.hits, Candidates(run.result.query, run.similar),
                            run.call.topK, run.similar)
    BY DEF HitsAreRanked, Ranks
  <2>1. /\ run.call.topK \in Nat /\ run.similar \in [store.rows -> Scores]
        /\ run.result.hits = Search(run.result.query, run.call.topK, run.similar)
    BY <1>1, AcceptedSearches DEF Answering
  <2>2. QED
    BY <1>1, <2>1, SearchRanks
<1>2. QED
  BY <1>1, Invariance, PTL

(* No two hits have the same rank, and none but one is made of a chunk.     *)
LEMMA CitesDiffer ==
  ASSUME Inv, NEW words, NEW topK, NEW similar \in [store.rows -> Scores],
         NEW g \in Search(words, topK, similar), NEW h \in Search(words, topK, similar)
  PROVE  /\ g.chunk = h.chunk => g = h
         /\ g.cite = h.cite => g = h
<1> DEFINE found == Candidates(words, similar)
           rank(c) == CiteIndex(c, found, similar)
           hit(c) == [chunk |-> c, score |-> similar[c], cite |-> rank(c)]
<1> HIDE DEF found
<1>1. Rankable(found, similar)
  BY CandidatesAreRankable DEF found
<1>2. \A k \in Search(words, topK, similar) : k.chunk \in found /\ k = hit(k.chunk)
  BY DEF Search, found
<1>3. g.chunk = h.chunk => g = h
  BY <1>2
<1>4. ASSUME g.cite = h.cite PROVE g.chunk = h.chunk
  <2>1. g.cite = rank(g.chunk) /\ h.cite = rank(h.chunk)
    BY <1>2
  <2>2. QED
    BY <1>1, <1>2, <1>4, <2>1, RanksDiffer
<1>5. QED
  BY <1>3, <1>4

-----------------------------------------------------------------------------
(* A nonempty finite set of naturals has a greatest element.               *)
LEMMA Greatest ==
  ASSUME NEW S \in SUBSET Nat, S # {}, IsFiniteSet(S)
  PROVE  \E i \in S : \A j \in S : j <= i
<1> DEFINE above(i) == {j \in S : j > i}
           T == {above(i) : i \in S}
<1>1. T \subseteq FiniteSubsetsOf(S) /\ T # {}
  <2>1. T \subseteq SUBSET S /\ T # {}
    OBVIOUS
  <2>2. FiniteSubsetsOf(S) = SUBSET S
    BY FS_FiniteSubsetsOfFinite
  <2>3. QED
    BY <2>1, <2>2
<1>2. PICK X \in T : \A Y \in T : <<Y, X>> \notin StrictSubsetOrdering(S)
  <2> HIDE DEF T
  <2>1. QED
    BY <1>1, WFMin, FS_StrictSubsetOrderingWellFounded
<1>3. PICK i \in S : X = above(i)
  OBVIOUS
<1>4. ASSUME NEW j \in S, j > i PROVE FALSE
  <2>1. \A k \in S : k > j => k > i
    BY <1>4
  <2>2. above(j) \subseteq above(i) /\ j \in above(i) /\ j \notin above(j)
    <3>1. j \in Nat /\ ~(j > j)
      OBVIOUS
    <3>2. QED
      BY <1>4, <2>1, <3>1
  <2>3. <<above(j), above(i)>> \in StrictSubsetOrdering(S) /\ above(j) \in T
    BY <2>2 DEF StrictSubsetOrdering
  <2>4. QED
    BY <1>2, <1>3, <2>3
<1>5. QED
  BY <1>4

(* A list of sources in which position i bears the index i, and every      *)
(* source a title.                                                         *)
Numbered(list, n) ==
  /\ n \in Nat /\ DOMAIN list = 1..n
  /\ \A i \in 1..n : list[i].index = i /\ list[i].title # None

(* Merged into nothing, each source of such a list bears the index and the *)
(* title of its last occurrence.                                           *)
LEMMA LaterSourcesWin ==
  ASSUME NEW list, NEW n, Numbered(list, n),
         NEW file \in DOMAIN E!MergeSources(E!NoSources, list)
  PROVE  \E last \in 1..n :
           /\ list[last].identity = file
           /\ \A i \in 1..n : list[i].identity = file => i <= last
           /\ E!MergeSources(E!NoSources, list)[file].index = last
           /\ E!MergeSources(E!NoSources, list)[file].title = list[last].title
<1> DEFINE at == E!Occurrences(list, file)
           shown == E!MergeSources(E!NoSources, list)
<1>1. at = {i \in 1..n : list[i].identity = file} /\ at # {}
  <2>1. file \in E!Admitted(E!NoSources, list)
    BY DEF E!MergeSources, E!NoSources
  <2>2. file \in {s.identity : s \in E!Elements(list)}
    BY <2>1 DEF E!Admitted
  <2>3. QED
    BY <2>2 DEF E!Elements, E!Occurrences, Numbered
<1>2. at \in SUBSET Nat /\ IsFiniteSet(at)
  <2>1. IsFiniteSet(1..n) /\ at \in SUBSET (1..n)
    BY <1>1, FS_Interval DEF Numbered
  <2>2. 1..n \subseteq Nat
    BY DEF Numbered
  <2>3. IsFiniteSet(at)
    <3> HIDE DEF at
    <3>1. QED
      BY <2>1, FS_Subset
  <2>4. QED
    BY <2>1, <2>2, <2>3
<1>3. /\ E!Filled(list, file, "index") = at
      /\ E!Filled(list, file, "title") = at
  BY <1>1, RetrievalAssumption DEF E!Filled, Numbered
<1> DEFINE last == CHOOSE i \in at : \A j \in at : j <= i
<1>4. last \in at /\ \A j \in at : j <= last
  <2> HIDE DEF at
  <2>1. \E i \in at : \A j \in at : j <= i
    BY <1>1, <1>2, Greatest
  <2>2. QED
    BY <2>1
<1>5. /\ E!LastValue(list, file, "index") = list[last].index
      /\ E!LastValue(list, file, "title") = list[last].title
  BY <1>3 DEF E!LastValue
<1>6. /\ shown[file].index = E!MergedField(E!NoSources, list, file, "index")
      /\ shown[file].title = E!MergedField(E!NoSources, list, file, "title")
  BY DEF E!MergeSources, E!Fields
<1>7. /\ shown[file].index = list[last].index
      /\ shown[file].title = list[last].title
  BY <1>1, <1>3, <1>5, <1>6 DEF E!MergedField
<1>8. last \in 1..n /\ list[last].index = last /\ list[last].identity = file
  <2> HIDE DEF last
  <2>1. QED
    BY <1>1, <1>4 DEF Numbered
<1>9. QED
  <2> HIDE DEF last
  <2>1. QED
    BY <1>1, <1>4, <1>7, <1>8

(* The first source of a list is always admitted.                          *)
LEMMA FirstIsAdmitted ==
  ASSUME NEW list, NEW n, Numbered(list, n), n > 0
  PROVE  list[1].identity \in DOMAIN E!MergeSources(E!NoSources, list)
<1> DEFINE id == list[1].identity
           ids == {s.identity : s \in E!Elements(list)}
<1>1. 1 \in 1..n /\ DOMAIN E!NoSources = {}
  BY DEF Numbered, E!NoSources
<1>2. id \in ids
  BY <1>1 DEF E!Elements, Numbered
<1>3. E!FirstAt(list, id) = 1
  <2>1. /\ 1 \in E!Occurrences(list, id)
        /\ \A j \in E!Occurrences(list, id) : j \in Nat /\ 1 <= j
    BY <1>1 DEF E!Occurrences, Numbered
  <2>2. QED
    BY <2>1 DEF E!FirstAt
<1>4. ASSUME NEW other \in ids PROVE ~(E!FirstAt(list, other) < 1)
  <2> DEFINE at == E!Occurrences(list, other)
  <2>1. at \subseteq 1..n /\ at # {} /\ IsFiniteSet(at)
    <3>1. at \subseteq 1..n /\ at # {}
      BY <1>4 DEF E!Elements, E!Occurrences, Numbered
    <3>2. IsFiniteSet(1..n)
      BY FS_Interval DEF Numbered
    <3>3. QED
      BY <3>1, <3>2, FS_Subset
  <2>2. \E i \in at : \A j \in at : i <= j
    <3> DEFINE back == {n - i : i \in at}
    <3>1. back \in SUBSET Nat /\ back # {} /\ IsFiniteSet(back)
      <4>1. back \in SUBSET (0..n) /\ back # {}
        BY <2>1 DEF Numbered
      <4>2. IsFiniteSet(0..n)
        BY FS_Interval DEF Numbered
      <4>3. QED
        <5> HIDE DEF back
        <5>1. QED
          BY <4>1, <4>2, FS_Subset DEF Numbered
    <3>2. PICK k \in back : \A j \in back : j <= k
      <4> HIDE DEF back
      <4>1. QED
        BY <3>1, Greatest
    <3>3. PICK i \in at : k = n - i
      BY <3>2
    <3>4. \A j \in at : n - j <= n - i
      BY <3>2, <3>3
    <3>5. QED
      BY <2>1, <3>3, <3>4 DEF Numbered
  <2>3. E!FirstAt(list, other) \in at
    BY <2>2 DEF E!FirstAt
  <2>4. \A i \in 1..n : ~(i < 1)
    BY DEF Numbered
  <2>5. QED
    <3> HIDE DEF at
    <3>1. QED
      BY <2>1, <2>3, <2>4
<1>5. id \in E!Admitted(E!NoSources, list)
  <2> DEFINE fresh == ids \ DOMAIN E!NoSources
             earlier == {other \in fresh : E!FirstAt(list, other) < E!FirstAt(list, id)}
  <2>1. earlier = {}
    BY <1>1, <1>3, <1>4
  <2>2. Cardinality(DOMAIN E!NoSources) = 0 /\ Cardinality(earlier) = 0
    <3> HIDE DEF earlier
    <3>1. QED
      BY <1>1, <2>1, FS_EmptySet
  <2>3. Cardinality(DOMAIN E!NoSources) + Cardinality(earlier) < MaxSources
    <3> HIDE DEF earlier
    <3>1. QED
      BY <2>2, RetrievalAssumption
  <2>4. E!Admitted(E!NoSources, list) =
          {k \in fresh : Cardinality(DOMAIN E!NoSources)
             + Cardinality({other \in fresh : E!FirstAt(list, other) < E!FirstAt(list, k)})
             < MaxSources}
    BY DEF E!Admitted, E!Cardinality, Cardinality
  <2>5. id \in fresh
    BY <1>1, <1>2
  <2>6. QED
    <3> HIDE DEF fresh, id
    <3>1. QED
      BY <2>3, <2>4, <2>5
<1>6. QED
  BY <1>5 DEF E!MergeSources

(* The sources of a search that found something are numbered by its ranks.  *)
LEMMA ListedSources ==
  ASSUME Inv, NEW words, NEW topK \in Nat, NEW similar \in [store.rows -> Scores],
         NEW hits, hits = Search(words, topK, similar), hits # {},
         NEW list, list = Listed(hits), NEW n, n = Cardinality(hits)
  PROVE  /\ Numbered(list, n) /\ n > 0
         /\ \A h \in hits : h.cite \in 1..n /\ list[h.cite] = SourceOf(h)
         /\ \A i \in 1..n : \E h \in hits : h.cite = i
<1>1. /\ n \in Nat /\ {h.cite : h \in hits} = 1..n
  <2>1. Ranks(hits, Candidates(words, similar), topK, similar)
    BY SearchRanks
  <2>2. Cardinality(Candidates(words, similar)) \in Nat
    BY CandidatesAreRankable, FS_CardinalityType DEF Rankable
  <2>3. QED
    BY <2>1, <2>2 DEF Ranks
<1>2. \A g, h \in hits : g.cite = h.cite => g = h
  BY CitesDiffer
<1>3. \A h \in hits : h.chunk.title # None
  <2>1. \A h \in hits : h.chunk \in Chunks
    BY HitsAreRows DEF Inv
  <2>2. \A c \in Chunks : c.title # None
    BY RetrievalAssumption DEF Chunks
  <2>3. QED
    BY <2>1, <2>2
<1>4. list = [i \in 1..n |-> SourceOf(CHOOSE h \in hits : h.cite = i)]
  BY DEF Listed
<1>5. \A i \in 1..n : \E h \in hits : h.cite = i
  BY <1>1
<1>6. \A h \in hits : h.cite \in 1..n
  BY <1>1
<1>7. \A h \in hits : list[h.cite] = SourceOf(h)
  <2> SUFFICES ASSUME NEW h \in hits PROVE list[h.cite] = SourceOf(h)
    OBVIOUS
  <2>1. (CHOOSE g \in hits : g.cite = h.cite) = h
    BY <1>2
  <2>2. QED
    BY <1>4, <1>6, <2>1
<1>8. \A i \in 1..n : list[i].index = i /\ list[i].title # None
  <2> SUFFICES ASSUME NEW i \in 1..n PROVE list[i].index = i /\ list[i].title # None
    OBVIOUS
  <2>1. PICK h \in hits : h.cite = i
    BY <1>5
  <2>2. list[i] = SourceOf(h)
    BY <1>7, <2>1
  <2>3. QED
    BY <1>3, <2>1, <2>2 DEF SourceOf
<1>9. n > 0
  <2>1. PICK h \in hits : TRUE
    OBVIOUS
  <2>2. h.cite \in 1..n
    BY <1>6, <2>1
  <2>3. QED
    BY <1>1, <2>2
<1>10. Numbered(list, n)
  BY <1>1, <1>4, <1>8 DEF Numbered
<1>11. QED
  BY <1>5, <1>6, <1>7, <1>9, <1>10

(* An answer with evidence quotes a passage whose file the run shows; the  *)
(* source shown under the index it cites is that passage's, and is missing *)
(* exactly when a later hit of its file has taken the entry.               *)
THEOREM CitationsNameAShownSource == Spec => []CitationNamesAShownSource
<1>1. ASSUME Inv PROVE CitationNamesAShownSource
  <2> DEFINE hits == run.result.hits
             list == Listed(hits)
             n == Cardinality(hits)
             q == run.answer.quotes
             shown == Shown(run.result)
  <2> SUFFICES ASSUME pc = "answered", run.result.ok, HasEvidence(run.result)
               PROVE  /\ q # None /\ q.text # {}
                      /\ q.source \in DOMAIN shown
                      /\ \A file \in DOMAIN shown : shown[file].index = run.answer.cites =>
                           file = q.source /\ shown[file].title = q.title
                      /\ shown[q.source].index = run.answer.cites <=>
                           \A h \in hits : h.chunk.source = q.source => h.chunk = q
    BY DEF CitationNamesAShownSource
  <2>1. /\ run.call = ScriptedCall(run.question) /\ run.answer = Reply
        /\ run.result = Execute(run.call, run.similar)
        /\ run.similar \in [store.rows -> Scores]
    BY <1>1 DEF Inv, Answering
  <2>2. Accepted(run.call)
    BY <2>1 DEF Execute, Failure
  <2>3. /\ hits = Search(Bounded(run.question), DefaultTopK, run.similar)
        /\ DefaultTopK \in Nat
    BY <2>1, <2>2, RetrievalAssumption DEF Execute, ScriptedCall
  <2>4. hits # {}
    BY DEF HasEvidence
  <2>5. /\ Numbered(list, n) /\ n > 0
        /\ \A h \in hits : h.cite \in 1..n /\ list[h.cite] = SourceOf(h)
        /\ \A i \in 1..n : \E h \in hits : h.cite = i
    <3> HIDE DEF hits, list, n
    <3>1. list = Listed(hits) /\ n = Cardinality(hits)
      BY DEF list, n
    <3>2. QED
      BY <1>1, <2>1, <2>3, <2>4, <3>1, ListedSources
  <2>6. Quoted \in hits /\ Quoted.cite = 1
    <3>1. \E h \in hits : h.cite = 1
      BY <2>5 DEF Numbered
    <3>2. QED
      BY <3>1 DEF Quoted
  <2>7. \A g, h \in hits : (g.chunk = h.chunk => g = h) /\ (g.cite = h.cite => g = h)
    BY <1>1, <2>1, <2>3, CitesDiffer
  <2>8. /\ Quoted.chunk.text # {} /\ Quoted.chunk # None
    <3>1. Quoted.chunk \in store.rows
      BY <2>3, <2>6, HitsAreRows
    <3>2. base \in Loaded /\ store.rows = Range(base.chunks) /\ store.rows \subseteq Chunks
      BY <1>1, <2>2 DEF Inv, Accepted, SameChunks, IndexIsWhole
    <3>3. \A d \in Loaded : \A c \in Range(d.chunks) : c.text # {}
      BY DEF Loaded, Loads, ParsesChunk
    <3>4. \A c \in Chunks : c # None
      BY RetrievalAssumption DEF Chunks
    <3>5. QED
      BY <3>1, <3>2, <3>3, <3>4
  <2>9. run.answer = [quotes |-> Quoted.chunk, cites |-> 1]
    BY <2>1, <2>8 DEF Reply
  <2>10. q = Quoted.chunk /\ run.answer.cites = 1
    BY <2>9
  <2>11. list[1] = SourceOf(Quoted) /\ list[1].identity = q.source /\ list[1].title = q.title
    BY <2>5, <2>6, <2>10 DEF SourceOf
  <2>12. shown = E!MergeSources(E!NoSources, list)
    BY DEF Shown
  <2> HIDE DEF hits, list, n, q, shown
  <2>13. q.source \in DOMAIN shown
    BY <2>5, <2>11, <2>12, FirstIsAdmitted
  <2>14. ASSUME NEW file \in DOMAIN shown, shown[file].index = 1
         PROVE  file = q.source /\ shown[file].title = q.title
    BY <2>5, <2>11, <2>12, <2>14, LaterSourcesWin
  <2>15. PICK last \in 1..n :
           /\ list[last].identity = q.source
           /\ \A i \in 1..n : list[i].identity = q.source => i <= last
           /\ shown[q.source].index = last
    BY <2>5, <2>12, <2>13, LaterSourcesWin
  <2>16. ASSUME last = 1, NEW h \in hits, h.chunk.source = q.source
         PROVE  h.chunk = q
    <3>1. list[h.cite].identity = q.source /\ h.cite \in 1..n
      <4>1. SourceOf(h).identity = h.chunk.source
        BY DEF SourceOf
      <4>2. QED
        BY <2>5, <2>16, <4>1
    <3>2. h.cite = 1
      BY <2>5, <2>15, <2>16, <3>1 DEF Numbered
    <3>3. QED
      BY <2>6, <2>7, <2>10, <3>2
  <2>17. ASSUME \A h \in hits : h.chunk.source = q.source => h.chunk = q
         PROVE  last = 1
    <3>1. PICK h \in hits : h.cite = last
      BY <2>5
    <3>2. h.chunk.source = q.source
      <4>1. SourceOf(h).identity = h.chunk.source
        BY DEF SourceOf
      <4>2. QED
        BY <2>5, <2>15, <3>1, <4>1
    <3>3. h = Quoted
      BY <2>6, <2>7, <2>10, <2>17, <3>2
    <3>4. QED
      BY <2>6, <3>1, <3>3
  <2>18. QED
    BY <2>8, <2>10, <2>13, <2>14, <2>15, <2>16, <2>17
<1>2. QED
  BY <1>1, Invariance, PTL
=============================================================================
