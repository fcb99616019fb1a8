------------------------------ MODULE Retrieval ------------------------------
(***************************************************************************)
(* retrieval/: the packaged corpus, the cosine index that is built from it *)
(* chunk by chunk, the tool rag.search over both, and the scripted planner *)
(* that quotes its first hit.  The owner of an index may build it again,   *)
(* with any chunks, while tools over it live on.                           *)
(*                                                                         *)
(* A text is the set of its words, and the digest of chunks is their set.  *)
(* How similar a question and a chunk are is a choice, made when it is     *)
(* asked: everything else about vectors is arithmetic.  The label of a     *)
(* file stands for its name without regard to case.                        *)
(***************************************************************************)
EXTENDS Integers, FiniteSets, SequencesExt

CONSTANTS
  Documents,             \* the corpus files the loader is given
  Chunkings,             \* the lists of chunks an owner builds an index with
  Questions, Calls,      \* what users ask, and the calls a model proposes
  Tokens,                \* the words that count for an overlap,
  Distinctive,           \* those of them that are long,
  Extensions,            \* and the pairs of a word and one that starts with it
  Scores, Threshold, SemanticOnly, MinOverlap,
  MinTopK, DefaultTopK, MaxTopK,
  MaxChunks, MaxText, MaxQuery, MinDeclared,
  Labels,                \* the names of files that are public labels
  MaxSources,            \* the cap on the sources of a run
  None

ASSUME RetrievalAssumption ==
  /\ Scores \subseteq Int /\ Threshold \in Int /\ SemanticOnly \in Int
  /\ Threshold < SemanticOnly
  /\ MinTopK \in Nat \ {0} /\ DefaultTopK \in MinTopK..MaxTopK /\ MaxTopK \in Nat
  /\ MinOverlap \in Nat \ {0} /\ MaxChunks \in Nat
  /\ MaxText \in Nat /\ MaxQuery \in Nat /\ MinDeclared \in Nat
  /\ None \notin Nat \cup Labels /\ MaxSources \in Nat \ {0}
  /\ \A d \in Documents :
       /\ d # None /\ d.chunks \in Seq(Range(d.chunks))
       /\ \A q \in Range(d.queries \o d.paraphrases) : q.words \in Seq(Range(q.words))
  /\ \A cs \in Chunkings : cs \in Seq(Range(cs))
  /\ \A cs \in Chunkings \cup {d.chunks : d \in Documents} :
       \A c \in Range(cs) :
         c.doc \in Int /\ c.id \in Int /\ c # None /\ c.title # None

VARIABLES
  store,    \* the rows of the index and the two digests it publishes
  base,     \* the knowledge base of the tool, or None
  pending,  \* the build that goes on
  run,      \* one question, the tool call made for it, and the answer
  pc

vars == <<store, base, pending, run, pc>>

-----------------------------------------------------------------------------
(* corpus.py                                                               *)
AllDistinct(s) == Cardinality(Range(s)) = Len(s)
Ids(s) == [i \in DOMAIN s |-> s[i].id]

ParsesChunk(c, provenance) ==
  /\ c.text # {} /\ Cardinality(c.text) <= MaxText
  /\ c.title # {}
  /\ c.source \in Labels
  /\ ~c.unsafe
  /\ c.provenance \in {None, provenance}

ParsesQuery(words) == words # << >> /\ Len(words) <= MaxQuery

DistinctIdsFault(d) == AllDistinct(d.chunks)
DistinctIds(d) == AllDistinct(Ids(d.chunks))

Declared(d) == d.queries \o d.paraphrases

Loads(d) ==
  /\ d.provenance = "public"
  /\ d.chunks # << >> /\ Len(d.chunks) <= MaxChunks
  /\ \A c \in Range(d.chunks) : ParsesChunk(c, d.provenance)
  /\ DistinctIds(d)
  /\ \A q \in Range(Declared(d)) : ParsesQuery(q.words)
  /\ Len(d.queries) >= 2 * MinDeclared
  /\ Len(d.paraphrases) >= MinDeclared
  /\ AllDistinct(Ids(Declared(d)))
  /\ \A q \in Range(Declared(d)) : q.expected \in Range(Ids(d.chunks))
  /\ \A words \in Range(d.negatives) : ParsesQuery(words)
  /\ AllDistinct(d.negatives) /\ Len(d.negatives) >= MinDeclared
  /\ {q.words : q \in Range(Declared(d))} \cap Range(d.negatives) = {}

-----------------------------------------------------------------------------
(* store.py                                                                *)
EmptyStore == [rows |-> {}, chunkSet |-> {}, index |-> {}]

Init ==
  /\ store = EmptyStore /\ base = None
  /\ pending = None /\ run = None
  /\ pc = "idle"

(* A build for a new tool, or of the index that the tool has.              *)
StartBuild(chunks, for) ==
  /\ pc = "idle"
  /\ pending' = [chunks |-> chunks, rest |-> chunks, rows |-> {}, base |-> for]
  /\ pc' = "build"
  /\ UNCHANGED <<store, base, run>>

Compose(d) == Loads(d) /\ StartBuild(d.chunks, d)
Rebuild(chunks) == StartBuild(chunks, base)

Buildable ==
  /\ Len(pending.chunks) <= MaxChunks
  /\ pending.rest # << >> =>
       LET c == Head(pending.rest)
       IN  c.text # {} /\ \A r \in pending.rows : r.id # c.id

IndexChunkFault ==
  /\ pc = "build" /\ Buildable /\ pending.rest # << >>
  /\ LET c == Head(pending.rest)
     IN  /\ pending' = [pending EXCEPT !.rest = Tail(@), !.rows = @ \cup {c}]
         /\ store' = [store EXCEPT !.rows = @ \cup {c}]
  /\ UNCHANGED <<base, run, pc>>
IndexChunk ==
  /\ pc = "build" /\ Buildable /\ pending.rest # << >>
  /\ pending' = [pending EXCEPT !.rest = Tail(@), !.rows = @ \cup {Head(pending.rest)}]
  /\ UNCHANGED <<store, base, run, pc>>

(* Refused, or the embedder failed.                                        *)
FailBuild ==
  /\ pc = "build"
  /\ ~Buildable \/ pending.rest # << >>
  /\ pending' = None
  /\ pc' = "idle"
  /\ UNCHANGED <<store, base, run>>

FinishBuild ==
  /\ pc = "build" /\ Buildable /\ pending.rest = << >>
  /\ store' = [rows |-> pending.rows, chunkSet |-> pending.rows, index |-> pending.rows]
  /\ base' = pending.base
  /\ pending' = None
  /\ pc' = "idle"
  /\ UNCHANGED run

-----------------------------------------------------------------------------
(* InMemoryCosineStore.search                                              *)
ContentTokens(words) == words \cap Tokens

Relevant(asked, c, score) ==
  LET overlap == asked \cap ContentTokens(c.title \cup c.text)
      shared == {w \in overlap : w \in Distinctive \/ w \in c.title}
      missed == {w \in (asked \cap Distinctive) \ shared :
                   \A v \in shared : <<w, v>> \notin Extensions}
  IN  /\ score >= Threshold
      /\ \/ score >= SemanticOnly
         \/ /\ Cardinality(shared) >= MinOverlap
            /\ Cardinality(asked \cap Distinctive) >= 3 => missed = {}

Candidates(words, similar) ==
  LET asked == ContentTokens(Range(words))
  IN  IF asked = {} THEN {} ELSE {c \in store.rows : Relevant(asked, c, similar[c])}

BeforeFault(b, c, similar) ==
  \/ similar[b] > similar[c]
  \/ similar[b] = similar[c] /\ b.doc < c.doc
Before(b, c, similar) ==
  \/ similar[b] > similar[c]
  \/ /\ similar[b] = similar[c]
     /\ b.doc < c.doc \/ (b.doc = c.doc /\ b.id < c.id)

CiteIndex(c, from, similar) == 1 + Cardinality({b \in from : Before(b, c, similar)})

Search(words, topK, similar) ==
  LET found == Candidates(words, similar)
  IN  {[chunk |-> c, score |-> similar[c], cite |-> CiteIndex(c, found, similar)] :
         c \in {b \in found : CiteIndex(b, found, similar) <= topK}}

-----------------------------------------------------------------------------
(* LocalVectorRagTool.execute                                              *)
Bounded(words) == SubSeq(words, 1, IF Len(words) < MaxQuery THEN Len(words) ELSE MaxQuery)
ValidTopK(k) == k \in MinTopK..MaxTopK

SameChunksFault == base # None
SameChunks == base # None /\ store.chunkSet = Range(base.chunks)

Accepted(call) ==
  /\ call.access = "read" /\ call.name = "rag.search" /\ ~call.extra
  /\ SameChunks
  /\ call.query # None
  /\ ValidTopK(call.topK)

Failure == [ok |-> FALSE, query |-> << >>, hits |-> {}, corpus |-> None]

Execute(call, similar) ==
  IF Accepted(call)
  THEN [ok |-> TRUE, query |-> Bounded(call.query), corpus |-> base,
        hits |-> Search(Bounded(call.query), call.topK, similar)]
  ELSE Failure

(* compact_tool_result: chunks with words that survive redaction.          *)
HasEvidence(result) == \E h \in result.hits : ~h.chunk.bare

-----------------------------------------------------------------------------
(* What the run shows of a result: the sources of its hits in the order of *)
(* their ranks, merged.  Compacted they carry no text, so that the hits of *)
(* one file are one source.                                                *)
E == INSTANCE Evidence WITH Sources <- {}, NoLabel <- None

SourceOf(hit) ==
  [identity |-> hit.chunk.source, file |-> hit.chunk.source,
   title |-> hit.chunk.title, index |-> hit.cite]

Listed(hits) ==
  [i \in 1..Cardinality(hits) |-> SourceOf(CHOOSE h \in hits : h.cite = i)]

Shown(result) == E!MergeSources(E!NoSources, Listed(result.hits))

-----------------------------------------------------------------------------
(* LocalVectorQuestionPlanner, and a model that calls the tool.            *)
ScriptedCall(question) ==
  [access |-> "read", name |-> "rag.search", extra |-> FALSE,
   query |-> question, topK |-> DefaultTopK]

Ask(question) ==
  /\ pc = "idle"
  /\ \E similar \in [store.rows -> Scores] :
       run' = [question |-> question, similar |-> similar,
               call |-> None, result |-> None, answer |-> None]
  /\ pc' = "asked"
  /\ UNCHANGED <<store, base, pending>>

CallTool ==
  /\ pc = "asked"
  /\ \E call \in Calls \cup {ScriptedCall(run.question)} :
       run' = [run EXCEPT !.call = call, !.result = Execute(call, run.similar)]
  /\ pc' = "called"
  /\ UNCHANGED <<store, base, pending>>

Abstention == [quotes |-> None, cites |-> 0]

QuotedFault == CHOOSE h \in run.result.hits : h.cite = Cardinality(run.result.hits)
Quoted == CHOOSE h \in run.result.hits : h.cite = 1

Answer ==
  /\ pc = "called"
  /\ run.call = ScriptedCall(run.question)
  /\ run' = [run EXCEPT !.answer =
       IF run.result.ok /\ HasEvidence(run.result) /\ Quoted.chunk.text # {}
       THEN [quotes |-> Quoted.chunk, cites |-> 1]
       ELSE Abstention]
  /\ pc' = "answered"
  /\ UNCHANGED <<store, base, pending>>

Leave ==
  /\ pc \in {"called", "answered"}
  /\ run' = None
  /\ pc' = "idle"
  /\ UNCHANGED <<store, base, pending>>

Next ==
  \/ \E d \in Documents : Compose(d)
  \/ \E chunks \in Chunkings : Rebuild(chunks)
  \/ IndexChunk \/ FailBuild \/ FinishBuild
  \/ \E question \in Questions : Ask(question)
  \/ CallTool \/ Answer \/ Leave

Spec == Init /\ [][Next]_vars

-----------------------------------------------------------------------------
Chunks == UNION ({Range(d.chunks) : d \in Documents} \cup {Range(cs) : cs \in Chunkings})
Loaded == {d \in Documents : Loads(d)}

(* The rows of an index and the digests it publishes belong together, no   *)
(* two rows share an id, and this holds also while a build runs and after  *)
(* it failed half way (store.build assigns its three fields at the end).   *)
IndexIsWhole ==
  /\ store.rows = store.chunkSet /\ store.rows = store.index
  /\ \A c, d \in store.rows : c.id = d.id => c = d

(* Whatever an index was built with since, what the tool returns comes     *)
(* from the very corpus its result names, and from nothing that the loader *)
(* would have refused to publish (rag.search: "vector index does not match *)
(* the knowledge base").                                                   *)
AnswersComeFromOneCorpus ==
  run # None /\ run.result # None /\ run.result.ok =>
    /\ run.result.corpus # None
    /\ \A h \in run.result.hits :
         /\ h.chunk \in Range(run.result.corpus.chunks)
         /\ h.chunk.source \in Labels /\ ~h.chunk.unsafe

(* The validations agree: a corpus that the loader accepts is never        *)
(* refused by the index, and a tool that answers at all can answer every   *)
(* query it declares: it is asked whole, and the chunk it expects is there. *)
LoadedCorporaAreUsable ==
  /\ pc = "build" /\ pending.base # None /\ pending.chunks = pending.base.chunks
       => Buildable
  /\ SameChunks =>
       \A q \in Range(Declared(base)) :
         /\ Bounded(q.words) = q.words
         /\ \E c \in store.rows : c.id = q.expected

(* cite_index numbers the hits from 1 by their rank, and top_k only cuts   *)
(* the list: whatever it is, the hits are the best candidates there are,   *)
(* and the gate, which asks for one, measures the hit a user is shown.     *)
HitsAreRanked ==
  run # None /\ run.result # None /\ run.result.ok =>
    LET hits == run.result.hits
        found == Candidates(run.result.query, run.similar)
        n == Cardinality(hits)
    IN  /\ {h.cite : h \in hits} = 1..n
        /\ n = IF Cardinality(found) < run.call.topK
               THEN Cardinality(found) ELSE run.call.topK
        /\ \A h \in hits, c \in found :
             run.similar[c] > h.score => \E g \in hits : g.chunk = c /\ g.cite < h.cite

(* An answer with evidence quotes a passage that is not empty, and its     *)
(* file is one of the sources the run shows.  The source that is shown     *)
(* under the index it cites, [1], is that file and bears the title of that *)
(* passage; it is missing exactly when a later hit of the same file has    *)
(* taken its entry (merge_sources writes the later index over it).         *)
CitationNamesAShownSource ==
  pc = "answered" /\ run.result.ok /\ HasEvidence(run.result) =>
    LET quoted == run.answer.quotes
        shown == Shown(run.result)
    IN  /\ quoted # None /\ quoted.text # {}
        /\ quoted.source \in DOMAIN shown
        /\ \A file \in DOMAIN shown : shown[file].index = run.answer.cites =>
             file = quoted.source /\ shown[file].title = quoted.title
        /\ shown[quoted.source].index = run.answer.cites <=>
             \A h \in run.result.hits : h.chunk.source = quoted.source => h.chunk = quoted
=============================================================================
