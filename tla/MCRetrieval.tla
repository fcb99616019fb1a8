----------------------------- MODULE MCRetrieval -----------------------------
(***************************************************************************)
(* An instance of Retrieval for TLC: a corpus of three chunks, its next    *)
(* version, one document for each way the loader refuses, and chunk lists  *)
(* with a stranger, a double, a blank and too many.                        *)
(***************************************************************************)
EXTENDS Retrieval

MCTokens == {"cell", "photosynthesis", "photosynthetic", "glucose", "enzyme"}
MCDistinctive == MCTokens \ {"cell"}
MCExtensions == {<<"photosynthesis", "photosynthetic">>}

Chunk(doc, id, title, text) ==
  [doc |-> doc, id |-> id, title |-> title, text |-> text, source |-> "plants.md",
   unsafe |-> FALSE, bare |-> FALSE, provenance |-> None]

Leaf == Chunk(1, 1, {"leaf"}, {"photosynthetic", "glucose", "enzyme"})
Cell == Chunk(1, 2, {"cell"}, {"enzyme"})
Bare == [Chunk(2, 3, {"glucose"}, {"42"}) EXCEPT !.bare = TRUE, !.source = "facts.md"]
NewLeaf == [Leaf EXCEPT !.text = {"photosynthetic"}]
Stranger == [Chunk(2, 4, {"glucose"}, {"cell"}) EXCEPT !.source = "path"]
Tainted == [Leaf EXCEPT !.unsafe = TRUE]
Blank == [Cell EXCEPT !.text = {}]

Query(id, words, expected) == [id |-> id, words |-> words, expected |-> expected]

Good ==
  [provenance |-> "public", chunks |-> <<Cell, Bare, Leaf>>,
   queries |-> <<Query(1, <<"photosynthesis", "glucose">>, 1), Query(2, <<"cell">>, 2)>>,
   paraphrases |-> <<Query(3, <<"enzyme">>, 1)>>,
   negatives |-> << <<"leaf">> >>]
Newer == [Good EXCEPT !.chunks = <<NewLeaf, Cell>>]

MCDocuments ==
  {Good, Newer,
   [Good EXCEPT !.provenance = "private"],
   [Good EXCEPT !.chunks = << >>],
   [Good EXCEPT !.chunks = <<Leaf, Cell, Bare, Stranger>>],
   [Good EXCEPT !.chunks = <<Leaf, Cell, NewLeaf>>],
   [Good EXCEPT !.chunks = <<Tainted, Cell>>],
   [Good EXCEPT !.chunks = <<Leaf, Blank>>],
   [Good EXCEPT !.queries[1].words = <<"photosynthesis", "glucose", "enzyme", "cell">>],
   [Good EXCEPT !.queries[1].expected = 4],
   [Good EXCEPT !.queries[1].id = 3],
   [Good EXCEPT !.negatives = << <<"cell">> >>]}

MCChunkings ==
  {<<Leaf, Bare, Cell>>, <<Leaf, Cell, Bare>>, <<Leaf, Cell, Stranger>>, <<Tainted, Cell>>,
   <<Leaf, Leaf>>, <<Leaf, Blank>>, <<Leaf, Cell, Bare, Stranger>>, << >>}

MCQuestions ==
  {<<"cell">>, <<"photosynthesis", "glucose">>, << >>, <<"why">>,
   <<"photosynthesis", "glucose", "enzyme", "leaf">>}

Call(query, topK) ==
  [access |-> "read", name |-> "rag.search", extra |-> FALSE, query |-> query, topK |-> topK]

MCCalls ==
  LET good == Call(<<"enzyme", "glucose", "photosynthesis">>, 1)
  IN  {good, [good EXCEPT !.topK = 2], [good EXCEPT !.topK = 0], [good EXCEPT !.topK = 4],
       [good EXCEPT !.query = None], [good EXCEPT !.extra = TRUE],
       [good EXCEPT !.access = "write"], [good EXCEPT !.name = "quiz.save"]}
=============================================================================
