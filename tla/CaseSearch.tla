----------------------------- MODULE CaseSearch -----------------------------
(***************************************************************************)
(* What search_dataset of the case library makes of the records its index  *)
(* finds: unrelated ones are dropped, the rest grouped by document, and    *)
(* the best documents shown chunk by chunk, with what stands around a      *)
(* chunk when not all of them can be shown.                                *)
(*                                                                         *)
(* A record found is [doc, chunk, score, text]; chunk 0 is the document's  *)
(* summary, and NoDocument a record without a document.  The library is a  *)
(* function from documents to their chunks, [text, lines], none when the   *)
(* document is gone.  Scores are in thousandths.                           *)
(***************************************************************************)
EXTENDS SearchTerms

NoDocument == "no document"
Summary == 0
MIN_RELEVANCE_SCORE == 450
COMPETITIVE_DOCUMENT_MIN_SCORE_RATIO == 85

(* group_retrieval_results_by_document, competitive_document_hits.         *)
Highest(S) == CHOOSE x \in S : \A y \in S : y <= x
DocumentHit(found, d) ==
  LET its == {k \in DOMAIN found : found[k].doc = d}
      chunks == {found[k].chunk : k \in its} \ {Summary}
  IN  [doc |-> d, best |-> Highest({found[k].score : k \in its}),
       rank |-> CHOOSE k \in its : \A j \in its : k <= j,
       scores |-> [c \in chunks |-> Highest({found[k].score : k \in {j \in its : found[j].chunk = c}})]]
GroupByDocument(found) ==
  SetToSortSeq({DocumentHit(found, d) : d \in {found[k].doc : k \in DOMAIN found} \ {NoDocument}},
               LAMBDA g, h : g.best > h.best \/ (g.best = h.best /\ g.rank < h.rank))
CompetitiveHits(hits) ==
  LET best == Highest({0} \cup {hits[k].best : k \in DOMAIN hits})
  IN  SelectSeq(hits, LAMBDA h : best = 0 \/ 100 * h.best >= COMPETITIVE_DOCUMENT_MIN_SCORE_RATIO * best)

(* chunk_structure_score, ranked_chunk_indices: in two-thousandths, times  *)
(* the number of terms asked for.                                          *)
Lower(x, y) == IF x < y THEN x ELSE y
StructureScore(chunk) ==
  LET terms == RetrievalTerms(chunk.text)
  IN  IF terms = {} THEN 0
      ELSE Lower(800, Lower(500, 25 * Cardinality(terms))
                        + (IF \E t \in terms : Identifier(t) THEN 160 ELSE 0)
                        + (IF VersionTerms(chunk.text) # {} THEN 160 ELSE 0)
                        + (IF chunk.lines > 1 THEN 80 ELSE 0))
ChunkRank(wanted, chunks, scores, k) ==
  LET overlap == Overlap(wanted, RetrievalTerms(chunks[k].text))
      raw == IF k \in DOMAIN scores THEN scores[k] ELSE 0
      intro == IF k = 1 /\ overlap > 0 THEN 100 ELSE 0
  IN  IF wanted = {} THEN 4 * raw + StructureScore(chunks[k])
      ELSE Cardinality(wanted) * (4 * raw + StructureScore(chunks[k]) + intro) + 2000 * overlap
RankedChunks(query, chunks, scores) ==
  LET rank(k) == ChunkRank(RetrievalTerms(query), chunks, scores, k)
  IN  SetToSortSeq(DOMAIN chunks, LAMBDA j, k : rank(j) > rank(k) \/ (rank(j) = rank(k) /\ j < k))
ExpandedScore(base, rank) == IF base < rank - 1 THEN 0 ELSE base - (rank - 1)

(* Mutant of Around: what was shown before is shown again.                 *)
AroundSeen(chunks, k, seen) == (k - 1 .. k + 1) \cap DOMAIN chunks

(* unseen_context_window_indices.                                          *)
Around(chunks, k, seen) == ((k - 1 .. k + 1) \cap DOMAIN chunks) \ seen

(* append_document_chunks_with_context: chunks by rank, until the answer   *)
(* is full, the document had its share, or the rank is too low.            *)
Seen(answer, d) == UNION {answer[k].window : k \in {j \in DOMAIN answer : answer[j].doc = d}}
Shown(windows, chunks, k, seen) == IF windows THEN Around(chunks, k, seen) ELSE {k}
AppendChunks(answer, hit, chunks, order, limit, ask) ==
  LET next(a, rank) ==
        LET k == order[rank]
            score == ExpandedScore(hit.best, rank)
        IN  IF Len(a.out) >= ask.topK \/ a.added >= limit THEN a
            ELSE IF k \in Seen(a.out, hit.doc) \/ score < MIN_RELEVANCE_SCORE THEN a
            ELSE [out |-> Append(a.out, [doc |-> hit.doc, chunk |-> k, score |-> score,
                            window |-> Shown(ask.windows, chunks, k, Seen(a.out, hit.doc))]),
                  added |-> a.added + 1]
      after[rank \in 0 .. Len(order)] ==
        IF rank = 0 THEN [out |-> answer, added |-> 0] ELSE next(after[rank - 1], rank)
  IN  after[Len(order)].out

(* expand_retrieved_documents, append_hit_document_chunks: one chunk of    *)
(* every document first, then all of each.                                 *)
Expand(library, query, found, topK) ==
  LET hits == CompetitiveHits(GroupByDocument(found))
      count == FoldLeft(LAMBDA n, h : n + Len(library[h.doc]), 0, hits)
      ask == [topK |-> topK, windows |-> count > topK]
      all(h) == Len(library[h.doc])
      append(answer, h, limit) ==
        AppendChunks(answer, h, library[h.doc], RankedChunks(query, library[h.doc], h.scores), limit, ask)
      firsts == FoldLeft(LAMBDA answer, h : append(answer, h, 1), <<>>, hits)
  IN  FoldLeft(LAMBDA answer, h : append(answer, h, all(h)), firsts, hits)

(* filter_low_relevance_results, search_dataset.                           *)
Relevant(found) == SelectSeq(found, LAMBDA r : r.score >= MIN_RELEVANCE_SCORE)
SearchDataset(library, query, found, topK) ==
  IF topK = 0 THEN <<>>
  ELSE Expand(library, query, Relevant(FilterUnrelated(query, found)), topK)
=============================================================================
