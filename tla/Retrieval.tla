----------------------------- MODULE Retrieval -----------------------------
(***************************************************************************)
(* How MemoryManager answers a search from its channels: dense, BM25, both *)
(* mixed, and graph; what it does when the graph or the reranker fails.    *)
(* Functions of a configuration, a store and a request, with no state.     *)
(*                                                                         *)
(* A store gives each record [scope, dense, bm25, graph, id, profile]: its *)
(* scope, the score each channel would give it, NoScore when the channel   *)
(* does not return it, a number that orders the ids, and the profile of    *)
(* its embedding.  Scores are whole numbers, compared as the fractions the *)
(* code computes; of SQLite's own, bm25, lower is better.                  *)
(***************************************************************************)
EXTENDS Integers, Sequences, FiniteSets, SequencesExt, TLC

NoScore == 1000
Least(a, b) == IF a < b THEN a ELSE b
Most(a, b) == IF a > b THEN a ELSE b

(* sort_scored_desc: by score, then by id.                                 *)
SortDesc(store, R, score) ==
  SortSeq(SelectSeq([r \in DOMAIN store |-> r], LAMBDA r : r \in R),
          LAMBDA x, y : \/ score[x] > score[y]
                        \/ score[x] = score[y] /\ store[x].id < store[y].id)
Truncate(s, n) == SubSeq(s, 1, Least(n, Len(s)))

(* metadata_matches, by the scope.                                         *)
InScope(store, scope) == {r \in DOMAIN store : store[r].scope = scope}
ScoreOf(store, channel) == [r \in DOMAIN store |-> store[r][channel]]
(* The rows of a scope are cut to the limit by the query itself.           *)
Candidates(store, scope, score, limit) ==
  LET found == {r \in InScope(store, scope) : score[r] # NoScore}
  IN  Truncate(SortDesc(store, found, score), limit)

(* Mutant of TurnedRound: taken as they are.                               *)
NotTurnedRound(B, raw) == [r \in B |-> raw[r]]

(* bm25_candidates; normalize_lower_is_better_scores turns the scores round*)
(* from the worst that is returned, over a range that Normal takes out.    *)
Bm25Candidates(store, scope, limit) ==
  LET raw == ScoreOf(store, "bm25")
  IN  Candidates(store, scope, [r \in DOMAIN store |-> IF raw[r] = NoScore THEN NoScore ELSE -raw[r]], limit)
TurnedRound(B, raw) ==
  [r \in B |-> (CHOOSE x \in {raw[q] : q \in B} : \A q \in B : x >= raw[q]) - raw[r]]

(* dense_candidates: refused when a record of the scope names another      *)
(* embedding profile than the query's (validate_search_embedding_profile). *)
NoProfile == 0
Failed == [ok |-> FALSE, results |-> <<>>]
Found(results) == [ok |-> TRUE, results |-> results]
OneProfile(store, req) ==
  \A r \in InScope(store, req.scope) : store[r].profile \in {req.profile, NoProfile}
DenseCandidates(store, req, limit) ==
  IF OneProfile(store, req) THEN Found(Candidates(store, req.scope, ScoreOf(store, "dense"), limit)) ELSE Failed

(* fuse_hybrid_candidates: the scores of each channel brought to 0 .. 1    *)
(* over what it returned, a record it did not return taking 0, and added   *)
(* with their weights.  Both sides of a comparison are multiplied by the   *)
(* two ranges.                                                             *)
Scores(S, score) == {score[r] : r \in S}
Lowest(S, score) == CHOOSE x \in Scores(S, score) : \A y \in Scores(S, score) : x <= y
Spread(S, score) ==
  IF S = {} THEN 0
  ELSE (CHOOSE x \in Scores(S, score) : \A y \in Scores(S, score) : x >= y) - Lowest(S, score)
(* normalize_present_score.                                                *)
Normal(r, S, score) ==
  IF r \notin S THEN 0
  ELSE IF Spread(S, score) = 0 THEN 1 ELSE score[r] - Lowest(S, score)
HybridScore(store, D, B, cfg) ==
  LET d == ScoreOf(store, "dense")
      b == TurnedRound(B, ScoreOf(store, "bm25"))
  IN  [r \in D \cup B |-> cfg.embeddingWeight * Normal(r, D, d) * Most(1, Spread(B, b)) +
                          cfg.bm25Weight * Normal(r, B, b) * Most(1, Spread(D, d))]
FuseHybrid(store, dense, bm25, cfg, limit) ==
  LET D == ToSet(dense)
      B == ToSet(bm25)
      score == HybridScore(store, D, B, cfg)
  IN  Truncate(SortDesc(store, D \cup B, score), limit)

(* graph_candidates: nothing when the channel is off, or fails and is to   *)
(* fail open; graph records are filtered like any others.                  *)
GraphCandidates(store, req, cfg, limit) ==
  IF ~cfg.graph \/ limit = 0 THEN Found(<<>>)
  ELSE IF req.graphFails THEN IF cfg.graphFailOpen THEN Found(<<>>) ELSE Failed
  ELSE Found(Candidates(store, req.scope, ScoreOf(store, "graph"), limit))

(* graph_rank_fusion_score: reciprocal ranks, over 60 + rank, multiplied   *)
(* out over the three ranks of the largest stores looked at.               *)
Rank(s, r) == IF r \in ToSet(s) THEN CHOOSE k \in DOMAIN s : s[k] = r ELSE 0
Reciprocal(rank) ==
  CASE rank = 0 -> 0 [] rank = 1 -> 62 * 63 [] rank = 2 -> 61 * 63 [] rank = 3 -> 61 * 62
RankScore(base, graph, r, cfg) ==
  Reciprocal(Rank(base, r)) + cfg.graphWeight * Reciprocal(Rank(graph, r))

(* graph_only_result_limit: a fifth of the results unless configured.      *)
NoLimit == -1
GraphOnlyLimit(limit, cfg) ==
  Least(IF cfg.maxGraphOnly = NoLimit THEN (limit + 4) \div 5 ELSE cfg.maxGraphOnly, limit)

(* The records only the graph knows that may be added.                     *)
GraphOnly(store, both, graph, score, cfg, limit) ==
  IF cfg.allowGraphOnly /\ cfg.rerankWithGraph /\ cfg.graphWeight > 0
    THEN Truncate(SortDesc(store, ToSet(graph) \ both, score), GraphOnlyLimit(limit, cfg))
    ELSE <<>>

(* fuse_graph_candidates.  base is sorted by the score it came with.       *)
FuseGraph(store, base, graph, cfg, limit) ==
  LET protected == Truncate(base, limit)
      both == ToSet(protected)
      score == [r \in both \cup ToSet(graph) |-> RankScore(protected, graph, r, cfg)]
      ranked == IF cfg.rerankWithGraph THEN SortDesc(store, both, score) ELSE protected
      only == GraphOnly(store, both, graph, score, cfg, limit)
      kept == Truncate(ranked, limit - Len(only))
  IN  IF only = <<>> THEN ranked
      ELSE SortDesc(store, ToSet(kept) \cup ToSet(only), score)

WithGraph(store, base, req, cfg, limit) ==
  LET graph == GraphCandidates(store, req, cfg, limit)
  IN  IF ~cfg.graph THEN Found(base)
      ELSE IF ~graph.ok THEN Failed
      ELSE Found(FuseGraph(store, base, graph.results, cfg, limit))

(* apply_openrouter_results: the first top_n of the answer, as indexes of  *)
(* the candidates; too few, one out of range or one twice is an error.     *)
ApplyRerank(candidates, answer, limit) ==
  LET n == Least(limit, Len(candidates))
      first == Truncate(answer, n)
  IN  IF \/ Len(answer) < n
         \/ \E k \in DOMAIN first : first[k] \notin DOMAIN candidates
         \/ Cardinality(ToSet(first)) < Len(first)
        THEN Failed
        ELSE Found([k \in DOMAIN first |-> candidates[first[k]]])

(* OpenRouterReranker: asked again while the service is busy, up to the    *)
(* last attempt; an answer is taken or refused as it is.                   *)
RERANK_MAX_ATTEMPTS == 8
Reranked(candidates, req) ==
  IF candidates = <<>> THEN Found(<<>>)
  ELSE IF req.rerank.busy >= RERANK_MAX_ATTEMPTS THEN Failed
  ELSE ApplyRerank(candidates, req.rerank.order, req.topK)

(* rerank_candidates.                                                      *)
Rerank(candidates, req, cfg) ==
  LET answer == Reranked(candidates, req)
  IN  IF answer.ok THEN Found(Truncate(answer.results, req.topK))
      ELSE IF cfg.rerankFailOpen THEN Found(Truncate(candidates, req.topK))
      ELSE Failed

(* search, search_many: by mode.                                           *)
SearchOne(store, req, cfg, base) ==
  IF ~base.ok THEN Failed ELSE WithGraph(store, base.results, req, cfg, req.topK)
SearchHybrid(store, req, cfg) ==
  LET limit == IF cfg.rerank THEN Most(cfg.inputK, req.topK) ELSE req.topK
      dense == DenseCandidates(store, req, cfg.candidateK)
      bm25 == Bm25Candidates(store, req.scope, cfg.candidateK)
      mixed == WithGraph(store, FuseHybrid(store, dense.results, bm25, cfg, limit), req, cfg, limit)
  IN  IF ~dense.ok \/ ~mixed.ok THEN Failed
      ELSE IF cfg.rerank THEN Rerank(mixed.results, req, cfg)
      ELSE mixed
Search(store, req, cfg) ==
  IF req.topK = 0 THEN Found(<<>>)
  ELSE CASE cfg.mode = "dense"  -> SearchOne(store, req, cfg, DenseCandidates(store, req, req.topK))
         [] cfg.mode = "bm25"   -> SearchOne(store, req, cfg, Found(Bm25Candidates(store, req.scope, req.topK)))
         [] cfg.mode = "graph"  -> GraphCandidates(store, req, cfg, req.topK)
         [] cfg.mode = "hybrid" -> SearchHybrid(store, req, cfg)
=============================================================================
