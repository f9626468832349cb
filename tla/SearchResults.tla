--------------------------- MODULE SearchResults ---------------------------
(***************************************************************************)
(* What becomes of what a search has found: what MemoryManager notes on a  *)
(* memory of the graph's reasons for it, and which of the memories found   *)
(* memory-mcp answers with.  Functions, with no state.                     *)
(*                                                                         *)
(* A unit of the graph's context is [kind, score, records]: of kind "fact",*)
(* with the fact and whether it is too long to be noted, the records being *)
(* its evidence, or of kind "record", one that matches by its own words.   *)
(***************************************************************************)
EXTENDS Integers, Sequences, FiniteSets, SequencesExt, TLC

Unknown == -1
Larger(a, b) == IF a > b THEN a ELSE b
Smaller(a, b) == IF a < b THEN a ELSE b

(* append_graph_fact_metadata: each fact once, short ones, sixteen of them;*)
(* and a note that there was more.                                         *)
MAX_GRAPH_FACTS_PER_RECORD == 16
AppendGraphFact(hit, fact) ==
  IF fact \in ToSet(hit.facts) THEN hit
  ELSE IF fact.long \/ Len(hit.facts) >= MAX_GRAPH_FACTS_PER_RECORD THEN [hit EXCEPT !.truncated = TRUE]
  ELSE [hit EXCEPT !.facts = Append(@, fact)]

(* What one unit says of a record.                                         *)
First(score) == [score |-> score, facts |-> <<>>, truncated |-> FALSE, matched |-> FALSE]
OfUnit(u) ==
  IF u.kind = "fact" THEN AppendGraphFact(First(u.score), u.fact)
  ELSE [First(u.score) EXCEPT !.matched = TRUE]

(* merge_graph_facts_metadata, merge_graph_matches_metadata, and the better*)
(* of the scores.                                                          *)
Merge(old, new) ==
  LET noted == [old EXCEPT !.score = Larger(old.score, new.score),
                           !.matched = old.matched \/ new.matched,
                           !.truncated = old.truncated \/ new.truncated]
  IN  FoldLeft(AppendGraphFact, noted, new.facts)

(* graph_candidates: what the units say of each record of the scope.       *)
Note(hits, r, new) == IF r \in DOMAIN hits THEN [hits EXCEPT ![r] = Merge(@, new)] ELSE (r :> new) @@ hits
NoteUnit(hits, u, scope) ==
  FoldLeft(LAMBDA h, r : Note(h, r, OfUnit(u)), hits, SelectSeq(u.records, LAMBDA r : r \in scope))
GraphHits(units, scope) == FoldLeft(LAMBDA h, u : NoteUnit(h, u, scope), <<>>, units)
-----------------------------------------------------------------------------
(* bounded_candidate_limit: more is looked at than is shown, for some of it*)
(* may not be what was asked for.                                          *)
MAX_SEARCH_CANDIDATES == 500
Filtered(req) == req.types # {} \/ req.from # Unknown \/ req.to # Unknown
CandidateLimit(req) ==
  Smaller(Larger(req.topK, req.topK * (IF Filtered(req) THEN 10 ELSE 5)), MAX_SEARCH_CANDIDATES)

(* event_time_from_value: as it is given, as the pipeline wrote it, or as  *)
(* it was said, whichever can be read first.                               *)
EventTime(m) ==
  IF m.time # Unknown THEN m.time ELSE IF m.normalized # Unknown THEN m.normalized ELSE m.raw

(* matches_requested_predicates.  A memory whose time cannot be read is not*)
(* of any time.                                                            *)
Requested(m, req) ==
  /\ req.types = {} \/ m.type \in req.types
  /\ req.from = Unknown \/ (EventTime(m) # Unknown /\ req.from <= EventTime(m))
  /\ req.to = Unknown \/ (EventTime(m) # Unknown /\ EventTime(m) <= req.to)

(* search: of the memories the manager finds, best first, the first that   *)
(* are what was asked for.                                                 *)
Answer(found, req) ==
  LET looked == SubSeq(found, 1, Smaller(CandidateLimit(req), Len(found)))
      wanted == SelectSeq(looked, LAMBDA m : Requested(m, req))
  IN  SubSeq(wanted, 1, Smaller(req.topK, Len(wanted)))
=============================================================================
