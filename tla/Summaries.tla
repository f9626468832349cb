----------------------------- MODULE Summaries -----------------------------
(***************************************************************************)
(* What is indexed of a case document as a whole: the lines it is summed up*)
(* in, by a model or, when there is none or it fails, from the text.       *)
(* Functions, with no state.                                               *)
(*                                                                         *)
(* A chunk is a sequence of lines, a line one of sentences [says, len,     *)
(* terms, marks, ends]: what it says, its characters, the words in it, as a*)
(* set, which of identifiers, digits and versions it has, and whether it   *)
(* ends as a sentence does.  A text is a sequence of sentences; the words  *)
(* and the marks of one that is cut are those of what is left of it.       *)
(***************************************************************************)
EXTENDS Integers, Sequences, FiniteSets, SequencesExt

DOCUMENT_SUMMARY_BODY_MAX_CHARS == 1200
DOCUMENT_SUMMARY_CANDIDATE_MAX_CHARS == 180
DOCUMENT_SUMMARY_MAX_LINES == 8
SEARCH_PROFILE_MAX_CONTEXT_LINES == 4

Long(text) == FoldLeft(LAMBDA n, s : n + s.len, 0, text)

(* document_summary_candidate_texts, split_document_summary_sentences: a   *)
(* line that is too long is taken apart where a sentence ends.             *)
SummarySentences(line) ==
  FoldLeft(LAMBDA texts, s :
             IF texts # <<>> /\ ~Last(Last(texts)).ends THEN Append(Front(texts), Append(Last(texts), s))
             ELSE Append(texts, <<s>>),
           <<>>, line)
CandidateTexts(chunk) ==
  FlattenSeq([k \in DOMAIN chunk |->
           IF chunk[k] = <<>> THEN <<>>
           ELSE IF Long(chunk[k]) <= DOCUMENT_SUMMARY_CANDIDATE_MAX_CHARS THEN <<chunk[k]>>
           ELSE SummarySentences(chunk[k])])

(* truncate_chars: what is cut ends with three dots, which are not counted.*)
ELLIPSIS_CHARS == 3
CutShort(text) ==
  [text |-> text, len |-> IF Long(text) > DOCUMENT_SUMMARY_CANDIDATE_MAX_CHARS
                            THEN DOCUMENT_SUMMARY_CANDIDATE_MAX_CHARS + ELLIPSIS_CHARS ELSE Long(text)]

(* normalize_document_summary_candidate: not of one character, and cut.    *)
Normalized(texts) ==
  LET said == SelectSeq(texts, LAMBDA t : Long(t) >= 2) IN [k \in DOMAIN said |-> CutShort(said[k])]

(* looks_like_document_summary_heading, document_summary_candidate_score.  *)
Heading(c) == c.len <= 40 /\ \A k \in DOMAIN c.text : ~c.text[k].ends
Marked(c, mark) == \E k \in DOMAIN c.text : mark \in c.text[k].marks
Terms(c) == Cardinality(UNION {c.text[k].terms : k \in DOMAIN c.text})
OfLength(n) ==
  CASE 20 <= n /\ n <= 120 -> 4
    [] n < 20 -> 3
    [] 120 < n /\ n <= DOCUMENT_SUMMARY_CANDIDATE_MAX_CHARS -> 0
    [] n > DOCUMENT_SUMMARY_CANDIDATE_MAX_CHARS -> -4
Worth(holds, n) == IF holds THEN n ELSE 0
CandidateScore(c, first) ==
  Worth(Heading(c), 8) + (IF Terms(c) < 8 THEN Terms(c) ELSE 8)
    + Worth(Marked(c, "identifier"), 3) + Worth(Marked(c, "digit"), 2) + Worth(Marked(c, "version"), 3)
    + OfLength(c.len) - Worth(c.len < 6 /\ ~Heading(c), 2) + Worth(first, 1)

(* select_document_summary_candidates: the best, each once, as many as     *)
(* there are lines and characters for, in the order of the document.       *)
ByScore(cs) ==
  SortSeq([k \in DOMAIN cs |-> k],
          LAMBDA j, k : cs[j].score > cs[k].score \/ (cs[j].score = cs[k].score /\ j < k))
(* One candidate, unless it was seen; it counts as seen if it does not fit.*)
Take(cs, taken, k) ==
  LET same == \E j \in ToSet(taken.seen) : cs[j].is = cs[k].is
      over == taken.chars > 0 /\ taken.chars + cs[k].is.len > DOCUMENT_SUMMARY_BODY_MAX_CHARS
  IN  IF Len(taken.lines) >= DOCUMENT_SUMMARY_MAX_LINES \/ same THEN taken
      ELSE IF over THEN [taken EXCEPT !.seen = Append(@, k)]
      ELSE [lines |-> Append(taken.lines, k), seen |-> Append(taken.seen, k), chars |-> taken.chars + cs[k].is.len]

Selected(cs, signal) ==
  LET best == SelectSeq(ByScore(cs), LAMBDA k : signal => cs[k].score > 0)
      taken[n \in 0 .. Len(best)] == IF n = 0 THEN [lines |-> <<>>, seen |-> <<>>, chars |-> 0]
                                      ELSE Take(cs, taken[n - 1], best[n])
      order == SortSeq(taken[Len(best)].lines, LAMBDA j, k : j < k)
  IN  [k \in DOMAIN order |-> cs[order[k]].is]

(* build_document_body_summary: lines that are worth something, or if there*)
(* are none, any.                                                          *)
SummaryCandidates(chunks) ==
  FlattenSeq([n \in DOMAIN chunks |->
    LET said == Normalized(CandidateTexts(chunks[n]))
    IN  [k \in DOMAIN said |-> [is |-> said[k], score |-> CandidateScore(said[k], n = 1)]]])
BodySummary(chunks) ==
  LET worth == Selected(SummaryCandidates(chunks), TRUE)
  IN  IF worth # <<>> THEN worth ELSE Selected(SummaryCandidates(chunks), FALSE)

(* document_summary_lines_from_text: a model's answer, line by line.       *)
LinesOf(reply) ==
  LET said == Normalized(CandidateTexts(reply))
  IN  Selected([k \in DOMAIN said |-> [is |-> said[k], score |-> 0]], FALSE)

(* build_document_search_text_for_ingest: reply is what a model said, line *)
(* by line, if there is one and it did not fail.                           *)
NoModel == [ok |-> FALSE]
SummaryLines(chunks, reply) ==
  IF reply.ok /\ LinesOf(reply.lines) # <<>> THEN LinesOf(reply.lines) ELSE BodySummary(chunks)

(* push_limited_line, build_document_search_text_from_summary_lines: how   *)
(* many characters of each line are kept in the text that is indexed.      *)
DOCUMENT_SUMMARY_MAX_CHARS == 6000
TITLE_CHARS == 6    \* before a document's name, and before it without its suffix
BODY_CHARS == 5     \* before the lines, and before each
PushLimitedLine(put, n) ==
  LET room == DOCUMENT_SUMMARY_MAX_CHARS - put.used - (IF put.used > 0 THEN 1 ELSE 0)
      kept == IF room <= 0 THEN 0 ELSE IF n < room THEN n ELSE room
  IN  [used |-> DOCUMENT_SUMMARY_MAX_CHARS - room + kept, kept |-> Append(put.kept, kept)]
TextLines(name, title, lines) ==
  <<TITLE_CHARS + name>> \o (IF title # name THEN <<TITLE_CHARS + title>> ELSE <<>>)
    \o (IF lines # <<>> THEN <<BODY_CHARS>> ELSE <<>>) \o [k \in DOMAIN lines |-> BODY_CHARS + lines[k].len]
SearchText(textLines) ==
  LET pushed[k \in 0 .. Len(textLines)] ==
        IF k = 0 THEN [used |-> 0, kept |-> <<>>] ELSE PushLimitedLine(pushed[k - 1], textLines[k])
  IN  pushed[Len(textLines)].kept

(* representative_context_lines: of a chunk, for its own record.           *)
ContextLines(chunk) ==
  LET cs == SummaryCandidates(<<chunk>>)
      best == SubSeq(ByScore(cs), 1, IF Len(cs) < SEARCH_PROFILE_MAX_CONTEXT_LINES THEN Len(cs) ELSE SEARCH_PROFILE_MAX_CONTEXT_LINES)
      order == SortSeq(best, LAMBDA j, k : j < k)
  IN  [k \in DOMAIN order |-> cs[order[k]].is]
=============================================================================
