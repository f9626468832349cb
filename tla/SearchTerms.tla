---------------------------- MODULE SearchTerms ----------------------------
(***************************************************************************)
(* The terms of a text, by which CaseLibraryService indexes documents,     *)
(* asks for them, and drops what it finds unrelated.                       *)
(*                                                                         *)
(* A text is a sequence of characters: "x", "y" and "z" are ideographs,    *)
(* "a" a letter, "w" a word of five letters, "5" and "7" digits; a space   *)
(* and a dot end a segment; hyphens and dots join a version.  There are no *)
(* capitals, and no underscores.                                           *)
(***************************************************************************)
EXTENDS Integers, Sequences, FiniteSets, SequencesExt

Ideographs == {"x", "y", "z"}
Letters == {"a", "w"}
Digits == {"5", "7"}
Ascii == Letters \cup Digits
Length(term) == FoldLeft(LAMBDA n, c : n + IF c = "w" THEN 5 ELSE 1, 0, term)
Has(term, S) == \E k \in DOMAIN term : term[k] \in S
Only(term, S) == \A k \in DOMAIN term : term[k] \in S

(* The longest stretches of a text of characters in S.                     *)
Runs(text, S) ==
  {SubSeq(text, i, j) : <<i, j>> \in
     {p \in (DOMAIN text) \X (DOMAIN text) :
        /\ p[1] <= p[2] /\ \A k \in p[1] .. p[2] : text[k] \in S
        /\ p[1] = 1 \/ text[p[1] - 1] \notin S
        /\ p[2] = Len(text) \/ text[p[2] + 1] \notin S}}

(* flush_ascii_run: words joined by hyphens are one; a lone word keeps its.*)
Hyphenless(run) ==
  LET starts == {k \in DOMAIN run : run[k] # "-" /\ (k = 1 \/ run[k - 1] = "-")}
  IN  IF Cardinality(starts) <= 1 THEN run ELSE SelectSeq(run, LAMBDA c : c # "-")

(* lexical_tokens: the ideographs and words of a segment, and two or three *)
(* that stand together.                                                    *)
Units(segment) ==
  LET starts == SetToSortSeq({k \in DOMAIN segment :
                   k = 1 \/ {segment[k], segment[k - 1]} \cap Ideographs # {}}, <)
      end(n) == IF n = Len(starts) THEN Len(segment) ELSE starts[n + 1] - 1
  IN  [n \in DOMAIN starts |-> Hyphenless(SubSeq(segment, starts[n], end(n)))]
Together(units) ==
  {FlattenSeq(SubSeq(units, p[1], p[2])) :
     p \in {q \in (DOMAIN units) \X (DOMAIN units) : q[2] \in q[1] .. q[1] + 2}}
LexicalTokens(text) ==
  UNION {Together(Units(segment)) : segment \in Runs(text, Ascii \cup Ideographs \cup {"-"})}

(* version_like_terms: groups of digits with dots or hyphens between them. *)
Version(run) ==
  LET last == CHOOSE k \in 0 .. Len(run) :
                /\ k = 0 \/ run[k] \in Digits
                /\ \A j \in k + 1 .. Len(run) : run[j] \notin Digits
      kept == SetToSortSeq({k \in 1 .. last : run[k] \in Digits \/ (k > 1 /\ run[k - 1] \in Digits)}, <)
  IN  [n \in DOMAIN kept |-> IF run[kept[n]] \in Digits THEN run[kept[n]] ELSE "."]
VersionTerms(text) ==
  {v \in {Version(run) : run \in Runs(text, Digits \cup {".", "-"})} : Has(v, {"."})}
Compact(version) == SelectSeq(version, LAMBDA c : c \in Digits)

(* Mutant of VersionTokens: not without its dots.                          *)
VersionTokensDotted(text) == VersionTerms(text)

(* version_search_tokens: a version is also looked for without its dots.   *)
VersionTokens(text) == VersionTerms(text) \cup {Compact(v) : v \in VersionTerms(text)}

StopTerms == {<<"z", "x">>}

(* ordered_retrieval_terms.                                                *)
RetrievalTerms(text) ==
  {t \in LexicalTokens(text) \cup VersionTokens(text) : Length(t) >= 2 /\ t \notin StopTerms}

(* ascii_identifier_terms_from_tokens, required_ascii_overlap_terms: words *)
(* long or odd enough to be meant; all of two or more, versions written in *)
(* two ways counting twice.                                                *)
Identifier(t) == Only(t, Ascii) /\ Has(t, Letters)
IdentifierTerms(text) ==
  {t \in LexicalTokens(text) : Identifier(t) /\ (Length(t) >= 3 \/ Has(t, Digits))}
RequiredTerms(text) ==
  LET specific == {t \in IdentifierTerms(text) : Length(t) >= 5 \/ Has(t, Digits)}
      versions == VersionTerms(text)
  IN  IF Cardinality(specific) + Cardinality(versions) < 2 THEN {}
      ELSE specific \cup {Compact(v) : v \in versions}
RequiredCount(required) == IF Cardinality(required) < 2 THEN Cardinality(required) ELSE 2

(* build_search_index_text, build_search_query_text: a query of several    *)
(* words of Latin letters and no version is asked for by these alone.      *)
IndexTerms(text) == LexicalTokens(text) \cup VersionTokens(text)
QueryTerms(text) ==
  IF VersionTerms(text) = {} /\ Cardinality(IdentifierTerms(text)) >= 2
    THEN IdentifierTerms(text) ELSE IndexTerms(text)
-----------------------------------------------------------------------------
(* edit_distance_at_most_one, with two fingers in the two words.           *)
Differences(s, t) == Cardinality({k \in DOMAIN s : s[k] # t[k]})
Finger(shorter, at, c) ==
  IF at.k > Len(shorter) THEN at
  ELSE IF shorter[at.k] = c THEN [at EXCEPT !.k = @ + 1]
  ELSE [at EXCEPT !.skipped = @ + 1]
OneSkipped(shorter, longer) ==
  FoldLeft(LAMBDA at, c : Finger(shorter, at, c), [k |-> 1, skipped |-> 0], longer).skipped <= 1
EditDistanceAtMostOne(s, t) ==
  \/ Len(s) = Len(t) /\ Differences(s, t) <= 1
  \/ Len(t) = Len(s) + 1 /\ OneSkipped(s, t)
  \/ Len(s) = Len(t) + 1 /\ OneSkipped(t, s)

(* retrieval_overlap_count: a word of ideographs may have one wrong, if it *)
(* begins and ends alike, or either when one is missing.                   *)
Fuzzy(t) == Length(t) >= 3 /\ Has(t, Ideographs) /\ t \notin StopTerms
StableBoundary(s, t) ==
  IF Len(s) = Len(t) THEN s[1] = t[1] /\ s[Len(s)] = t[Len(t)]
  ELSE s[1] = t[1] \/ s[Len(s)] = t[Len(t)]
Alike(s, t) == Fuzzy(s) /\ Fuzzy(t) /\ StableBoundary(s, t) /\ EditDistanceAtMostOne(s, t)
Overlap(wanted, there) ==
  Cardinality({t \in wanted : t \in there \/ \E c \in there : Alike(t, c)})

(* has_retrieval_overlap.                                                  *)
Related(wanted, required, there) ==
  IF required # {} THEN Cardinality(required \cap there) >= RequiredCount(required)
  ELSE Overlap(wanted, there) >= IF Cardinality(wanted) <= 2 THEN 1 ELSE 2

(* has_high_confidence_distinctive_overlap: one telling term will do for   *)
(* what scored nearly best.  Scores are in thousandths.                    *)
Distinctive(wanted, required, r, best) ==
  /\ required = {} /\ best > 0 /\ 100 * r.score >= 85 * best
  /\ \E t \in RetrievalTerms(r.text) \cap wanted : Identifier(t) \/ Length(t) >= 3

(* filter_unrelated_results.                                               *)
BestScore(results) ==
  FoldLeft(LAMBDA best, r : IF r.score > best THEN r.score ELSE best, 0, results)
FilterUnrelated(query, results) ==
  LET wanted == RetrievalTerms(query)
      required == RequiredTerms(query)
  IN  SelectSeq(results, LAMBDA r : \/ wanted = {}
                                    \/ Related(wanted, required, RetrievalTerms(r.text))
                                    \/ Distinctive(wanted, required, r, BestScore(results)))
=============================================================================
