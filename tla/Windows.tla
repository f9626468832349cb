------------------------------ MODULE Windows ------------------------------
(***************************************************************************)
(* How the memory pipeline cuts a conversation for the extractor: source   *)
(* records become messages, messages become episodes, an episode becomes   *)
(* windows of candidate text with some context around it; and how the      *)
(* evidence a memory quotes is located in the text a window was given.     *)
(* Functions of their input, with no state.                                *)
(*                                                                         *)
(* A record is [ok, eligible, session, at, sentences]: whether it has id,  *)
(* scope and text; memory_candidate; the session; the time; the lengths of *)
(* its sentences.  Every character counts one token, as a Chinese one      *)
(* does.  A configuration is [cand, total, before, after, gap].            *)
(***************************************************************************)
EXTENDS Integers, Sequences, FiniteSets, SequencesExt, TLC

Plus(a, b) == a + b
Sum(s) == FoldLeft(Plus, 0, s)
Ascending(S, n) == SelectSeq([k \in 1 .. n |-> k], LAMBDA k : k \in S)

(* normalize_prepared_memories: the records that are messages, by index.   *)
(* The rest are reported as issues.                                        *)
MessageIndexes(records) == {i \in DOMAIN records : records[i].ok}

(* boundary_reason: whether an episode ends between two messages.          *)
Boundary(prev, cur, cfg) ==
  prev.session # cur.session \/ cur.at - prev.at > cfg.gap

(* build_episodes, as the episode number of each message in order.         *)
Order(records) == Ascending(MessageIndexes(records), Len(records))
EpisodeNumbers(records, cfg) ==
  LET ms == Order(records)
      n[k \in 1 .. Len(ms)] ==
        IF k = 1 THEN 1
        ELSE n[k - 1] + (IF Boundary(records[ms[k - 1]], records[ms[k]], cfg) THEN 1 ELSE 0)
  IN  n
Episode(records, cfg, e) ==
  LET ms == Order(records)
      n == EpisodeNumbers(records, cfg)
  IN  [k \in 1 .. Cardinality({j \in DOMAIN ms : n[j] = e}) |->
         ms[k + Cardinality({j \in DOMAIN ms : n[j] < e})]]
EpisodeCount(records, cfg) ==
  Cardinality({EpisodeNumbers(records, cfg)[k] : k \in DOMAIN Order(records)})

(* message_ref.                                                            *)
Ref(i, from, to) == [message |-> i, from |-> from, to |-> to]
Tokens(ref) == ref.to - ref.from
Total(refs) == Sum([k \in DOMAIN refs |-> Tokens(refs[k])])

(* split_span: pieces as long as allowed, what is left at the end.         *)
SplitSpan(i, from, to, max) ==
  [k \in 1 .. ((to - from + max - 1) \div max) |->
     Ref(i, from + (k - 1) * max, IF from + k * max < to THEN from + k * max ELSE to)]

(* slice_message: a short message whole, a long one by its sentences.      *)
SliceMessage(i, sentences, max) ==
  LET start(k) == Sum(SubSeq(sentences, 1, k - 1))
      end == Sum(sentences)
  IN  IF end <= max THEN <<Ref(i, 0, end)>>
      ELSE FlattenSeq([k \in DOMAIN sentences |->
                         SplitSpan(i, start(k), start(k) + sentences[k], max)])

(* Every slice of the episode, and the positions of the eligible ones.     *)
AllRefs(records, episode, cfg) ==
  FlattenSeq([k \in DOMAIN episode |->
                SliceMessage(episode[k], records[episode[k]].sentences, cfg.cand)])
Eligible(records, refs) ==
  Ascending({k \in DOMAIN refs : records[refs[k].message].eligible}, Len(refs))

(* Mutant of PackRanges: the slice to be added is not counted.             *)
PackRangesLate(refs, eligible, max) ==
  LET fits(group) == Total([j \in DOMAIN group |-> refs[group[j]]]) < max
      put(groups, k) ==
        IF groups # <<>> /\ fits(Last(groups))
          THEN Front(groups) \o << Last(groups) \o <<k>> >>
          ELSE groups \o << <<k>> >>
  IN  FoldLeft(put, <<>>, eligible)

(* pack_ranges: slices are put together while they fit, in order.          *)
PackRanges(refs, eligible, max) ==
  LET fits(group, k) == Total([j \in DOMAIN group |-> refs[group[j]]]) + Tokens(refs[k]) <= max
      put(groups, k) ==
        IF groups # <<>> /\ fits(Last(groups), k)
          THEN Front(groups) \o << Last(groups) \o <<k>> >>
          ELSE groups \o << <<k>> >>
  IN  FoldLeft(put, <<>>, eligible)

(* select_before, select_after: the slices of the nearest messages.        *)
Messages(refs, from, to) == {refs[j].message : j \in from .. to}
SelectBefore(refs, first, limit) ==
  {k \in 1 .. first - 1 : Cardinality(Messages(refs, k, first - 1)) <= limit}
SelectAfter(refs, last, limit) ==
  {k \in last + 1 .. Len(refs) : Cardinality(Messages(refs, last + 1, k)) <= limit}

(* trim_context: the earliest context is dropped until the window fits,    *)
(* what follows the candidates only after all that precedes them.          *)
TokensOf(refs, S) == Sum([k \in DOMAIN refs |-> IF k \in S THEN Tokens(refs[k]) ELSE 0])
Trimmed(refs, before, after, n) ==
  LET b == Ascending(before, Len(refs))
      a == Ascending(after, Len(refs))
      kept == IF n <= Len(b) THEN a ELSE SubSeq(a, 1, Len(a) - (n - Len(b)))
  IN  [before |-> ToSet(SubSeq(b, n + 1, Len(b))), after |-> ToSet(kept)]
TrimContext(refs, before, candidate, after, max) ==
  LET room(n) == LET t == Trimmed(refs, before, after, n)
                 IN  TokensOf(refs, t.before \cup candidate \cup t.after) <= max
      steps == 0 .. Cardinality(before) + Cardinality(after)
      n == CHOOSE k \in steps : /\ room(k) \/ k = Cardinality(before) + Cardinality(after)
                                /\ \A j \in steps : room(j) => k <= j
  IN  Trimmed(refs, before, after, n)

(* build_windows: one window for each group; a slice between candidates    *)
(* that is not eligible itself is context.                                 *)
WindowsOf(records, cfg, e) ==
  LET refs == AllRefs(records, Episode(records, cfg, e), cfg)
      groups == PackRanges(refs, Eligible(records, refs), cfg.cand)
      window(group) ==
        LET candidate == ToSet(group)
            before == SelectBefore(refs, Head(group), cfg.before)
                        \cup ((Head(group) .. Last(group)) \ candidate)
            after == SelectAfter(refs, Last(group), cfg.after)
            kept == TrimContext(refs, before, candidate, after, cfg.total)
        IN  [refs |-> refs, candidate |-> candidate,
             before |-> kept.before, after |-> kept.after]
  IN  [g \in DOMAIN groups |-> window(groups[g])]

BuildWindows(records, cfg) ==
  FlattenSeq([e \in 1 .. EpisodeCount(records, cfg) |-> WindowsOf(records, cfg, e)])

(* messages_within_budget: when the whole request is too long, context     *)
(* goes first, what follows before what precedes; candidates never do.     *)
Promptable(window, budget) ==
  LET b == Ascending(window.before, Len(window.refs))
      a == Ascending(window.after, Len(window.refs))
      without(n) == ToSet(SubSeq(a, 1, Len(a) - n)) \cup
                    (IF n <= Len(a) THEN window.before
                     ELSE ToSet(SubSeq(b, n - Len(a) + 1, Len(b))))
      steps == 0 .. Len(a) + Len(b)
      fits == {n \in steps : TokensOf(window.refs, window.candidate \cup without(n)) <= budget}
  IN  IF fits = {} THEN {} ELSE window.candidate \cup without(CHOOSE n \in fits : \A m \in fits : n <= m)

(* span_is_covered: a cursor moved over the sorted spans.                  *)
Earlier(x, y) == x[1] < y[1] \/ (x[1] = y[1] /\ x[2] <= y[2])
SpanIsCovered(spans, start, end) ==
  LET step(cur, s) == IF cur.done \/ s[2] <= cur.at THEN cur
                      ELSE IF s[1] > cur.at THEN [cur EXCEPT !.done = TRUE]
                      ELSE [at |-> s[2], done |-> s[2] >= end]
      last == FoldLeft(step, [at |-> start, done |-> FALSE], SortSeq(spans, Earlier))
  IN  last.done /\ last.at >= end

(* union_length: the characters some span covers, spans merged as sorted.  *)
UnionLength(spans) ==
  LET step(acc, s) ==
        IF acc.total >= 0 /\ s[1] <= acc.end
          THEN [acc EXCEPT !.end = IF s[2] > @ THEN s[2] ELSE @]
          ELSE [start |-> s[1], end |-> s[2],
                total |-> IF acc.total < 0 THEN 0 ELSE acc.total + acc.end - acc.start]
      last == FoldLeft(step, [start |-> 0, end |-> 0, total |-> -1],
                       SortSeq(spans, Earlier))
  IN  IF spans = <<>> THEN 0 ELSE last.total + last.end - last.start
=============================================================================
