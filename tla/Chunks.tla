------------------------------- MODULE Chunks -------------------------------
(***************************************************************************)
(* How a parsed case document is cut into chunks (chunker.rs).  A node is  *)
(* [type, text]; a text is a sequence of units of one token each, a unit   *)
(* <<node, k, stop>> being the k-th of its node, with stop when a sentence *)
(* ends there.  White space costs no token.                                *)
(***************************************************************************)
EXTENDS Integers, Sequences, FiniteSets, SequencesExt

Node(type, text, sources) == [type |-> type, text |-> text, sources |-> sources]

(* process_parse_nodes: blank nodes go.                                    *)
NotBlank(n) == n.text # <<>>
ProcessNodes(nodes) == SelectSeq(nodes, NotBlank)

(* merge_adjacent_text_nodes: a text joins the one before it if both fit.  *)
Joins(last, n, max) ==
  /\ last.type = "text" /\ n.type = "text"
  /\ Len(last.text) + Len(n.text) <= max
Merged(last, n) == Node("text", last.text \o n.text, last.sources \cup n.sources)
MergeNodes(nodes, max) ==
  LET put(out, n) == IF out # <<>> /\ Joins(Last(out), n, max)
                       THEN Front(out) \o <<Merged(Last(out), n)>>
                       ELSE Append(out, n)
  IN  FoldLeft(put, <<>>, nodes)

(* split_sentences, take_token_prefix: a text by its sentences, a sentence *)
(* over the budget by pieces as long as allowed.                           *)
Cut(text, at) == {0} \cup at \cup {Len(text)}
Pieces(text, at) ==
  LET cuts == SelectSeq([k \in 1 .. Len(text) + 1 |-> k - 1], LAMBDA k : k \in Cut(text, at))
  IN  [k \in 1 .. Len(cuts) - 1 |-> SubSeq(text, cuts[k] + 1, cuts[k + 1])]
SplitSentences(text) == Pieces(text, {k \in DOMAIN text : text[k][3]})
Budgeted(text, max) ==
  FlattenSeq([s \in DOMAIN SplitSentences(text) |->
    LET sentence == SplitSentences(text)[s]
    IN  Pieces(sentence, {k \in DOMAIN sentence : k % max = 0})])

(* split_text_nodes: sentences fill the pending text, also across nodes,   *)
(* until the next does not fit or another kind of node comes.              *)
Flush(acc) == [out |-> acc.out \o acc.pending, pending |-> <<>>]
Fits(acc, sentence, max) ==
  acc.pending # <<>> /\ Len(Head(acc.pending).text) + Len(sentence.text) <= max
AddSentence(acc, sentence, max) ==
  IF Fits(acc, sentence, max)
    THEN [acc EXCEPT !.pending = <<Merged(Head(@), sentence)>>]
    ELSE [Flush(acc) EXCEPT !.pending = <<sentence>>]

(* Any other kind of node is a chunk of its own.                           *)
AddOther(acc, n) == [Flush(acc) EXCEPT !.out = Append(@, n)]
SplitNodes(nodes, max) ==
  LET sentences(n) == LET parts == Budgeted(n.text, max)
                      IN  [k \in DOMAIN parts |-> Node("text", parts[k], n.sources)]
      add(acc, s) == AddSentence(acc, s, max)
      node(acc, n) == IF n.type = "text" THEN FoldLeft(add, acc, sentences(n)) ELSE AddOther(acc, n)
  IN  Flush(FoldLeft(node, [out |-> <<>>, pending |-> <<>>], nodes)).out

(* chunk_parse_result.                                                     *)
ChunkParseResult(nodes, max) == SplitNodes(MergeNodes(ProcessNodes(nodes), max), max)
=============================================================================
