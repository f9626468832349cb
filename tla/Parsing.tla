------------------------------ MODULE Parsing ------------------------------
(***************************************************************************)
(* MarkdownNodeParser: the nodes a case document is parsed into, line by   *)
(* line.  Functions, with no state.                                        *)
(*                                                                         *)
(* A line is [kind, level].  Its kind is "heading", "fence" (of code begun *)
(* or ended, of either sign), "blank", "row" of a table, "rule" of one, or *)
(* with nothing in its cells, or "words"; level is a heading's, and 0 else.*)
(* A node is [type, path, lines]: the lines of the headings it stands      *)
(* under, and of its text, by number.                                      *)
(***************************************************************************)
EXTENDS Integers, Sequences, FiniteSets, SequencesExt

KINDS == {"heading", "fence", "blank", "row", "rule", "words"}
Start == [path |-> <<>>, paragraph |-> <<>>, table |-> <<>>, code |-> <<>>, fenced |-> FALSE, nodes |-> <<>>]
ParseNode(type, p, lines) == [type |-> type, path |-> p.path, lines |-> lines]
Put(p, nodes) == [p EXCEPT !.nodes = @ \o nodes]

(* flush_paragraph, flush_code: one node of what has gathered, without the *)
(* blank lines around it; flush_table: one of each row.                    *)
Unblanked(doc, lines) ==
  LET said == {k \in DOMAIN lines : doc[lines[k]].kind # "blank"}
  IN  IF said = {} THEN <<>>
      ELSE SubSeq(lines, CHOOSE k \in said : \A j \in said : k <= j, CHOOSE k \in said : \A j \in said : k >= j)
OneNode(p, type, lines) == IF lines = <<>> THEN <<>> ELSE <<ParseNode(type, p, lines)>>
FlushParagraph(p) == [Put(p, OneNode(p, "text", p.paragraph)) EXCEPT !.paragraph = <<>>]
FlushTable(doc, p) ==
  LET rows == SelectSeq(p.table, LAMBDA k : doc[k].kind = "row")
  IN  [Put(p, [j \in DOMAIN rows |-> ParseNode("table", p, <<rows[j]>>)]) EXCEPT !.table = <<>>]
FlushCode(doc, p) == [Put(p, OneNode(p, "code", Unblanked(doc, p.code))) EXCEPT !.code = <<>>]
FlushBoth(doc, p) == FlushTable(doc, FlushParagraph(p))

(* A heading ends those of its level and below.                            *)
Under(path, k, doc) == Append(SelectSeq(path, LAMBDA j : doc[j].level < doc[k].level), k)

(* Mutant of PushHeading: what has gathered is put under the new heading.  *)
PushHeadingFirst(doc, p, k) == FlushBoth(doc, [p EXCEPT !.path = Under(p.path, k, doc)])

(* push_line, at a heading: what has gathered stands under the old ones.  *)
PushHeading(doc, p, k) == [FlushBoth(doc, p) EXCEPT !.path = Under(p.path, k, doc)]

(* push_line.                                                              *)
PushLine(doc, p, k) ==
  CASE doc[k].kind = "fence" /\ p.fenced  -> [FlushCode(doc, p) EXCEPT !.fenced = FALSE]
    [] doc[k].kind = "fence" /\ ~p.fenced -> [FlushBoth(doc, p) EXCEPT !.fenced = TRUE]
    [] doc[k].kind # "fence" /\ p.fenced  -> [p EXCEPT !.code = Append(@, k)]
    [] doc[k].kind = "heading" /\ ~p.fenced -> PushHeading(doc, p, k)
    [] doc[k].kind = "blank" /\ ~p.fenced -> FlushBoth(doc, p)
    [] doc[k].kind \in {"row", "rule"} /\ ~p.fenced -> [FlushParagraph(p) EXCEPT !.table = Append(@, k)]
    [] doc[k].kind = "words" /\ ~p.fenced -> [FlushTable(doc, p) EXCEPT !.paragraph = Append(@, k)]

(* finish: what has gathered, and code that was not ended.                 *)
Finish(doc, p) ==
  LET q == FlushBoth(doc, p) IN IF q.fenced THEN FlushCode(doc, q) ELSE q
ParseMarkdown(doc) ==
  LET pushed[k \in 0 .. Len(doc)] == IF k = 0 THEN Start ELSE PushLine(doc, pushed[k - 1], k)
  IN  Finish(doc, pushed[Len(doc)]).nodes

(* parse_text_reader: all of it one node, without the white space around.  *)
ParseText(doc) == OneNode(Start, "text", Unblanked(doc, [k \in DOMAIN doc |-> k]))
=============================================================================
