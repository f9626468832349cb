---------------------------- MODULE MCAlgorithms ----------------------------
(***************************************************************************)
(* The inputs Algorithms is run on.                                        *)
(***************************************************************************)
EXTENDS Algorithms

(* Up to four records, of eight shapes: short, of two sentences, long; not *)
(* eligible; of another session, after a pause; not a message at all.      *)
Record(e, s, t, lengths) == [ok |-> TRUE, eligible |-> e, session |-> s, at |-> t, sentences |-> lengths]
MCRecords ==
  {Record(TRUE, 1, 0, <<1>>), Record(TRUE, 1, 0, <<1, 1>>), Record(TRUE, 1, 0, <<1, 3>>),
   Record(FALSE, 1, 0, <<1>>), Record(FALSE, 1, 0, <<2, 1>>),
   Record(TRUE, 2, 0, <<1>>), Record(TRUE, 1, 5, <<2>>),
   [Record(TRUE, 1, 0, <<1>>) EXCEPT !.ok = FALSE]}
MCConversations == SeqOf(MCRecords, 4)
MCWindowConfigs ==
  {[cand |-> c, total |-> t, before |-> b, after |-> a, gap |-> 2] :
     c \in {2}, t \in {2, 4}, b \in {0, 2}, a \in {0, 1}}

MCSpans == SeqOf({s \in (0 .. 3) \X (1 .. 4) : s[1] < s[2]}, 3)

(* Up to five lines: headings of two levels, fences, tables, words, blanks.*)
MCLine(kind, level) == [kind |-> kind, level |-> level]
MCLines == {MCLine(k, 0) : k \in KINDS \ {"heading"}} \cup {MCLine("heading", l) : l \in 1 .. 2}
MCManuscripts == SeqOf(MCLines, 5)

(* Up to three nodes: blank, short, with sentences, over the budget, tables.*)
Text(n, len, stops) == [k \in 1 .. len |-> <<n, k, k \in stops>>]
MCNodes(n) ==
  {Node("text", Text(n, 0, {}), {n}), Node("text", Text(n, 1, {}), {n}),
   Node("text", Text(n, 2, {1}), {n}), Node("text", Text(n, 3, {}), {n}),
   Node("text", Text(n, 4, {1, 2}), {n}),
   Node("table", Text(n, 1, {}), {n}), Node("table", Text(n, 4, {}), {n})}
MCDocuments ==
  UNION {{d \in [1 .. k -> UNION {MCNodes(n) : n \in 1 .. 3}] : \A n \in 1 .. k : d[n].sources = {n}} :
           k \in 0 .. 3}
MCChunkBudgets == 1 .. 3

(* Documents of a chunk of up to eight long lines, which fill a summary,   *)
(* are too long for it, or for a line, and one of up to three others: some *)
(* of one character, headings, sentences, lines to be taken apart or cut.  *)
MCSentence(says, len, terms, ends) ==
  [says |-> says, len |-> len, terms |-> 1 .. terms, ends |-> ends,
   marks |-> IF terms > 2 THEN {"identifier", "digit"} ELSE {}]
MCLong(n, len, terms) == [k \in 1 .. n |-> <<MCSentence(k, len, terms, TRUE)>>]
MCOtherLines ==
  {<<MCSentence(10, 1, 0, FALSE)>>, <<MCSentence(11, 5, 1, TRUE)>>, <<MCSentence(12, 110, 4, TRUE)>>,
   <<MCSentence(13, 150, 0, FALSE)>>, <<MCSentence(14, 100, 3, TRUE), MCSentence(15, 90, 2, FALSE)>>,
   <<MCSentence(16, 130, 3, FALSE), MCSentence(17, 300, 9, FALSE)>>, <<MCSentence(1, 150, 9, TRUE)>>}
MCBodies ==
  {<<MCLong(s[1], s[2], t), c>> : s \in {<<0, 150>>, <<6, 200>>, <<7, 150>>, <<7, 200>>, <<8, 150>>}, t \in {0, 9},
                                  c \in SeqOf(MCOtherLines, 3)}
  \cup {<<<<<<>>, l>>>> : l \in MCOtherLines}
MCModelReplies ==
  {NoModel} \cup {[ok |-> TRUE, lines |-> l] : l \in {<<>>, <<<<MCSentence(10, 1, 0, FALSE)>>>>, MCLong(9, 120, 1)}}
MCNames == {<<12, 9>>, <<255, 255>>}

(* Up to three records: of the scope asked for with every rank in every    *)
(* channel, of another scope, of another embedding profile.                *)
Stored(scope, d, b, g, profile) ==
  [scope |-> scope, dense |-> d, bm25 |-> b, graph |-> g, profile |-> profile]
MCShapes ==
  {Stored("a", 1, NoScore, NoScore, 1), Stored("a", 1, -2, NoScore, 1), Stored("a", 2, -1, NoScore, 1),
   Stored("a", 1, NoScore, 2, 1), Stored("a", 3, -2, 1, 1), Stored("a", 2, NoScore, 2, NoProfile),
   Stored("a", 1, -1, NoScore, 2), Stored("b", 3, -3, 3, 1)}
MCStores ==
  {[r \in DOMAIN s |-> [id |-> r] @@ s[r]] : s \in SeqOf(MCShapes, 3)}
MCRequests ==
  {[scope |-> "a", topK |-> k, profile |-> 1, graphFails |-> f, rerank |-> o] :
     k \in 0 .. 2, f \in BOOLEAN, o \in {[busy |-> 8, order |-> <<2, 1, 3>>], [busy |-> 7, order |-> <<2, 1, 3>>],
                             [busy |-> 0, order |-> <<1, 1>>]}}

(* The modes, with the graph off, able to rank, and able to add; with and  *)
(* without a reranker; failing open or not.                                *)
NoGraph == [graph |-> FALSE, graphFailOpen |-> FALSE, graphWeight |-> 0,
            rerankWithGraph |-> FALSE, allowGraphOnly |-> FALSE, maxGraphOnly |-> NoLimit]
RankingGraph == [NoGraph EXCEPT !.graph = TRUE, !.graphWeight = 2, !.rerankWithGraph = TRUE]
AddingGraph == [RankingGraph EXCEPT !.graphFailOpen = TRUE, !.allowGraphOnly = TRUE]
MCGraphs == {NoGraph, [NoGraph EXCEPT !.graph = TRUE, !.graphFailOpen = TRUE, !.allowGraphOnly = TRUE],
             RankingGraph, AddingGraph, [AddingGraph EXCEPT !.maxGraphOnly = 0]}
NoRerank == [rerank |-> FALSE, inputK |-> 0, rerankFailOpen |-> FALSE]
MCReranks == {NoRerank, [NoRerank EXCEPT !.rerank = TRUE, !.inputK = 3],
              [NoRerank EXCEPT !.rerank = TRUE, !.inputK = 3, !.rerankFailOpen = TRUE]}
Mode(m) == [mode |-> m, embeddingWeight |-> 7, bm25Weight |-> 3, candidateK |-> 2]
MCSearchConfigs ==
  {Mode("hybrid") @@ g @@ r : g \in MCGraphs, r \in MCReranks} \cup
  {[Mode("hybrid") EXCEPT !.embeddingWeight = 3, !.bm25Weight = 7] @@ NoGraph @@ NoRerank} \cup
  {Mode(m) @@ g @@ NoRerank : m \in {"dense", "bm25", "graph"}, g \in {NoGraph, RankingGraph, AddingGraph}}

(* Two texts, of which one has a character of two bytes; entities with one *)
(* id, with an id twice, with another's id; facts that are quoted, quoted  *)
(* at the wrong place, by a range, in the middle of a character, not at    *)
(* all; with predicates that are known, unknown and worthless; with ids of *)
(* one another, and confidences and times a model makes up.                *)
One(c) == << <<c, TRUE>> >>
Two(c) == << <<c, TRUE>>, <<c, FALSE>> >>
MCMemoryTexts == {One("a") \o Two("e") \o One(" ") \o One("a"), One("a") \o One("b") \o One(" ")}
MCEntity(id, name, type, c) == [id |-> id, name |-> name, type |-> type, confidence |-> c]
MCAmy == MCEntity(<<1>>, "amy", "PERSON", NoNumber)
MCRome == MCEntity(<<2>>, "rome", "CITY", 5)
MCEntityLists ==
  {<<MCAmy, MCRome>>, <<MCAmy, Malformed, MCRome, [MCAmy EXCEPT !.confidence = 7]>>,
   <<MCAmy, MCRome, [MCRome EXCEPT !.name = "bonn"]>>,
   <<MCAmy, [MCRome EXCEPT !.type = "MOOD", !.confidence = 11]>>, <<MCAmy>>}
MCSpan(text, from, to) == [text |-> text, from |-> from, to |-> to]
MCFact == [id |-> <<3>>, subject |-> <<1>>, predicate |-> "LIVES_IN", object |-> <<2>>,
           text |-> "lives there", confidence |-> 5, when |-> NoText, valid |-> NoTime,
           evidence |-> <<MCSpan(One("a"), NoByte, NoByte)>>]
MCFacts ==
  {MCFact, [MCFact EXCEPT !.predicate = "OWNS", !.confidence = 9],
   [MCFact EXCEPT !.evidence = <<MCSpan(Two("e"), 0, 1)>>, !.text = "went there"],
   [MCFact EXCEPT !.evidence = <<MCSpan(One("z"), 0, 1), MCSpan(One("a"), 4, 5)>>, !.text = "went there",
                  !.id = <<3, 2>>],
   [MCFact EXCEPT !.evidence = <<MCSpan(NoText, 1, 2)>>, !.when = One("a"), !.valid = <<2, 1>>],
   [MCFact EXCEPT !.evidence = <<MCSpan(One("z"), 0, 1), MCSpan(NoText, NoByte, NoByte)>>],
   [MCFact EXCEPT !.evidence = <<MCSpan(One(" "), NoByte, NoByte)>>, !.when = One("z"), !.text = "stays"],
   [MCFact EXCEPT !.predicate = "MENTIONED"], [MCFact EXCEPT !.text = "thanks"],
   [MCFact EXCEPT !.object = <<1>>], [MCFact EXCEPT !.text = Blank, !.id = <<4>>],
   [MCFact EXCEPT !.confidence = -1, !.predicate = "RELATED_TO", !.valid = <<2, 1>>], Malformed}
MCAlike == {[f EXCEPT !.text = t] : f \in {x \in MCFacts \ {Malformed} : x.id # <<4>> /\ x.evidence[1].from = NoByte},
                                    t \in {"lives there", "went there"}}
MCFactLists == SeqOf(MCFacts, 2) \cup {<<f, g, h>> : f, g \in MCAlike, h \in {MCFact, [MCFact EXCEPT !.id = <<3, 2>>]}}
MCAnswers == {[kind |-> "answer", entities |-> e, facts |-> f] : e \in MCEntityLists, f \in MCFactLists}
MCBusy == [kind |-> "busy"]
MCReplies ==
  {<<a>> : a \in MCAnswers} \cup
  {[k \in 1 .. n |-> MCBusy] \o <<[kind |-> "answer", entities |-> e, facts |-> <<MCFact>>]>> :
     n \in 1 .. 6, e \in MCEntityLists} \cup
  {<<MCBusy, [kind |-> k], MCBusy>> : k \in {"refused", "odd"}}
MCRegistries ==
  {[types |-> <<"PERSON", "LOCATION", "CONCEPT">>, predicates |-> {"LIVES_IN", "RELATED_TO", "MENTIONED"}],
   [types |-> <<"OBJECT">>, predicates |-> {"LIVES_IN"}]}

(* Up to three words of ideographs, letters and digits, joined or not,     *)
(* alone or with something before and after them.                          *)
MCWords == {<<"x", "y">>, <<"x">>, <<"z", "x">>, <<"w">>, <<"a">>, <<"w", "a">>, <<"5">>,
            <<"5", ".", "5">>, <<"-", "5">>, <<"w", "-", "a">>, <<"5", "-", "7">>, <<"x", "w">>}
Spaced(words) == FlattenSeq([k \in DOMAIN words |-> IF k = 1 THEN words[k] ELSE <<" ">> \o words[k]])
MCFewWords == {<<"x", "y">>, <<"w">>, <<"5">>, <<"5", ".", "5">>, <<"w", "-", "a">>}
MCQueries == {Spaced(s) : s \in (SeqOf(MCWords, 2) \cup SeqOf(MCFewWords, 3)) \ {<<>>}}
MCSettings == {<<b, a>> : b \in {<<>>, <<"y", " ">>, <<"5", ".", " ">>}, a \in {<<>>, <<" ", "w">>, <<" ", "-", "7">>}}
MCEdits == SeqOf({"x", "y", "z"}, 4)

(* A document of up to three chunks and one of up to two, or gone; up to   *)
(* two records found, one of them perhaps unrelated, of another document   *)
(* or of a chunk that is no more.                                          *)
MCWanted == [text |-> <<"w">>, lines |-> 1]
MCOther == [text |-> <<"z">>, lines |-> 2]
MCLibraries ==
  {[d1 |-> a, d2 |-> b] : a \in {s \in SeqOf({MCWanted, MCOther}, 3) : Len(s) \in {1, 3}},
                          b \in {<<>>, <<MCWanted>>, <<MCOther, MCWanted>>}}
MCRecord(d, c, s) == [doc |-> d, chunk |-> c, score |-> s, text |-> <<"w">>]
MCRecordsFound ==
  {MCRecord(p[1], p[2], s) :
     p \in {<<"d1", 0>>, <<"d1", 1>>, <<"d1", 3>>, <<"d2", 0>>, <<"d2", 1>>, <<NoDocument, 0>>},
     s \in {1000, 870, 451}}
  \cup {[MCRecord("d1", 2, 1000) EXCEPT !.text = <<"z">>], MCRecord("d1", 2, 449)}
MCFinds == SeqOf(MCRecordsFound, 2)
MCAsked == {<<"w">>}
MCTopKs == 0 .. 4

(* Rows of two scopes and of none, of another profile, of another length   *)
(* and of no profile; up to three texts, of which two may be the same, in  *)
(* batches of two or one; services that answer in any order, in part, some *)
(* of it twice, with some of it numbered, with vectors of another length,  *)
(* after a while, or not at all.                                           *)
MCRow(id, t, s, p, d) ==
  [id |-> id, text |-> t, scope |-> s, profile |-> p, vector |-> [of |-> t, dims |-> d], created |-> 1]
MCRows ==
  {<<>>, <<MCRow(2, "x", "a", "p", 2), MCRow(1, "y", "a", "p", 2)>>, <<MCRow(1, "y", "b", "p", 2), MCRow(2, "x", "a", "p", 2)>>,
   <<MCRow(1, "x", "a", "q", 3)>>, <<MCRow(3, "y", "a", Unprofiled, 3), MCRow(1, "x", "b", "p", 2)>>,
   <<MCRow(1, "x", NoScope, "q", 3)>>}
MCWay(s, o, i, d) == [status |-> s, order |-> o, indexed |-> i, dims |-> d]
MCWays ==
  {Perfect.then, MCWay(200, <<1, 2, 3>>, {}, 2), MCWay(200, <<2, 1>>, {1, 2}, 2), MCWay(200, <<1, 1>>, {1}, 2),
   MCWay(200, <<1>>, {1}, 2), MCWay(200, <<2, 1>>, {1}, 2), MCWay(200, <<1, 2, 3>>, {}, 3),
   MCWay(400, <<>>, {}, 2), MCWay(503, <<>>, {}, 2)}
MCServices ==
  {<<[busy |-> 0, then |-> v], [busy |-> 0, then |-> w], Perfect>> : v, w \in MCWays}
  \cup {<<[busy |-> n, then |-> w], Perfect, Perfect>> : n \in {7, 8}, w \in {Perfect.then, MCWay(200, <<1, 1>>, {1}, 2)}}
MCBatches == {<<0, 0>>, <<1, 0>>, <<2, 0>>, <<2, 3>>, <<2, 4>>}
MCAddition(id, t, s, o) == [id |-> id, text |-> t, scope |-> s, object |-> o]
MCAdds == {MCAddition(NoId, "x", "a", TRUE), MCAddition(1, "z", "a", TRUE), MCAddition(2, "y", NoScope, FALSE),
           MCAddition(NoId, "y", "b", TRUE)}
MCAdditions ==
  SeqOf(MCAdds, 2) \cup {<<a, b, MCAddition(NoId, "y", "a", TRUE)>> : a, b \in {MCAddition(NoId, "x", "a", TRUE), MCAddition(1, "z", "b", TRUE)}}
  \cup {<<MCAddition(NoId, EmptyText, "a", TRUE)>>}
MCQuestion(t, s, k) == [text |-> t, scope |-> s, topK |-> k]
MCQuestions ==
  SeqOf({MCQuestion("x", "a", 2), MCQuestion("y", "a", 1), MCQuestion("y", "b", 0)}, 2)
  \cup {<<MCQuestion("x", "a", 2), q, MCQuestion("y", "a", 2)>> : q \in {MCQuestion("y", "b", 0), MCQuestion("x", "a", 1)}}
  \cup {<<MCQuestion("x", "a", 1), MCQuestion(EmptyText, "a", 1)>>}

(* Up to three units about two records and one of another scope; and as    *)
(* many facts about one as are noted, one less, one more.                  *)
MCGraphFact(n, long) == [fact |-> n, long |-> long]
MCUnit(s, f, r) == [kind |-> "fact", score |-> s, fact |-> f, records |-> r]
MCUnits ==
  {MCUnit(s, f, r) : s \in {1, 2}, f \in {MCGraphFact(1, FALSE), MCGraphFact(2, TRUE), MCGraphFact(3, FALSE)},
                     r \in {<<1>>, <<1, 2>>, <<3>>}}
  \cup {[kind |-> "record", score |-> s, records |-> <<1>>] : s \in {1, 3}}
MCMany(n) == [k \in 1 .. n |-> MCUnit(1, MCGraphFact(k, FALSE), <<1>>)]
MCContexts == SeqOf(MCUnits, 3) \cup {MCMany(n) \o u : n \in 15 .. 17, u \in SeqOf(MCUnits, 1)}

(* Memories of two types and of three times, which they may not all have;  *)
(* and many that are not what is asked for before one that is: as many as  *)
(* are looked at, and as are looked at at most, one less, some more.       *)
MCMemory(t, p) == [type |-> t, time |-> p[1], normalized |-> p[2], raw |-> p[3]]
MCMemories ==
  {MCMemory(t, p) : t \in {"event", "fact"},
     p \in {<<Unknown, Unknown, Unknown>>, <<2, Unknown, Unknown>>, <<Unknown, 1, 3>>, <<Unknown, Unknown, 3>>}}
MCLate(n) == [k \in 1 .. n |-> MCMemory("fact", <<1, Unknown, Unknown>>)]
              \o <<MCMemory("event", <<Unknown, 2, 2>>)>>
MCRanked ==
  {[k \in DOMAIN s |-> [id |-> k] @@ s[k]] : s \in SeqOf(MCMemories, 3) \cup {MCLate(n) : n \in {4, 5, 9, 10, 19, 20, 498, 499, 500, 505, 509, 510}}}
MCWishes ==
  {[topK |-> k, types |-> t, from |-> f, to |-> u] :
     k \in {1, 2, 50, 51, 100}, t \in {{}, {"event"}}, f \in {Unknown, 2}, u \in {Unknown, 2}}
=============================================================================
