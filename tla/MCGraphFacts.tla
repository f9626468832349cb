---------------------------- MODULE MCGraphFacts ----------------------------
(***************************************************************************)
(* A few records about Ann, Ann Lee and Bob, who also is a company, and    *)
(* queries that name them or not.                                          *)
(***************************************************************************)
EXTENDS GraphFacts

Name(tokens, spelling) == [tokens |-> tokens, spelling |-> spelling]
Person(tokens) == [name |-> Name(tokens, 1), type |-> "PERSON"]
Company(tokens) == [name |-> Name(tokens, 1), type |-> "ORGANIZATION"]
Shouted(e) == [e EXCEPT !.name.spelling = 2]
Fact(s, p, o, text) == [subject |-> s, predicate |-> p, object |-> o, text |-> text]
Record(speaker, words, es, fs) ==
  [speaker |-> speaker, words |-> words, entities |-> es, facts |-> fs]

ann == Person(<<"ann">>)
lee == Person(<<"ann", "lee">>)
bob == Person(<<"bob">>)
MCRecords ==
  {Record(<<ann>>, <<"bob", "likes", "tea">>, <<Shouted(ann), bob>>,
          <<Fact(1, "FRIEND_OF", 2, <<"ann", "knows", "bob">>), Fact(2, "LIKES", 2, <<"tea">>)>>),
   Record(<<bob>>, <<"met", "ann", "lee">>, <<bob, lee, ann>>,
          <<Fact(1, "FRIEND_OF", 2, <<"knows">>), Fact(3, "FRIEND_OF", 1, <<"ann", "knows", "bob">>)>>),
   Record(<<>>, <<"ann", "knows", "bob">>, <<ann, Company(<<"bob">>)>>,
          <<Fact(1, "WORKS_AT", 2, <<"works">>), Fact(1, "FRIEND_OF", 2, <<"ann", "knows", "bob">>)>>),
   Record(<<lee>>, <<"tea", "works">>, <<lee, bob>>,
          <<Fact(2, "MENTIONED", 1, <<"tea">>), Fact(1, "LIKES", 2, <<"tea", "trips">>)>>),
   Record(<<Company(<<"bob">>)>>, <<"hiring">>, <<Company(<<"bob">>), bob>>,
          <<Fact(1, "RELATED_TO", 2, <<"hiring">>)>>),
   Record(<<ann>>, <<"lost">>, <<ann>>, <<Fact(1, "LIKES", 2, <<"lost">>)>>)}

Query(words) == [words |-> words, subject |-> <<>>, speaker |-> <<>>]
MCQueries ==
  {Query(<<"who", "likes", "tea">>), Query(<<"ann", "lee", "knows", "bob">>),
   Query(<<"bob", "hiring">>), Query(<<"what", "trip">>), Query(<<"lee", "ann">>),
   [Query(<<"knows">>) EXCEPT !.subject = <<Name(<<"ann">>, 3)>>],
   [Query(<<"tea">>) EXCEPT !.speaker = <<Name(<<"bob">>, 1)>>],
   [Query(<<"works", "tea">>) EXCEPT !.subject = <<Name(<<"eve">>, 1)>>, !.speaker = <<Name(<<"ann">>, 1)>>]}
MCStopWords == {"who", "what"}
MCPrefixes == {<<"trip", "trips">>}
=============================================================================
