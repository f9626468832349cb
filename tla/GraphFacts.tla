----------------------------- MODULE GraphFacts -----------------------------
(***************************************************************************)
(* The graph of a memory space: what the publication of a record's         *)
(* extraction does to entities, facts and evidence, and what a query gets  *)
(* back (publish_resolution and retrieve_context of GraphRepository).      *)
(* GraphRun shows that a record is published once; each publication is one *)
(* transaction.                                                            *)
(*                                                                         *)
(* A name is [tokens, spelling]: its normal form, and how it was written.  *)
(* A record is [speaker, words, entities, facts]: graph_source_entity, at  *)
(* most one; its text; what the model extracted, facts naming entities by  *)
(* position.                                                               *)
(* A query is [words, subject, speaker], the last two at most one name.    *)
(***************************************************************************)
EXTENDS Integers, Sequences, FiniteSets, SequencesExt, TLC

CONSTANTS Records, Queries,
          StopWords,          \* words a query is not searched for
          WordPrefixes,       \* pairs <<term, word>>: the word begins with the term
          MaxPublished,       \* bound on the records published
          TopK, SeedLimit, EvidenceLimit

(* Texts and a record's parts are sequences; what they are sequences of is *)
(* free.                                                                   *)
IsSequence(s) == s \in Seq(ToSet(s))
ASSUME RecordsAreExtractions ==
  \A r \in Records :
    /\ IsSequence(r.speaker) /\ IsSequence(r.entities) /\ IsSequence(r.facts)
    /\ IsSequence(r.words)
    /\ \A e \in ToSet(r.speaker) \cup ToSet(r.entities) : IsSequence(e.name.tokens)
    /\ \A f \in ToSet(r.facts) : IsSequence(f.text)
ASSUME QueriesAreTexts == \A q \in Queries : IsSequence(q.words)

(* retrieve_context_sync refuses limits of zero.                           *)
ASSUME LimitsAreValidated == {TopK, SeedLimit, EvidenceLimit} \subseteq Nat \ {0}

VARIABLES published,  \* graph_memory_records, in the order of ingestion
          entities,   \* graph_entities
          aliases,    \* graph_entity_aliases: <<entity, normal form>>
          links,      \* graph_record_entity_links: <<record, entity, kind>>
          facts,      \* graph_facts
          evidence    \* graph_fact_evidence, with its group: <<fact, record>>

vars == <<published, entities, aliases, links, facts, evidence>>

Init == /\ published = <<>> /\ entities = <<>> /\ facts = <<>>
        /\ aliases = {} /\ links = {} /\ evidence = {}
-----------------------------------------------------------------------------
(* The positions in S, in the order R; of two that R does not order, the    *)
(* lower comes first.                                                      *)
Precedes(R, x, y) == <<x, y>> \in R \/ (<<y, x>> \notin R /\ x < y)
Sorted(S, R) ==
  [k \in 1 .. Cardinality(S) |->
     CHOOSE x \in S : Cardinality({y \in S : Precedes(R, y, x)}) = k - 1]

(* The lookups.  Ties in time are broken by ids, which are random.          *)
Norm(name) == name.tokens
Before(x, y) == x.at < y.at \/ (x.at = y.at /\ x.id < y.id)
InOrder(table, S) == Sorted(S, {x \in S \X S : Before(table[x[1]], table[x[2]])})
InIdOrder(table, S) == Sorted(S, {x \in S \X S : table[x[1]].id < table[x[2]].id})
FirstOf(s) == IF s = <<>> THEN {} ELSE {s[1]}
FirstFew(s, n) == SubSeq(s, 1, IF n < Len(s) THEN n ELSE Len(s))

FindByName(es, name, type) ==
  {e \in DOMAIN es : es[e].type = type /\ Norm(es[e].name) = Norm(name)}
FindByAlias(es, as, name, type) ==
  LET found == {e \in DOMAIN es : es[e].type = type /\ <<e, Norm(name)>> \in as}
  IN  IF Cardinality(found) = 1 THEN found ELSE {}

(* resolve_entity_candidate: an entity by its name, else by an alias that  *)
(* is nobody else's, else a new one; its name becomes an alias.            *)
Resolve(acc, e, at, id) ==
  LET known == FindByName(acc.entities, e.name, e.type)
      alias == FindByAlias(acc.entities, acc.aliases, e.name, e.type)
      found == IF known # {} THEN known ELSE alias
      chosen == IF found # {} THEN CHOOSE k \in found : TRUE ELSE Len(acc.entities) + 1
  IN  [entities |-> IF found # {} THEN acc.entities
                    ELSE Append(acc.entities, [name |-> e.name, type |-> e.type, at |-> at,
                                               id |-> id + Len(acc.entities)]),
       aliases  |-> acc.aliases \cup {<<chosen, Norm(e.name)>>},
       chosen   |-> Append(acc.chosen, chosen)]
ResolveAll(candidates, at, id) ==
  FoldLeft(LAMBDA acc, e : Resolve(acc, e, at, id),
           [entities |-> entities, aliases |-> aliases, chosen |-> <<>>], candidates)

(* Mutant of SameFact: what a fact is about is not part of its key.        *)
SameFactAnyObject(f, g) ==
  <<f.subject, f.predicate, f.text>> = <<g.subject, g.predicate, g.text>>

(* fact_dedup_key.                                                         *)
SameFact(f, g) ==
  <<f.subject, f.predicate, f.object, f.text>> = <<g.subject, g.predicate, g.object, g.text>>

(* resolve_fact_candidate, insert_fact_evidence_group.                     *)
AddFact(acc, f, r) ==
  LET same == {k \in DOMAIN acc.facts : SameFact(acc.facts[k], f)}
      k == IF same # {} THEN CHOOSE x \in same : TRUE ELSE Len(acc.facts) + 1
  IN  [facts |-> IF same # {} THEN acc.facts ELSE Append(acc.facts, f),
       evidence |-> acc.evidence \cup {<<k, r>>}]

(* The loop of publish_resolution over the facts it has resolved.          *)
AddAll(resolved, r) ==
  FoldLeft(LAMBDA acc, f : AddFact(acc, f, r),
           [facts |-> facts, evidence |-> evidence], resolved)

(* validate_against_record: a fact names entities of the same extraction.  *)
Valid(r) ==
  \A k \in DOMAIN r.facts : {r.facts[k].subject, r.facts[k].object} \subseteq DOMAIN r.entities

(* insert_record_entity_link, for every entity extracted.                  *)
Mentioned(r, chosen) ==
  {<<r, chosen[k], "mention">> : k \in Len(r.speaker) + 1 .. Len(chosen)}

(* publish_resolution.  The ids of a publication come before or after all  *)
(* others, as they may.                                                    *)
Publish(r, early) ==
  LET at == Len(published) + 1
      id == IF early THEN -10 * at ELSE 10 * at
      found == ResolveAll(r.speaker \o r.entities, at, id)
      entity(k) == found.chosen[Len(r.speaker) + k]
      fact(k) == LET f == r.facts[k]
                 IN  [subject |-> entity(f.subject), predicate |-> f.predicate,
                      object |-> entity(f.object), text |-> f.text, at |-> at, id |-> id + k]
      added == AddAll([k \in DOMAIN r.facts |-> fact(k)], r)
  IN  /\ Len(published) < MaxPublished
      /\ r \notin ToSet(published)
      /\ Valid(r)
      /\ published' = Append(published, r)
      /\ entities' = found.entities
      /\ aliases' = found.aliases
      /\ links' = links \cup Mentioned(r, found.chosen)
                    \cup {<<r, found.chosen[k], "source">> : k \in DOMAIN r.speaker}
      /\ facts' = added.facts
      /\ evidence' = added.evidence

Next == \E r \in Records, early \in BOOLEAN : Publish(r, early)
Spec == Init /\ [][Next]_vars
-----------------------------------------------------------------------------
(* SQLite's full text search: a text with any of the terms, the ones with  *)
(* more of them first, which stands for bm25.                              *)
Hits(text, terms) == Cardinality(terms \cap ToSet(text))
Ranked(table, texts, S, terms) ==
  LET hits(k) == Hits(texts[k], terms)
      first(x, y) == hits(x) > hits(y) \/ (hits(x) = hits(y) /\ Before(table[x], table[y]))
      matching == {k \in S : hits(k) > 0}
  IN  Sorted(matching, {x \in matching \X matching : first(x[1], x[2])})
Names == [e \in DOMAIN entities |-> Norm(entities[e].name)]
Texts == [f \in DOMAIN facts |-> facts[f].text]

Speaks(e) == \E r \in ToSet(published) : <<r, e, "source">> \in links
SpokenBy(r, S) == S = {} \/ \E e \in S : <<r, e, "source">> \in links

(* find_active_entity_by_normalized_name: the oldest of any type.          *)
FindEntity(name) ==
  LET named == {e \in DOMAIN entities : Norm(entities[e].name) = Norm(name)}
      alias == {e \in DOMAIN entities : <<e, Norm(name)>> \in aliases}
  IN  FirstOf(InOrder(entities, IF named # {} THEN named ELSE alias))

(* contiguous_token_match_position: where a name is in a query, 0 if not.  *)
At(words, tokens) ==
  LET places == {p \in 1 .. Len(words) - Len(tokens) + 1 :
                   SubSeq(words, p, p + Len(tokens) - 1) = tokens}
  IN  IF tokens = <<>> \/ places = {} THEN 0 ELSE CHOOSE p \in places : \A x \in places : p <= x
NameLength(e) == Len(Names[e])

(* Mutant of Longest: the first of several of one name.                    *)
LongestFirst(S) ==
  FirstOf(InOrder(entities, {e \in S : \A x \in S : NameLength(x) <= NameLength(e)}))

(* The longest name of those at one place, if it is one entity's alone.    *)
Longest(S) ==
  LET longest == {e \in S : \A x \in S : NameLength(x) <= NameLength(e)}
  IN  IF Cardinality(longest) = 1 THEN longest ELSE {}

(* resolve_query_source_actors: the speakers a query names, place by place.*)
MAX_GRAPH_QUERY_ACTORS == 8
QueryActors(words) ==
  LET speakers == {e \in DOMAIN entities : Speaks(e)}
      seen == ToSet(FirstFew(Ranked(entities, Names, speakers, ToSet(words) \ StopWords), SeedLimit))
      here(p) == Longest({e \in seen : At(words, Names[e]) = p})
      spans == {x \in (DOMAIN words) \X seen : x[2] \in here(x[1])}
      cells(x) == x[1] .. x[1] + NameLength(x[2]) - 1
      kept == CHOOSE T \in SUBSET spans : \A x \in spans :
                x \in T <=> \A y \in T : y[1] < x[1] => cells(x) \cap cells(y) = {}
      inOrder == Sorted({x[1] : x \in kept}, {})
      actor(p) == (CHOOSE x \in kept : x[1] = p)[2]
  IN  FirstFew([k \in DOMAIN inOrder |-> actor(inOrder[k])], MAX_GRAPH_QUERY_ACTORS)

Targets(q) ==
  IF q.subject # <<>> THEN FindEntity(q.subject[1]) ELSE ToSet(QueryActors(q.words))

(* What retrieve_context knows of a query before it looks for facts:       *)
(* whom it is about, the terms to search facts and entities for            *)
(* (graph_fts_query_plan: those of a relation by how its words begin), and *)
(* whose records count: the speaker asked for, else the targets who spoke. *)
Plan(q) ==
  LET targets == Targets(q)
      words == IF q.subject # <<>> /\ targets # {} THEN ToSet(Norm(q.subject[1]))
               ELSE UNION {ToSet(Names[e]) : e \in targets}
      terms == (ToSet(q.words) \ StopWords) \ words
  IN  [targets  |-> targets,
       relation |-> terms \cup {x[2] : x \in {y \in WordPrefixes : y[1] \in terms}},
       entity   |-> terms \cup (words \ StopWords),
       asked    |-> {e \in UNION {FindEntity(name) : name \in ToSet(q.speaker)} : Speaks(e)},
       named    |-> IF q.speaker # <<>> THEN {} ELSE {e \in targets : Speaks(e)}]

(* A fact's evidence is of the speaker asked for, else of its own subject. *)
SpeakersOf(p, f) == IF p.asked # {} THEN p.asked ELSE p.named \cap {facts[f].subject}
-----------------------------------------------------------------------------
(* Self-loops and mentions are noise.                                      *)
Signal(f) == facts[f].subject # facts[f].object /\ facts[f].predicate # "MENTIONED"
FactsAbout(S) == {f \in DOMAIN facts : Signal(f) /\ (S = {} \/ facts[f].subject \in S)}

(* collect_fact_text_seeds, collect_record_evidence_fact_seeds.            *)
TextSeeds(S, terms) == FirstFew(Ranked(facts, Texts, FactsAbout(S), terms), SeedLimit)
ByEvidence(S, terms) ==
  {f \in FactsAbout(S) : \E r \in ToSet(published) : <<f, r>> \in evidence /\ Hits(r.words, terms) > 0}
EvidenceSeeds(S, terms) == FirstFew(InOrder(facts, ByEvidence(S, terms)), SeedLimit)

(* merge_graph_seeds: the best rank of each; a tie goes to the lower id.   *)
RankIn(s, x) == IF x \in ToSet(s) THEN CHOOSE k \in DOMAIN s : s[k] = x ELSE SeedLimit + 1
BestRank(lists, x) ==
  CHOOSE k \in {RankIn(l, x) : l \in lists} : \A l \in lists : k <= RankIn(l, x)
MergeSeeds(table, lists) ==
  LET seeds == UNION {ToSet(l) : l \in lists}
      first(x, y) == \/ BestRank(lists, x) < BestRank(lists, y)
                     \/ BestRank(lists, x) = BestRank(lists, y) /\ table[x].id < table[y].id
  IN  FirstFew(Sorted(seeds, {x \in seeds \X seeds : first(x[1], x[2])}), SeedLimit)

(* collect_graph_seeds, for each target on its own.  Entities, found by    *)
(* their names or their aliases, count nothing: they come after the facts. *)
EachTarget(p) == IF p.targets = {} THEN {{}} ELSE {{e} : e \in p.targets}
FactLists(p) ==
  UNION {{TextSeeds(S, p.relation), EvidenceSeeds(S, p.relation)} : S \in EachTarget(p)}
EntitySeeds(p, seeds) ==
  LET named == Ranked(entities, Names, DOMAIN entities, p.entity)
      known == InOrder(entities, ToSet(named))
  IN  FirstFew(InIdOrder(entities, ToSet(FirstFew(named, SeedLimit) \o FirstFew(known, SeedLimit))),
               SeedLimit - Len(seeds))

(* active_facts_for_entity.                                                *)
Around(p, e) ==
  UNION {ToSet(FirstFew(InOrder(facts, {f \in FactsAbout(S) : e \in {facts[f].subject, facts[f].object}}),
                        TopK)) : S \in EachTarget(p)}

BestFirst(lists, S) ==
  LET first(x, y) == \/ BestRank(lists, x) < BestRank(lists, y)
                     \/ BestRank(lists, x) = BestRank(lists, y) /\ Before(facts[x], facts[y])
  IN  Sorted(S, {x \in S \X S : first(x[1], x[2])})
Surroundings(p, seeds) == UNION {Around(p, e) : e \in ToSet(EntitySeeds(p, seeds))}

(* Mutant of ExpandSeeds: the surroundings of the entities come in too.    *)
ExpandSeedsAlways(p) ==
  LET seeds == MergeSeeds(facts, FactLists(p))
  IN  FirstFew(seeds \o InOrder(facts, Surroundings(p, seeds) \ ToSet(seeds)), TopK)

(* expand_seed_facts: what matched; only when no fact did, what is around  *)
(* the entities that did.                                                  *)
ExpandSeeds(p) ==
  LET lists == FactLists(p)
      seeds == MergeSeeds(facts, lists)
  IN  FirstFew(IF seeds # <<>> THEN BestFirst(lists, ToSet(seeds))
               ELSE InOrder(facts, Surroundings(p, seeds)), TopK)

(* load_evidence_records_for_fact: the oldest few, of the right speaker.   *)
EvidenceOf(p, f) ==
  LET of(k) == <<f, published[k]>> \in evidence /\ SpokenBy(published[k], SpeakersOf(p, f))
      few == FirstFew(Sorted({k \in DOMAIN published : of(k)}, {}), EvidenceLimit)
  IN  [k \in DOMAIN few |-> published[few[k]]]

(* load_direct_evidence_record_context_units, of a speaker or of anyone.   *)
RecordsOf(S, terms) ==
  LET hits(k) == Hits(published[k].words, terms)
      matching == {k \in DOMAIN published : hits(k) > 0 /\ SpokenBy(published[k], S)}
  IN  FirstFew(FirstFew(Sorted(matching, {x \in matching \X matching : hits(x[1]) > hits(x[2])}),
                        SeedLimit), TopK)
BestRecords(lists) ==
  LET found == UNION {ToSet(l) : l \in lists}
      better == {x \in found \X found : BestRank(lists, x[1]) < BestRank(lists, x[2])}
      few == FirstFew(Sorted(found, better), TopK)
  IN  [k \in DOMAIN few |-> published[few[k]]]
DirectRecords(p) ==
  LET whose == IF p.asked # {} THEN {p.asked}
               ELSE IF p.named = {} THEN {{}} ELSE {{e} : e \in p.named}
  IN  BestRecords({RecordsOf(S, IF p.relation # {} THEN p.relation ELSE p.entity) : S \in whose})

(* retrieve_context.                                                       *)
Retrieve(p) ==
  LET chosen == ExpandSeeds(p)
  IN  [facts |-> [k \in DOMAIN chosen |->
                    [fact |-> chosen[k], records |-> EvidenceOf(p, chosen[k])]],
       records |-> DirectRecords(p)]
-----------------------------------------------------------------------------
(* What an extraction says, by names.                                      *)
Who(e) == <<Norm(e.name), e.type>>
Said(r) == {<<Who(r.entities[r.facts[k].subject]), r.facts[k].predicate,
              Who(r.entities[r.facts[k].object]), r.facts[k].text>> : k \in DOMAIN r.facts}
Stored(f) == <<Who(entities[facts[f].subject]), facts[f].predicate,
               Who(entities[facts[f].object]), facts[f].text>>

(* The graph is what the records say, each fact once with exactly the      *)
(* records that say it as its evidence, in whatever order they came, and    *)
(* such a record is linked to both entities of its fact.                   *)
GraphIsWhatWasSaid ==
  /\ \A f, g \in DOMAIN facts : f # g => Stored(f) # Stored(g)
  /\ \A e, d \in DOMAIN entities : e # d => Who(entities[e]) # Who(entities[d])
  /\ {<<Stored(x[1]), x[2]>> : x \in evidence} =
       UNION {{<<s, r>> : s \in Said(r)} : r \in ToSet(published)}
  /\ {x[1] : x \in evidence} = DOMAIN facts
  /\ \A x \in evidence : \A e \in {facts[x[1]].subject, facts[x[1]].object} :
       <<x[2], e, "mention">> \in links

(* The speakers found in a query are named in it at places of their own,   *)
(* and none of them shares its name with another speaker.                  *)
ActorsApart ==
  \A q \in Queries :
    LET actors == QueryActors(q.words)
        place(e) == LET p == At(q.words, Norm(entities[e].name))
                    IN  p .. p + Len(Norm(entities[e].name)) - 1
    IN  \A k \in DOMAIN actors :
          /\ place(actors[k]) \subseteq DOMAIN q.words
          /\ \A j \in DOMAIN actors : j # k => place(actors[j]) \cap place(actors[k]) = {}
          /\ \A e \in DOMAIN entities :
               /\ Speaks(e) /\ Norm(entities[e].name) = Norm(entities[actors[k]].name)
               /\ Cardinality({d \in DOMAIN entities : Speaks(d)}) <= SeedLimit
               => e = actors[k]

Plans == {Plan(q) : q \in Queries}
Told(answer) ==
  (UNION {ToSet(found.records) : found \in ToSet(answer.facts)}) \cup ToSet(answer.records)
KeepsTo(p, answer) ==
  /\ \A found \in ToSet(answer.facts) :
       /\ p.targets # {} => facts[found.fact].subject \in p.targets
       /\ Signal(found.fact)
       /\ facts[found.fact].subject \in p.named =>
            \A r \in ToSet(found.records) : SpokenBy(r, {facts[found.fact].subject})
  /\ p.asked # {} => \A r \in Told(answer) : SpokenBy(r, p.asked)
  /\ p.named # {} => \A r \in ToSet(answer.records) : SpokenBy(r, p.named)

(* A query about somebody, whom it names without doubt, gets facts about   *)
(* them only, and never noise; and of the records, none another has said    *)
(* when they ever spoke themselves.                                         *)
AnswersKeepToTheTarget == ActorsApart /\ \A p \in Plans : KeepsTo(p, Retrieve(p))

Matches(p, f) ==
  \/ Hits(facts[f].text, p.relation) > 0
  \/ \E r \in ToSet(published) : <<f, r>> \in evidence /\ Hits(r.words, p.relation) > 0
FindsMatches(matching, found) ==
  matching # {} =>
    /\ found \subseteq matching
    /\ Cardinality(matching) <= TopK /\ Cardinality(matching) <= SeedLimit => matching \subseteq found

(* Facts that match a query themselves are not lost among, or replaced by, *)
(* what merely is around the entities it names.                            *)
MatchesAreFound ==
  \A p \in Plans : FindsMatches({f \in FactsAbout(p.targets) : Matches(p, f)}, ToSet(ExpandSeeds(p)))
=============================================================================
