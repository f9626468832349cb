----------------------------- MODULE Algorithms -----------------------------
(***************************************************************************)
(* The functions of Windows, Parsing, Chunks, Summaries, Retrieval,        *)
(* Extraction, CaseSearch, Records and SearchResults, each applied to every*)
(* input of a bounded set, and what is to hold of their results.           *)
(***************************************************************************)
EXTENDS Windows, Parsing, Chunks, Summaries, Retrieval, Extraction, CaseSearch, Records, SearchResults

CONSTANTS Conversations, WindowConfigs,    \* inputs of BuildWindows
          Spans,                           \* lists of spans, for span_is_covered and union_length
          Manuscripts,                     \* inputs of ParseMarkdown and ParseText
          Documents, ChunkBudgets,         \* inputs of ChunkParseResult
          Bodies, ModelReplies, Names,       \* chunks, models' answers and names, for SummaryLines
          Stores, Requests, SearchConfigs, \* inputs of Search
          Replies, MemoryTexts, Registries, \* inputs of Extract
          Queries, Settings,               \* texts asked for, and what stands around them
          Words,                           \* inputs of EditDistanceAtMostOne
          Libraries, Finds, Asked, TopKs,  \* inputs of SearchDataset
          Rows, Services, Batches,         \* what texts are embedded by, and stored among
          Additions, Questions,            \* inputs of AddMany and SearchMany
          Contexts, Ranked, Wishes         \* inputs of GraphHits and Answer

VARIABLE job

(* A job that waits, and the setting it is to be done in.                  *)
ToDo(kinds, settings) == {[kind |-> "to do", what |-> k, in |-> x] : k \in kinds, x \in settings}
Init ==
  \/ job \in ToDo({"parsing"}, {<<>>}) \/ job \in ToDo({"spans"}, {<<>>})
  \/ job \in ToDo({"words"}, Words) \/ job \in ToDo({"texts"}, Settings)
  \/ job \in ToDo({"hits"}, {<<>>}) \/ job \in ToDo({"answer"}, Wishes)
  \/ job \in ToDo({"summing"}, Names) \/ job \in ToDo({"chunks"}, ChunkBudgets)
  \/ job \in ToDo({"windows"}, WindowConfigs) \/ job \in ToDo({"search"}, SearchConfigs)
  \/ job \in ToDo({"adding", "asking many"}, Services)
  \/ job \in ToDo({"extract"}, Registries) \/ job \in ToDo({"cases"}, TopKs)
Waits(what) == job.kind = "to do" /\ job.what = what

Cutting ==
  /\ Waits("windows")
  /\ \E r \in Conversations :
       job' = [kind |-> "windows", records |-> r, cfg |-> job.in, windows |-> BuildWindows(r, job.in)]
Measuring ==
  /\ Waits("spans")
  /\ \E s \in Spans : job' = [kind |-> "spans", spans |-> s]
Chunking ==
  /\ Waits("chunks")
  /\ \E d \in Documents :
       job' = [kind |-> "chunks", nodes |-> d, max |-> job.in, parts |-> ChunkParseResult(d, job.in)]
ParsingIt ==
  /\ Waits("parsing")
  /\ \E d \in Manuscripts :
       job' = [kind |-> "parsing", doc |-> d, nodes |-> ParseMarkdown(d), plain |-> ParseText(d)]
SummingUp ==
  /\ Waits("summing")
  /\ \E c \in Bodies, r \in ModelReplies :
       LET lines == SummaryLines(c, r)
       IN  job' = [kind |-> "summing", chunks |-> c, reply |-> r, name |-> job.in, lines |-> lines,
                   text |-> SearchText(TextLines(job.in[1], job.in[2], lines)), context |-> ContextLines(Last(c))]
Searching ==
  /\ Waits("search")
  /\ \E s \in Stores, q \in Requests :
       job' = [kind |-> "search", store |-> s, req |-> q, cfg |-> job.in, answer |-> Search(s, q, job.in)]
Extracting ==
  /\ Waits("extract")
  /\ \E r \in Replies, t \in MemoryTexts :
       job' = [kind |-> "extract", replies |-> r, record |-> t, registry |-> job.in,
               out |-> Extract(r, t, job.in)]
Asking ==
  /\ Waits("texts")
  /\ \E q \in Queries :
       job' = [kind |-> "texts", query |-> q, text |-> job.in[1] \o q \o job.in[2]]
Comparing ==
  /\ Waits("words")
  /\ \E w \in Words :
       job' = [kind |-> "words", words |-> <<job.in, w>>, alike |-> EditDistanceAtMostOne(job.in, w)]
Showing ==
  /\ Waits("cases")
  /\ \E l \in Libraries, q \in Asked, f \in Finds :
       job' = [kind |-> "cases", library |-> l, query |-> q, found |-> f, topK |-> job.in,
               answer |-> SearchDataset(l, q, f, job.in)]

Env(locked) == [profile |-> "p", dims |-> 2, now |-> 2, locked |-> locked]
Adding ==
  /\ Waits("adding")
  /\ \E rows \in Rows, a \in Additions, b \in Batches :
       LET env == Env(b[2])
       IN  job' = [kind |-> "adding", rows |-> rows, reqs |-> a, services |-> job.in, env |-> env,
                   out |-> AddMany(rows, a, b[1], job.in, env)]
AskingMany ==
  /\ Waits("asking many")
  /\ \E rows \in Rows, q \in Questions, n \in {b[1] : b \in Batches} :
       job' = [kind |-> "asking many", rows |-> rows, reqs |-> q, services |-> job.in, env |-> Env(0),
               out |-> SearchMany(rows, q, n, job.in, Env(0))]
Noting ==
  /\ Waits("hits")
  /\ \E u \in Contexts : job' = [kind |-> "hits", units |-> u, hits |-> GraphHits(u, {1, 2})]
Answering ==
  /\ Waits("answer")
  /\ \E f \in Ranked :
       job' = [kind |-> "answer", found |-> f, req |-> job.in, shown |-> Answer(f, job.in)]

Next ==
  \/ Adding \/ AskingMany \/ Noting \/ Answering
  \/ Cutting \/ Measuring \/ ParsingIt \/ Chunking \/ SummingUp \/ Searching
  \/ Extracting \/ Asking \/ Comparing \/ Showing
Spec == Init /\ [][Next]_job
-----------------------------------------------------------------------------
(* The characters a set of slices of a window stands for.                  *)
Chars(win, S) ==
  UNION {{<<win.refs[k].message, c>> : c \in win.refs[k].from .. win.refs[k].to - 1} : k \in S}

(* What says which of a text the memories' evidence covers is right,       *)
(* whatever the spans overlap.                                             *)
Points(spans) == UNION {spans[k][1] .. spans[k][2] - 1 : k \in DOMAIN spans}
SpansMeasured ==
  job.kind = "spans" =>
    /\ UnionLength(job.spans) = Cardinality(Points(job.spans))
    /\ \A a \in 0 .. 3, b \in 1 .. 4 :
         a < b => (SpanIsCovered(job.spans, a, b) <=> a .. b - 1 \subseteq Points(job.spans))

(* Every character of an eligible message is a candidate in exactly one    *)
(* window, no other character in any, and context is never a candidate;    *)
(* and a window shows the extractor messages of one session only.          *)
CandidatesPartition ==
  job.kind = "windows" =>
    LET W == job.windows
        wanted == UNION {{<<i, c>> : c \in 0 .. Sum(job.records[i].sentences) - 1} :
                           i \in {j \in MessageIndexes(job.records) : job.records[j].eligible}}
    IN  /\ UNION {Chars(W[v], W[v].candidate) : v \in DOMAIN W} = wanted
        /\ \A u, v \in DOMAIN W :
             u # v => Chars(W[u], W[u].candidate) \cap Chars(W[v], W[v].candidate) = {}
        /\ \A v \in DOMAIN W :
             /\ W[v].candidate \cap (W[v].before \cup W[v].after) = {}
             /\ Cardinality({job.records[W[v].refs[k].message].session :
                               k \in W[v].candidate \cup W[v].before \cup W[v].after}) = 1

(* The candidates of a window keep to their budget, the window to its own; *)
(* and a request is only given up for its size when the candidates alone   *)
(* are too long, and otherwise always carries all of them.                 *)
WindowsFit ==
  job.kind = "windows" =>
    \A v \in DOMAIN job.windows :
      LET win == job.windows[v]
          wanted == TokensOf(win.refs, win.candidate)
      IN  /\ wanted <= job.cfg.cand
          /\ TokensOf(win.refs, win.candidate \cup win.before \cup win.after) <= job.cfg.total
          /\ \A budget \in 1 .. job.cfg.total :
               LET sent == Promptable(win, budget)
               IN  IF wanted > budget THEN sent = {}
                   ELSE win.candidate \subseteq sent /\ TokensOf(win.refs, sent) <= budget

(* What the extractor is shown: every candidate once, within the budgets,  *)
(* with evidence of it measured right.                                     *)
WindowsAreSound == SpansMeasured /\ CandidatesPartition /\ WindowsFit

(* The nodes of a document are its text: what it says is in one of them,   *)
(* in order, as code between fences and only there, and each stands under  *)
(* the headings that are in force at its lines.                            *)
IsSpan(lines) == \A k \in DOMAIN lines : lines[k] = Head(lines) + k - 1
InCode(doc, k) ==
  doc[k].kind # "fence" /\ Cardinality({j \in 1 .. k : doc[j].kind = "fence"}) % 2 = 1
InForce(doc, k) ==
  LET headings == {j \in 1 .. k - 1 : doc[j].kind = "heading" /\ ~InCode(doc, j)}
  IN  SelectSeq([j \in 1 .. k - 1 |-> j],
                LAMBDA h : h \in headings /\ \A j \in headings : j > h => doc[j].level > doc[h].level)
ParsedIsTheText ==
  job.kind = "parsing" =>
    LET doc == job.doc
        text == FlattenSeq([n \in DOMAIN job.nodes |-> job.nodes[n].lines])
        said == {k \in DOMAIN doc : IF InCode(doc, k) THEN doc[k].kind # "blank" ELSE doc[k].kind \in {"row", "words"}}
        type(k) == IF InCode(doc, k) THEN "code" ELSE IF doc[k].kind = "row" THEN "table" ELSE "text"
    IN  /\ \A k \in 1 .. Len(text) - 1 : text[k] < text[k + 1]
        /\ said \subseteq ToSet(text)
        /\ \A n \in DOMAIN job.nodes :
             LET node == job.nodes[n]
             IN  /\ IsSpan(node.lines)
                 /\ \A k \in ToSet(node.lines) : type(k) = node.type /\ InForce(doc, k) = node.path
        /\ {k \in DOMAIN doc : doc[k].kind # "blank"}
             \subseteq UNION {ToSet(job.plain[n].lines) : n \in DOMAIN job.plain}

(* The chunks of a document are its text, all of it, once and in order;    *)
(* each names every node its text is from, and text keeps to the budget.   *)
ChunksAreTheText ==
  job.kind = "chunks" =>
    LET text(parts) == FlattenSeq([k \in DOMAIN parts |-> parts[k].text])
    IN  /\ text(job.parts) = text(job.nodes)
        /\ \A k \in DOMAIN job.parts :
             LET p == job.parts[k]
             IN  /\ {p.text[n][1] : n \in DOMAIN p.text} \subseteq p.sources
                 /\ p.type = "text" => Len(p.text) <= job.max

(* A document is summed up in lines of its own, or of a model that said    *)
(* something, each once and in their order; what is left out says less than*)
(* what is in, or would not have fitted with what says as much; and none of*)
(* it is cut when it is indexed.                                           *)
Offered ==
  LET said == IF job.reply.ok THEN Normalized(CandidateTexts(job.reply.lines)) ELSE <<>>
  IN  IF said # <<>> THEN [k \in DOMAIN said |-> [is |-> said[k], score |-> 0]] ELSE SummaryCandidates(job.chunks)
CharsOf(lines) == FoldSet(LAMBDA l, n : n + l.len, 0, lines)
Met(lines, k, c) == IF k < Len(lines) /\ c = lines[k + 1] THEN k + 1 ELSE k
InOrder(lines, all) ==
  LET met[n \in 0 .. Len(all)] == IF n = 0 THEN 0 ELSE Met(lines, met[n - 1], all[n])
  IN  met[Len(all)] = Len(lines)
SummaryIsFair ==
  job.kind = "summing" =>
    LET all == Offered
        lines == ToSet(job.lines)
        asGood(c) == {d.is : d \in {x \in ToSet(all) : x.is \in lines /\ x.score >= c.score}}
        textLines == TextLines(job.name[1], job.name[2], job.lines)
    IN  /\ InOrder(job.lines, [k \in DOMAIN all |-> all[k].is])
        /\ Cardinality(lines) = Len(job.lines) /\ Len(job.lines) <= DOCUMENT_SUMMARY_MAX_LINES
        /\ CharsOf(lines) <= DOCUMENT_SUMMARY_BODY_MAX_CHARS
        /\ \A c \in ToSet(all) :
             \/ c.is \in lines
             \/ Cardinality(asGood(c)) = DOCUMENT_SUMMARY_MAX_LINES
             \/ CharsOf(asGood(c)) + c.is.len > DOCUMENT_SUMMARY_BODY_MAX_CHARS
             \/ c.score <= 0 /\ (\E d \in ToSet(all) : d.score > 0)
        /\ job.text = textLines
        /\ \A c \in ToSet(SummaryCandidates(<<Last(job.chunks)>>)) :
             c.is \in ToSet(job.context) \/ Len(job.context) = SEARCH_PROFILE_MAX_CONTEXT_LINES

(* What is indexed of a document is what it says.                          *)
IndexedIsTheText == ParsedIsTheText /\ ChunksAreTheText /\ SummaryIsFair

(* A search answers with records of its scope only, none twice, and no     *)
(* more than asked for; and a graph or a reranker that fails and is to     *)
(* fail open leaves the answer there would be without it.                  *)
ResultsInScope ==
  job.kind = "search" =>
    LET found == job.answer.results
    IN  /\ ToSet(found) \subseteq InScope(job.store, job.req.scope)
        /\ Len(found) <= job.req.topK
        /\ Cardinality(ToSet(found)) = Len(found)
FailOpenIsWithout ==
  job.kind = "search" /\ job.cfg.mode # "graph" =>
    /\ job.cfg.graph /\ job.req.graphFails /\ job.cfg.graphFailOpen
         => job.answer = Search(job.store, job.req, [job.cfg EXCEPT !.graph = FALSE])
    /\ job.cfg.rerank /\ job.req.rerank.busy >= RERANK_MAX_ATTEMPTS /\ job.cfg.rerankFailOpen /\ ~job.cfg.graph
         => job.answer = Search(job.store, job.req, [job.cfg EXCEPT !.rerank = FALSE])

(* Channels are combined fairly.  Of two records both channels return, the *)
(* one with the better score in both is not put after the other; and what  *)
(* only the graph knows takes the place of no more results than it is      *)
(* allowed to, and of none when it may only rank.                          *)
Better(store, x, y) ==
  /\ store[y].bm25 # NoScore
  /\ store[x].dense > store[y].dense /\ store[x].bm25 < store[y].bm25
HybridRespectsBoth ==
  job.kind = "search" /\ job.answer.ok /\ job.cfg.mode = "hybrid" /\ ~job.cfg.graph /\ ~job.cfg.rerank =>
    LET found == job.answer.results
    IN  \A k \in DOMAIN found, x \in InScope(job.store, job.req.scope) :
          Better(job.store, x, found[k]) => \E j \in 1 .. k - 1 : found[j] = x
GraphCrowdsOutNone ==
  job.kind = "search" /\ job.answer.ok /\ job.cfg.mode # "graph" /\ ~job.cfg.rerank =>
    LET base == ToSet(Search(job.store, job.req, [job.cfg EXCEPT !.graph = FALSE]).results)
        lost == base \ ToSet(job.answer.results)
    IN  /\ Cardinality(lost) <= GraphOnlyLimit(job.req.topK, job.cfg)
        /\ ~job.cfg.allowGraphOnly => ToSet(job.answer.results) = base
(* Texts are embedded in batches, by a service that may answer in any      *)
(* order, in part, or late: a memory has the vector of its own text, and a *)
(* query is answered as if it had been asked alone; what fails changes     *)
(* nothing; and a scope keeps to one profile.  The rows that were there    *)
(* stay where they are, with the time they were made at, and as they are   *)
(* unless an addition names their id: that replaces the row, of whatever   *)
(* scope it was, for ids are the store's and not a scope's.                *)
Perfect == [busy |-> 0, then |-> [status |-> 200, order |-> <<1, 2, 3>>, indexed |-> {1, 2, 3}, dims |-> 2]]
Reliable(services) ==
  \A b \in DOMAIN services : services[b].busy < EMBEDDING_MAX_ATTEMPTS /\ services[b].then = Perfect.then
Kept ==
  job.kind = "adding" =>
    LET rows == job.out.store
        named(r) == \E k \in DOMAIN job.reqs : job.reqs[k].id = r.id
    IN  IF job.out.ok
          THEN /\ \A k \in DOMAIN job.rows :
                    /\ rows[k].id = job.rows[k].id /\ rows[k].created = job.rows[k].created
                    /\ named(job.rows[k]) \/ rows[k] = job.rows[k]
               /\ \A k \in DOMAIN job.reqs :
                    \E r \in ToSet(rows) :
                      /\ r.id = job.out.ids[k] /\ r.text = job.reqs[k].text
                      /\ r.vector = [of |-> r.text, dims |-> 2]
               /\ OneProfileEach(rows)
               /\ Cardinality({r.id : r \in ToSet(rows)}) = Len(rows)
          ELSE rows = job.rows
Alone(k) == SearchMany(job.rows, <<job.reqs[k]>>, 1, <<Perfect>>, job.env)
AskedAlone ==
  job.kind = "asking many" =>
    IF job.out.ok
      THEN /\ Len(job.out.all) = Len(job.reqs)
           /\ \A k \in DOMAIN job.reqs : Alone(k) = Given(<<job.out.all[k]>>)
      ELSE ~Reliable(job.services) \/ \E k \in DOMAIN job.reqs : ~Alone(k).ok
EachItsOwnVector == Kept /\ AskedAlone

(* What is shown of a search.  Of each memory the graph speaks of, every   *)
(* fact is noted once or the note says that one is missing; its score is   *)
(* the best of those it was given.  And a memory that is what was asked for*)
(* is not left out while there is room, unless ten times as many as are    *)
(* asked for come before it, or as many as are ever looked at.             *)
Speaking(r) == {k \in DOMAIN job.units : r \in ToSet(job.units[k].records)}
FactsOn(r) == {job.units[k].fact : k \in {j \in Speaking(r) : job.units[j].kind = "fact"}}
NotedWhole ==
  job.kind = "hits" =>
    /\ DOMAIN job.hits = {r \in {1, 2} : Speaking(r) # {}}
    /\ \A r \in DOMAIN job.hits :
         LET h == job.hits[r]
         IN  /\ ToSet(h.facts) \subseteq FactsOn(r) /\ Len(h.facts) = Cardinality(ToSet(h.facts))
             /\ h.truncated <=> ToSet(h.facts) # FactsOn(r)
             /\ \A k \in Speaking(r) : h.score >= job.units[k].score
             /\ \E k \in Speaking(r) : h.score = job.units[k].score
NothingHidden ==
  job.kind = "answer" =>
    LET shown == {job.shown[k].id : k \in DOMAIN job.shown}
    IN  /\ Len(job.shown) <= job.req.topK /\ Cardinality(shown) = Len(job.shown)
        /\ \A k \in DOMAIN job.found :
             LET m == job.found[k]
             IN  /\ m.id \in shown => Requested(m, job.req)
                 /\ Requested(m, job.req) /\ m.id \notin shown =>
                      \/ Len(job.shown) = job.req.topK
                      \/ Filtered(job.req) /\ (k > 10 * job.req.topK \/ k > MAX_SEARCH_CANDIDATES)

(* What a search answers, and what is made of it.                          *)
SearchAnswers ==
  /\ ResultsInScope /\ FailOpenIsWithout /\ HybridRespectsBoth /\ GraphCrowdsOutNone
  /\ NotedWhole /\ NothingHidden

(* What is made of a model's answer is sound: it passes the validation if  *)
(* its fields do; all of it is the model's own, with evidence that is in   *)
(* the record; and it is complete: an entity whose id is its alone is kept,*)
(* and of a fact between such, with evidence, what is at least as specific.*)
Answered == WellShaped(CompleteJson(job.replies).facts)
Named == Typed(WellShaped(CompleteJson(job.replies).entities), job.registry)
Clear == {e \in ToSet(Named) : e.id \notin Ambiguous(Named)}
Quotes(record, f, g) ==
  \A e \in ToSet(g.evidence) :
    \E raw \in ToSet(f.evidence) :
      /\ e.text = raw.text
      /\ SubSeq(record, e.from + 1, e.to) = IF e.text # NoText THEN e.text
                                           ELSE SubSeq(record, raw.from + 1, raw.to)
NothingInvented(out) ==
  /\ \A e \in ToSet(out.entities) : e \in Clear
  /\ \A g \in ToSet(out.facts) :
       /\ {g.subject, g.object} \subseteq {e.id : e \in Clear}
       /\ \E f \in ToSet(Answered) : SayTheSame(f, g) /\ Quotes(job.record, f, g)
CouldKeep(f) ==
  /\ {f.subject, f.object} \subseteq {e.id : e \in Clear}
  /\ Predicate(f, job.registry) \in job.registry.predicates
  /\ ~LowSignal(f)
  /\ \E e \in ToSet(f.evidence) : e.text # NoText /\ e.text # <<>> /\ Places(job.record, e.text) # {}
NothingLost(out) ==
  /\ {Identity(e) : e \in Clear} = {Identity(e) : e \in ToSet(out.entities)}
  /\ \A f \in {x \in ToSet(Answered) : CouldKeep(x)} :
       \E g \in ToSet(out.facts) :
         SayTheSame(f, g) /\ Specificity(g.predicate) >= Specificity(Predicate(f, job.registry))
BlankQuote(out) == \E f \in ToSet(out.facts) : \E e \in ToSet(f.evidence) : e.text = BlankText
ExtractionIsSound ==
  job.kind = "extract" /\ job.out.ok =>
    /\ ValidFields(job.out) /\ ~BlankQuote(job.out)
         => ValidateAgainstRecord(job.out, job.record, job.registry)
    /\ NothingInvented(job.out)
    /\ NothingLost(job.out)

(* A document that has the words asked for, as they were asked, can be     *)
(* found by them and is not dropped as unrelated, whatever else it says;   *)
(* and words are told to differ in one place when they do.                 *)
Without(word, k) == RemoveAt(word, k)
WithinOne(v, w) ==
  \/ v = w
  \/ \E k \in DOMAIN v : Without(v, k) = w
  \/ \E k \in DOMAIN w : Without(w, k) = v
  \/ Len(v) = Len(w) /\ \E k \in DOMAIN v : Without(v, k) = Without(w, k)
RelatedIsKept ==
  /\ job.kind = "texts" =>
       /\ FilterUnrelated(job.query, <<[text |-> job.text, score |-> 0]>>) # <<>>
       /\ QueryTerms(job.query) # {} => QueryTerms(job.query) \cap IndexTerms(job.text) # {}
  /\ job.kind = "words" => (job.alike <=> WithinOne(job.words[1], job.words[2]))

(* An answer shows nothing twice, in its own right or around something     *)
(* else, and no more than asked for; no document has a second chunk before *)
(* every document that competes has its first; and while there is room, no *)
(* chunk of these is missing but those whose rank takes them below what is *)
(* relevant.                                                               *)
Hits == CompetitiveHits(GroupByDocument(Relevant(FilterUnrelated(job.query, job.found))))
Windowed(d) == UNION {job.answer[k].window : k \in {j \in DOMAIN job.answer : job.answer[j].doc = d}}
ShowsOnce ==
  /\ Len(job.answer) <= job.topK
  /\ \A k \in DOMAIN job.answer :
       LET a == job.answer[k]
       IN  /\ a.chunk \in a.window /\ a.window \subseteq DOMAIN job.library[a.doc]
           /\ \A j \in 1 .. k - 1 : job.answer[j].doc = a.doc => job.answer[j].window \cap a.window = {}
ShowsEach ==
  LET of(d) == {k \in DOMAIN job.answer : job.answer[k].doc = d}
      held == {h \in ToSet(Hits) : job.library[h.doc] # <<>>}
  IN  (\E h \in held : Cardinality(of(h.doc)) > 1) => \A h \in held : of(h.doc) # {}
ShowsAll ==
  Len(job.answer) < job.topK =>
    \A h \in ToSet(Hits) :
      LET chunks == job.library[h.doc]
          order == RankedChunks(job.query, chunks, h.scores)
      IN  \A rank \in DOMAIN order :
            order[rank] \notin Windowed(h.doc) => h.best < MIN_RELEVANCE_SCORE + rank - 1
CaseAnswers == job.kind = "cases" => ShowsOnce /\ ShowsEach /\ ShowsAll
=============================================================================
