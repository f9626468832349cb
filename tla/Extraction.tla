---------------------------- MODULE Extraction -----------------------------
(***************************************************************************)
(* What LlmGraphExtractor makes of a model's replies about one record: the *)
(* repetition of the request, the repair of what it says, and the check    *)
(* every extraction has to pass (validate_against_record).                 *)
(* GraphRun's Extract ends either way; here is which, and with what.       *)
(*                                                                         *)
(* A text is a sequence of bytes <<symbol, first>>: first is TRUE for the  *)
(* first byte of a character.                                              *)
(* An entity is [id, name, type, confidence], its name standing for every  *)
(* spelling of it up to case and spaces; a fact is [id, subject, predicate,*)
(* object, text, confidence, when, valid, evidence], its text likewise; a  *)
(* span of evidence is [text, from, to].  An id is a sequence of numbers,  *)
(* for suffixes are added to it.  A registry is [types, predicates].       *)
(***************************************************************************)
EXTENDS Integers, Sequences, FiniteSets, SequencesExt

NoText == << <<"none", TRUE>> >>
NoByte == -1
NoNumber == -100
Blank == "blank"
BlankId == <<0>>
BlankText == << <<" ", TRUE>> >>
Malformed == [malformed |-> TRUE]

(* complete_json, complete_once: a reply that may be different next time   *)
(* is asked for again.  "busy" is a transport error, 429 or 5xx, or what   *)
(* is not JSON; "refused" any other status, or a body over the limit.      *)
LLM_MAX_ATTEMPTS == 5
Retryable(reply) == reply.kind = "busy"
CompleteJson(replies) ==
  LET last == CHOOSE k \in 1 .. LLM_MAX_ATTEMPTS :
                /\ k = LLM_MAX_ATTEMPTS \/ ~Retryable(replies[k])
                /\ \A j \in 1 .. k - 1 : Retryable(replies[j])
  IN  replies[last]

(* parse_graph_llm_output_text: JSON of another shape is "odd"; elements   *)
(* of another shape are left out.                                          *)
WellShaped(s) == SelectSeq(s, LAMBDA x : x # Malformed)
-----------------------------------------------------------------------------
CharBoundary(record, p) == p \in {0, Len(record)} \/ (p < Len(record) /\ record[p + 1][2])
InRange(record, e) ==
  /\ e.from # NoByte /\ e.to # NoByte
  /\ e.from < e.to /\ e.to <= Len(record)
  /\ CharBoundary(record, e.from) /\ CharBoundary(record, e.to)

(* evidence_byte_range_matches_record.                                     *)
Matches(record, e) == InRange(record, e) /\ SubSeq(record, e.from + 1, e.to) = e.text

Places(record, text) ==
  {p \in 0 .. Len(record) - Len(text) : SubSeq(record, p + 1, p + Len(text)) = text}
FirstPlace(record, text) ==
  CHOOSE p \in Places(record, text) : \A q \in Places(record, text) : p <= q

(* repair_evidence_byte_offsets: the first place the quote is at, unless   *)
(* it is where the model says.                                             *)
RepairSpan(record, e) ==
  IF e.text = NoText \/ Matches(record, e) \/ Places(record, e.text) = {} THEN e
  ELSE [e EXCEPT !.from = FirstPlace(record, e.text),
                 !.to = FirstPlace(record, e.text) + Len(e.text)]
RepairEvidence(record, f) ==
  [f EXCEPT !.evidence = [k \in DOMAIN f.evidence |-> RepairSpan(record, f.evidence[k])]]

(* normalize_llm_entity_type: registered, or by another name, or whatever  *)
(* there is for the rest.                                                  *)
EntityTypeAlias == [CITY |-> "LOCATION", TEAM |-> "GROUP", TOPIC |-> "CONCEPT"]
FallbackType(registry) ==
  LET known == {"CONCEPT", "OBJECT"} \cap ToSet(registry.types)
  IN  IF "CONCEPT" \in known \/ registry.types = <<>> THEN "CONCEPT"
      ELSE IF known # {} THEN "OBJECT" ELSE registry.types[1]
EntityType(raw, registry) ==
  LET types == ToSet(registry.types)
  IN  IF raw \in types THEN raw
      ELSE IF raw \in DOMAIN EntityTypeAlias /\ EntityTypeAlias[raw] \in types
        THEN EntityTypeAlias[raw] ELSE FallbackType(registry)

(* deduplicate_entity_local_ids: an id of two entities is nobody's.        *)
Identity(e) == <<e.name, e.type>>
Ambiguous(entities) ==
  {e.id : e \in {x \in ToSet(entities) :
                   \E y \in ToSet(entities) : y.id = x.id /\ Identity(y) # Identity(x)}}
NumberOf(x) == IF x = NoNumber THEN 0 ELSE x
(* The last of the most confident, in the place of the first.              *)
BestOf(entities, id) ==
  LET group == SelectSeq(entities, LAMBDA e : e.id = id)
  IN  FoldLeft(LAMBDA best, e : IF NumberOf(e.confidence) >= NumberOf(best.confidence) THEN e ELSE best,
               group[1], group)
OneEach(entities) ==
  LET ids == FoldLeft(LAMBDA seen, e : IF e.id \in ToSet(seen) THEN seen ELSE Append(seen, e.id),
                      <<>>, entities)
      kept == SelectSeq(ids, LAMBDA id : id \notin Ambiguous(entities))
  IN  [k \in DOMAIN kept |-> BestOf(entities, kept[k])]

(* evidence_is_grounded.                                                   *)
Grounded(record, e) == IF e.text = NoText THEN InRange(record, e) ELSE Matches(record, e)

(* drop_unmaterializable_facts: only evidence that is there, only between  *)
(* entities that are; a predicate nobody registered is a mere relation.    *)
GRAPH_FALLBACK_PREDICATE == "RELATED_TO"
Predicate(f, registry) ==
  IF f.predicate \in registry.predicates THEN f.predicate ELSE GRAPH_FALLBACK_PREDICATE
GroundedOnly(record, f) ==
  [f EXCEPT !.evidence = SelectSeq(f.evidence, LAMBDA e : Grounded(record, e))]
Materializes(record, f, entities, registry) ==
  /\ GroundedOnly(record, f).evidence # <<>>
  /\ {f.subject, f.object} \subseteq {e.id : e \in ToSet(entities)}
  /\ Predicate(f, registry) \in registry.predicates

(* sanitize_llm_fact_times: the words for the time if the record has them, *)
(* and never the model's arithmetic.                                       *)
NoTime == <<>>
Sanitize(record, f) ==
  [f EXCEPT !.valid = NoTime,
            !.when = IF f.when # NoText /\ f.when # BlankText /\ Places(record, f.when) # {}
                       THEN f.when ELSE NoText]

(* is_low_signal_conversational_fact, by texts that say only who spoke.    *)
SmallTalk == {"thanks"}
LowSignal(f) == f.subject = f.object \/ f.predicate = "MENTIONED" \/ f.text \in SmallTalk

(* Mutant of FreshId: the first suffix, taken or not.                      *)
FreshIdOnce(id, seen) == IF id \in seen THEN Append(id, 2) ELSE id

(* uniquify_fact_local_ids.                                                *)
FreshId(id, seen) ==
  IF id \notin seen THEN id
  ELSE Append(id, CHOOSE n \in 2 .. Cardinality(seen) + 2 :
                    /\ Append(id, n) \notin seen
                    /\ \A m \in 2 .. n - 1 : Append(id, m) \in seen)
Uniquify(facts) ==
  FoldLeft(LAMBDA done, f : Append(done, [f EXCEPT !.id = FreshId(f.id, {g.id : g \in ToSet(done)})]),
           <<>>, facts)

(* deduplicate_equivalent_facts, should_replace_fact.                      *)
Specificity(predicate) ==
  CASE predicate = "MENTIONED" -> 0 [] predicate = GRAPH_FALLBACK_PREDICATE -> 1 [] OTHER -> 2
SayTheSame(f, g) == <<f.subject, f.object, f.text>> = <<g.subject, g.object, g.text>>
Replaces(f, g) ==
  \/ Specificity(f.predicate) > Specificity(g.predicate)
  \/ /\ Specificity(f.predicate) = Specificity(g.predicate)
     /\ NumberOf(f.confidence) > NumberOf(g.confidence)
AddUnlessSaid(done, f) ==
  LET same == {k \in DOMAIN done : SayTheSame(done[k], f)}
  IN  IF same = {} THEN Append(done, f)
      ELSE [k \in DOMAIN done |-> IF k \in same /\ Replaces(f, done[k]) THEN f ELSE done[k]]

(* LlmGraphExtractor::extract.                                             *)
Typed(entities, registry) ==
  [k \in DOMAIN entities |-> [entities[k] EXCEPT !.type = EntityType(entities[k].type, registry)]]
Sound(f, record, typed, registry) ==
  /\ {f.subject, f.object} \cap Ambiguous(typed) = {}
  /\ Materializes(record, f, OneEach(typed), registry)
Cleaned(record, f, registry) ==
  Sanitize(record, [GroundedOnly(record, f) EXCEPT !.predicate = Predicate(f, registry)])
FactsOf(record, facts, typed, registry) ==
  LET quoted == [k \in DOMAIN facts |-> RepairEvidence(record, facts[k])]
      sound == SelectSeq(quoted, LAMBDA f : Sound(f, record, typed, registry))
      clean == [k \in DOMAIN sound |-> Cleaned(record, sound[k], registry)]
  IN  FoldLeft(AddUnlessSaid, <<>>, Uniquify(SelectSeq(clean, LAMBDA f : ~LowSignal(f))))
Extract(replies, record, registry) ==
  LET reply == CompleteJson(replies)
      typed == Typed(WellShaped(reply.entities), registry)
  IN  IF reply.kind # "answer" THEN [ok |-> FALSE]
      ELSE [ok |-> TRUE, entities |-> OneEach(typed),
            facts |-> FactsOf(record, WellShaped(reply.facts), typed, registry)]
-----------------------------------------------------------------------------
(* validate_against_record.                                                *)
Confident(x) == x = NoNumber \/ x \in 0 .. 10
ValidSpan(record, e) ==
  /\ e.text # BlankText
  /\ \/ InRange(record, e) /\ (e.text = NoText \/ Matches(record, e))
     \/ /\ e.from = NoByte /\ e.to = NoByte
        /\ e.text # NoText /\ Places(record, e.text) # {}
ValidFields(out) ==
  /\ \A e \in ToSet(out.entities) : e.name # Blank /\ e.id # BlankId /\ Confident(e.confidence)
  /\ \A f \in ToSet(out.facts) : f.text # Blank /\ f.id # BlankId /\ Confident(f.confidence)
ValidFact(record, f, entities, registry) ==
  /\ {f.subject, f.object} \subseteq {e.id : e \in ToSet(entities)}
  /\ f.predicate \in registry.predicates
  /\ f.evidence # <<>> /\ \A e \in ToSet(f.evidence) : ValidSpan(record, e)
  /\ f.when # NoText => f.when # BlankText /\ Places(record, f.when) # {}
  /\ f.valid # NoTime => f.valid[1] <= f.valid[2]
OneOf(s) == \A j, k \in DOMAIN s : s[j].id = s[k].id => j = k
ValidateAgainstRecord(out, record, registry) ==
  /\ ValidFields(out)
  /\ OneOf(out.entities) /\ OneOf(out.facts)
  /\ \A e \in ToSet(out.entities) : e.type \in ToSet(registry.types)
  /\ \A f \in ToSet(out.facts) : ValidFact(record, f, out.entities, registry)
=============================================================================
