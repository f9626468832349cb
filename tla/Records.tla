------------------------------ MODULE Records ------------------------------
(***************************************************************************)
(* How texts get their vectors and how memories get into the store and out *)
(* of it: OpenRouterEmbedding, MemoryManager's add_many and search_many    *)
(* and what it notes of the graph on a memory, SqliteMemoryStore, and what *)
(* memory-mcp answers from what is found.  Functions, with no state.       *)
(*                                                                         *)
(* A text stands for all its spellings up to white space around it.  A     *)
(* vector is [of, dims]: the text it was made of, and its length.  A store *)
(* is the sequence of its rows [id, text, scope, profile, vector, created].*)
(* A service answers the first `busy` times with something that may pass,  *)
(* and then always in one way, [status, order, indexed, dims]: the texts   *)
(* it has vectors of, in its order, and of these the ones it numbers.      *)
(***************************************************************************)
EXTENDS Integers, Sequences, FiniteSets, SequencesExt, Functions

Refused == [ok |-> FALSE]
Given(x) == [ok |-> TRUE, all |-> x]

(* What a service sends of the texts it is asked for.                      *)
NoIndex == -1
Items(texts, way) ==
  LET order == SelectSeq(way.order, LAMBDA p : p <= Len(texts))
  IN  [k \in DOMAIN order |->
        [index |-> IF order[k] \in way.indexed THEN order[k] - 1 ELSE NoIndex,
         vector |-> [of |-> texts[order[k]], dims |-> way.dims]]]

(* The numbered of them, and all by number.                                *)
Numbered(items) == {k \in DOMAIN items : items[k].index # NoIndex}
ByIndex(items) == SortSeq(items, LAMBDA x, y : x.index < y.index)

(* Mutant of OrderedEmbeddings: gaps are not looked for.                   *)
OrderedOverGaps(items) ==
  LET order == IF Numbered(items) = {} THEN items ELSE ByIndex(items)
  IN  Given([k \in DOMAIN order |-> order[k].vector])

(* ordered_embeddings: as they came when none is numbered; else all are,   *)
(* from 0 on, without a gap.                                               *)
OrderedEmbeddings(items) ==
  LET order == IF Numbered(items) = {} THEN items ELSE ByIndex(items)
  IN  IF \/ Numbered(items) \notin {{}, DOMAIN items}
         \/ \E k \in Numbered(order) : order[k].index # k - 1
        THEN Refused
        ELSE Given([k \in DOMAIN order |-> order[k].vector])

(* embed_once, and which of its failures may pass: a status that says so,  *)
(* and numbers that make no sense; not vectors of another length.          *)
RetryableStatus == {429, 500, 502, 503, 504}
EmbedOnce(texts, way, dims) ==
  LET o == OrderedEmbeddings(Items(texts, way))
  IN  IF way.status = 200 /\ o.ok /\ \A k \in DOMAIN o.all : o.all[k].dims = dims
        THEN o ELSE Refused
MayPass(texts, way) ==
  \/ way.status \in RetryableStatus
  \/ way.status = 200 /\ ~OrderedEmbeddings(Items(texts, way)).ok

(* embed: again while it may pass, up to the last attempt.                 *)
EMBEDDING_MAX_ATTEMPTS == 8
Busy == [status |-> 503, order |-> <<>>, indexed |-> {}, dims |-> 0]
Attempt(service, k) == IF k <= service.busy THEN Busy ELSE service.then
Embed(texts, service, dims) ==
  LET last == CHOOSE k \in 1 .. EMBEDDING_MAX_ATTEMPTS :
                /\ k = EMBEDDING_MAX_ATTEMPTS \/ ~MayPass(texts, Attempt(service, k))
                /\ \A j \in 1 .. k - 1 : MayPass(texts, Attempt(service, j))
  IN  IF texts = <<>> THEN Given(<<>>) ELSE EmbedOnce(texts, Attempt(service, last), dims)

(* The vectors of many texts, a batch a call; only their number is checked.*)
Batch(s, b, size) == SubSeq(s, (b - 1) * size + 1, IF b * size < Len(s) THEN b * size ELSE Len(s))
EmbedMany(texts, size, services, dims) ==
  LET n == IF size < 1 THEN 1 ELSE size
      batches == 1 .. (Len(texts) + n - 1) \div n
      got == [b \in batches |-> Embed(Batch(texts, b, n), services[b], dims)]
      vectors == FlattenSeq([b \in batches |-> got[b].all])
  IN  IF (\E b \in batches : ~got[b].ok) \/ Len(vectors) # Len(texts) THEN Refused ELSE Given(vectors)
-----------------------------------------------------------------------------
EmptyText == "blank"
NoId == 0
NoScope == "no scope"
Unprofiled == "no profile"

(* build_records: the requests as rows.  A row without an id gets one that *)
(* is its own; the profile goes into metadata that is an object, as the    *)
(* scope does.                                                             *)
NewId(store, k) == 100 + Len(store) + k
IdOf(store, reqs, k) == IF reqs[k].id = NoId THEN NewId(store, k) ELSE reqs[k].id
Acceptable(reqs) ==
  \A k \in DOMAIN reqs :
    /\ reqs[k].text # EmptyText
    /\ \A j \in 1 .. k - 1 : reqs[k].id = NoId \/ reqs[j].id # reqs[k].id
BuildRecords(store, reqs, size, services, env) ==
  LET v == EmbedMany([k \in DOMAIN reqs |-> reqs[k].text], size, services, env.dims)
  IN  IF ~Acceptable(reqs) \/ ~v.ok THEN Refused
      ELSE Given([k \in DOMAIN reqs |->
             [id |-> IdOf(store, reqs, k), text |-> reqs[k].text, scope |-> reqs[k].scope,
              profile |-> IF reqs[k].object THEN env.profile ELSE Unprofiled,
              vector |-> v.all[k], created |-> env.now]])

(* validate_new_record_embedding_profiles: no scope has two profiles, in   *)
(* the store or with the new ones; the newer of a row that is replaced     *)
(* does not excuse the older.                                              *)
OneProfileEach(rows) ==
  \A r, s \in ToSet(rows) :
    r.scope = s.scope /\ r.scope # NoScope /\ Unprofiled \notin {r.profile, s.profile}
      => r.profile = s.profile
ProfilesAgree(store, new) == new = <<>> \/ OneProfileEach(store \o new)

(* upsert_record: a row that is there stays in its place, with the time it *)
(* was made at.                                                            *)
Upsert(store, r) ==
  IF \E k \in DOMAIN store : store[k].id = r.id
    THEN [k \in DOMAIN store |-> IF store[k].id = r.id THEN [r EXCEPT !.created = store[k].created]
                                 ELSE store[k]]
    ELSE Append(store, r)

AddRecords(store, rows) == FoldLeft(Upsert, store, rows)

(* retry_sqlite_locked: a transaction whose database is locked is tried    *)
(* three times more.                                                       *)
SQLITE_LOCK_RETRY_ATTEMPTS == 3
GetsTheLock(locked) == locked <= SQLITE_LOCK_RETRY_ATTEMPTS

(* add_many, and add of one: all of the requests are stored, or none.      *)
AddMany(store, reqs, size, services, env) ==
  LET new == BuildRecords(store, reqs, size, services, env)
  IN  IF ~new.ok \/ ~ProfilesAgree(store, new.all) \/ ~GetsTheLock(env.locked)
        THEN [ok |-> FALSE, store |-> store, ids |-> <<>>]
        ELSE [ok |-> TRUE, store |-> AddRecords(store, new.all),
              ids |-> [k \in DOMAIN new.all |-> new.all[k].id]]
-----------------------------------------------------------------------------
(* dense_candidates: the nearest of the scope, by id where they are equally*)
(* near; refused when the scope has a row of another profile or length.    *)
Near(v, w) == IF v.of = w.of THEN 1 ELSE 0
DenseRows(store, vector, scope, limit) ==
  LET rows == SelectSeq(store, LAMBDA r : r.scope = scope)
      order == SortSeq(rows, LAMBDA r, s : \/ Near(r.vector, vector) > Near(s.vector, vector)
                                           \/ Near(r.vector, vector) = Near(s.vector, vector) /\ r.id < s.id)
  IN  SubSeq(order, 1, IF limit < Len(order) THEN limit ELSE Len(order))
Searchable(store, vector, scope, profile) ==
  \A r \in ToSet(store) :
    r.scope = scope => r.profile \in {profile, Unprofiled} /\ r.vector.dims = vector.dims

(* search_many, by vectors alone: all the queries are answered, or none.   *)
SearchMany(store, reqs, size, services, env) ==
  LET v == EmbedMany([k \in DOMAIN reqs |-> reqs[k].text], size, services, env.dims)
      refused(k) == reqs[k].topK > 0 /\ ~Searchable(store, v.all[k], reqs[k].scope, env.profile)
  IN  IF (\E k \in DOMAIN reqs : reqs[k].text = EmptyText) \/ ~v.ok THEN Refused
      ELSE IF \E k \in DOMAIN reqs : refused(k) THEN Refused
      ELSE Given([k \in DOMAIN reqs |-> DenseRows(store, v.all[k], reqs[k].scope, reqs[k].topK)])
=============================================================================
