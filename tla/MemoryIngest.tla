---------------------------- MODULE MemoryIngest ----------------------------
(***************************************************************************)
(* The ingest of memory-mcp: a request brings messages of a conversation,   *)
(* a model makes atomic memories of the ones not answered yet, the memories *)
(* are stored, their graphs are built, and the messages are marked answered *)
(* with the memories as the answer to any repetition.                       *)
(*                                                                          *)
(* The stores see no common transaction.  What ties them together is the    *)
(* table of idempotency rows: a message is pending from before the model is *)
(* asked until all is stored, and whoever repeats the request while it is   *)
(* pending does the whole work again.  A memory's id is a hash of what the  *)
(* model said, so work done twice meets itself in the store only if the     *)
(* model says the same twice.  Requests for the same set of messages wait   *)
(* for each other; requests for sets that merely overlap do not.            *)
(*                                                                          *)
(* One scope: users are kept apart by the scope in every key and every id.  *)
(* The life of one graph is GraphRun; here it is built or it is not.        *)
(***************************************************************************)
EXTENDS Naturals, FiniteSets

CONSTANTS
  Messages,     \* the messages, as <<conversation, message id>>
  Contents,     \* what a message may say, as its hash
  Memories,     \* atomic memories, as the hash of their canonical content
  Readings,     \* Readings[m][c]: the sets of memories a model may make of c
  Batches,      \* the sets of candidate messages that requests carry
  Requests,     \* requests that can be under way at the same time
  NoContent,    \* the content of a message without a row
  GraphEnabled, \* whether graph memory is configured
  MaxMishaps    \* bound on stages that fail and on restarts

ASSUME BatchesAreMessages == Batches \subseteq SUBSET Messages
ASSUME NoContentIsNoContent == NoContent \notin Contents
ASSUME ReadingsAreMemories ==
  Readings \in [Messages -> [Contents -> SUBSET SUBSET Memories]]
ASSUME GraphIsSwitch == GraphEnabled \in BOOLEAN
ASSUME MishapsBounded == MaxMishaps \in Nat

VARIABLES
  rows,    \* rows[m]: the row of mcp_ingest_idempotency of message m
  stored,  \* stored[x]: the messages memory x cites as evidence; {} if absent
  graphs,  \* the completed graphs: a memory with the evidence it was built from
  req,     \* req[r]: where request r is, and what it has found out
  mishaps  \* how many things went wrong

vars == <<rows, stored, graphs, req, mishaps>>

-----------------------------------------------------------------------------
Row == [status: {"none", "pending", "success"},
        content: Contents \cup {NoContent},
        answer: SUBSET Memories]

NoRow == [status |-> "none", content |-> NoContent, answer |-> {}]

NoEvidence == [x \in Memories |-> {}]

(* The stages of ingest, in their order.                                   *)
PCs == {"idle", "lock", "reserve", "pipeline", "persist", "graph", "complete"}

RequestState ==
  [pc: PCs, batch: SUBSET Messages,
   content: [Messages -> Contents \cup {NoContent}],
   candidates: SUBSET Messages, evidence: [Memories -> SUBSET Messages]]

IdleRequest == [pc |-> "idle", batch |-> {},
                content |-> [m \in Messages |-> NoContent],
                candidates |-> {}, evidence |-> NoEvidence]

(* candidate_message_ids: what this request has reserved and not answered. *)
Candidates(r) == req[r].candidates

(* run.accepted_memories: one of each, with the evidence of all messages it *)
(* was found in.                                                            *)
Accepted(r) == {x \in Memories : req[r].evidence[x] # {}}

-----------------------------------------------------------------------------
At(r, pc) == req[r].pc = pc

Go(r, pc) == req' = [req EXCEPT ![r].pc = pc]

Leave(r) == req' = [req EXCEPT ![r] = IdleRequest]

Mishap == mishaps < MaxMishaps /\ mishaps' = mishaps + 1

(* ingest_lock: its key is the scope, the conversation and the sorted ids   *)
(* of the candidates; it is held until the request has been answered.       *)
Holds(r) == req[r].pc \notin {"idle", "lock"}

LockFree(batch) == \A r \in Requests : Holds(r) => req[r].batch # batch

-----------------------------------------------------------------------------
Init ==
  /\ rows = [m \in Messages |-> NoRow]
  /\ stored = NoEvidence
  /\ graphs = {}
  /\ req = [r \in Requests |-> IdleRequest]
  /\ mishaps = 0

(* A request that validate accepts: its message ids are distinct.          *)
Ask(r, batch, content) ==
  /\ At(r, "idle")
  /\ req' = [req EXCEPT ![r] = [IdleRequest EXCEPT
               !.pc = "lock", !.batch = batch,
               !.content = [m \in Messages |->
                              IF m \in batch THEN content[m] ELSE NoContent]]]
  /\ UNCHANGED <<rows, stored, graphs, mishaps>>

Lock(r) ==
  /\ At(r, "lock")
  /\ LockFree(req[r].batch)
  /\ Go(r, IF req[r].batch = {} THEN "pipeline" ELSE "reserve")
  /\ UNCHANGED <<rows, stored, graphs, mishaps>>

-----------------------------------------------------------------------------
(* reserve_sync, one immediate transaction over all the entries.           *)
Conflicts(r) ==
  \E m \in req[r].batch :
    rows[m].status # "none" /\ rows[m].content # req[r].content[m]

(* Mutant of Unanswered. *)
UnansweredNew(r) == {m \in req[r].batch : rows[m].status = "none"}

(* Mutant of Unanswered. *)
UnansweredAll(r) == req[r].batch

Unanswered(r) == {m \in req[r].batch : rows[m].status # "success"}

(* IDEMPOTENCY_CONFLICT: the transaction is rolled back.                   *)
Refuse(r) ==
  /\ At(r, "reserve")
  /\ Conflicts(r)
  /\ Leave(r)
  /\ UNCHANGED <<rows, stored, graphs, mishaps>>

(* Every candidate is answered: the answer is made of the stored ones.     *)
AnswerFromRows(r) ==
  /\ At(r, "reserve")
  /\ ~Conflicts(r)
  /\ Unanswered(r) = {}
  /\ Leave(r)
  /\ UNCHANGED <<rows, stored, graphs, mishaps>>

(* The others are left to this request, those it finds pending too.        *)
Reserved(r) ==
  [m \in Messages |->
     IF m \in Unanswered(r) /\ rows[m].status = "none"
     THEN [status |-> "pending", content |-> req[r].content[m], answer |-> {}]
     ELSE rows[m]]

Reserve(r) ==
  /\ At(r, "reserve")
  /\ ~Conflicts(r)
  /\ Unanswered(r) # {}
  /\ rows' = Reserved(r)
  /\ req' = [req EXCEPT ![r].pc = "pipeline",
                        ![r].candidates = Unanswered(r)]
  /\ UNCHANGED <<stored, graphs, mishaps>>

(* run_memory_pipeline, without a cache.  What the model makes of a message *)
(* is its own affair; a memory found in several messages is aggregated.     *)
RunPipeline(r) ==
  /\ At(r, "pipeline")
  /\ \E reading \in [Candidates(r) -> SUBSET Memories] :
       /\ \A m \in Candidates(r) :
            reading[m] \in Readings[m][req[r].content[m]]
       /\ req' = [req EXCEPT
            ![r].pc = "persist",
            ![r].evidence =
              [x \in Memories |-> {m \in Candidates(r) : x \in reading[m]}]]
  /\ UNCHANGED <<rows, stored, graphs, mishaps>>

(* add_many: all memories in one transaction; one already there is replaced *)
(* with its metadata, which is where the evidence is.                       *)
Upserted(r) ==
  [x \in Memories |-> IF x \in Accepted(r) THEN req[r].evidence[x]
                                           ELSE stored[x]]

Persist(r) ==
  /\ At(r, "persist")
  /\ stored' = Upserted(r)
  /\ Go(r, IF GraphEnabled THEN "graph" ELSE "complete")
  /\ UNCHANGED <<rows, graphs, mishaps>>

(* resume_memory, for the accepted memories in any order.  The key of a     *)
(* graph covers the memory's metadata.                                      *)
GraphKey(r, x) == <<x, req[r].evidence[x]>>

(* Mutant of GraphsBuilt. *)
GraphsBuiltFirst(r) ==
  Accepted(r) # {} => \E x \in Accepted(r) : GraphKey(r, x) \in graphs

GraphsBuilt(r) == \A x \in Accepted(r) : GraphKey(r, x) \in graphs

BuildGraph(r, x) ==
  /\ At(r, "graph")
  /\ x \in Accepted(r)
  /\ GraphKey(r, x) \notin graphs
  /\ graphs' = graphs \cup {GraphKey(r, x)}
  /\ UNCHANGED <<rows, stored, req, mishaps>>

EndGraphs(r) ==
  /\ At(r, "graph")
  /\ GraphsBuilt(r)
  /\ Go(r, "complete")
  /\ UNCHANGED <<rows, stored, graphs, mishaps>>

(* Mutant of Answered. *)
AnsweredBatch(r) ==
  [m \in Messages |->
     IF m \in req[r].batch
     THEN [rows[m] EXCEPT !.status = "success", !.answer = Accepted(r)]
     ELSE rows[m]]

(* complete_sync: the answer is that of the whole run.  It asks for the     *)
(* content, not for the run that reserved the row.                          *)
Answered(r) ==
  [m \in Messages |->
     IF m \in Candidates(r)
     THEN [rows[m] EXCEPT !.status = "success", !.answer = Accepted(r)]
     ELSE rows[m]]

Complete(r) ==
  /\ At(r, "complete")
  /\ \A m \in Candidates(r) : rows[m].content = req[r].content[m]
  /\ rows' = Answered(r)
  /\ Leave(r)
  /\ UNCHANGED <<stored, graphs, mishaps>>

-----------------------------------------------------------------------------
(* A stage fails: a provider, a refused transaction, a graph some other     *)
(* request takes over.  Nothing is undone; graphs already built stay.       *)
Fail(r) ==
  /\ Holds(r)
  /\ Mishap
  /\ Leave(r)
  /\ UNCHANGED <<rows, stored, graphs>>

(* Shutdown or the end of the process: the requests and their locks are     *)
(* gone, the database stays.                                                *)
Restart ==
  /\ \E r \in Requests : ~At(r, "idle")
  /\ Mishap
  /\ req' = [r \in Requests |-> IdleRequest]
  /\ UNCHANGED <<rows, stored, graphs>>

Work(r) ==
  \/ Refuse(r)
  \/ AnswerFromRows(r)
  \/ Reserve(r)
  \/ RunPipeline(r)
  \/ Persist(r)
  \/ \E x \in Memories : BuildGraph(r, x)
  \/ EndGraphs(r)
  \/ Complete(r)

Arrive(r) ==
  \E batch \in Batches, content \in [Messages -> Contents] :
    Ask(r, batch, content)

Next ==
  \/ \E r \in Requests : Arrive(r) \/ Lock(r) \/ Work(r) \/ Fail(r)
  \/ Restart

Spec == Init /\ [][Next]_vars

(* A client repeats the request that left a message unanswered.            *)
Repeat(m) ==
  /\ rows[m].status = "pending"
  /\ \E r \in Requests, batch \in Batches :
       /\ m \in batch
       /\ \A n \in batch : rows[n].status # "none"
       /\ Ask(r, batch, [n \in Messages |-> rows[n].content])

(* Requests go on, the ingest lock is first-in first-out, and a client that *)
(* repeats its request finds the server willing time and again.             *)
FairSpec == /\ Spec
            /\ \A r \in Requests : WF_vars(Work(r)) /\ SF_vars(Lock(r))
            /\ \A m \in Messages : SF_vars(Repeat(m))

-----------------------------------------------------------------------------
TypeOK ==
  /\ rows \in [Messages -> Row]
  /\ stored \in [Memories -> SUBSET Messages]
  /\ graphs \subseteq Memories \X SUBSET Messages
  /\ req \in [Requests -> RequestState]
  /\ mishaps \in 0..MaxMishaps

(* What a repetition is answered with exists: every memory of a stored      *)
(* answer is in the store, and, with graph memory, has a complete graph.    *)
(* (ingest completes its rows after vector_persist and graph_build.)        *)
AnswersAreWhole ==
  \A m \in Messages : \A x \in rows[m].answer :
    /\ stored[x] # {}
    /\ GraphEnabled => \E e \in SUBSET Messages : <<x, e>> \in graphs

(* A message answered is answered by a reading of what it says: the answer  *)
(* contains all that some reading makes of it, whatever batches it came in, *)
(* and whoever was answered from rows in between.                           *)
AnswersCoverTheMessage ==
  \A m \in Messages :
    rows[m].status = "success" =>
      \E reading \in Readings[m][rows[m].content] : reading \subseteq rows[m].answer

(* The memories of a message are readings of the one content its row        *)
(* records: a request that brings the message with another content leaves   *)
(* nothing behind, not even when it overlaps the first.                     *)
OneContent ==
  \A x \in Memories : \A m \in stored[x] :
    /\ rows[m].status # "none"
    /\ \E reading \in Readings[m][rows[m].content] : x \in reading

(* A message all of whose requests carry the same candidates.              *)
Apart(m) == \A b, c \in Batches : m \in b /\ m \in c => b = c

AtWorkOn(r, m) == m \in Candidates(r)

(* The ingest lock does its work: no two requests are at work on a message  *)
(* that always comes in the same batch, and one at work finds it pending.   *)
OneAtATime ==
  \A m \in Messages : Apart(m) =>
    \A r, s \in Requests :
      /\ AtWorkOn(r, m) /\ AtWorkOn(s, m) => r = s
      /\ AtWorkOn(r, m) => rows[m].status = "pending"

(* The answer to such a message never changes, whatever the model says the  *)
(* next time: a repetition gets what the first caller got.                  *)
AnswersStay ==
  [][\A m \in Messages :
       Apart(m) /\ rows[m].status = "success" => rows'[m] = rows[m]]_vars

(* A client that repeats its request gets its messages answered in the end. *)
RepeatedIngestCompletes ==
  \A m \in Messages : rows[m].status = "pending" ~> rows[m].status = "success"
=============================================================================
