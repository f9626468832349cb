------------------------- MODULE MemoryIngestProofs -------------------------
(***************************************************************************)
(* Machine-checked proofs about MemoryIngest: whatever requests overlap,   *)
(* fail and are repeated, an answer is whole, of the message's content, and *)
(* final where the ingest lock applies.                                     *)
(***************************************************************************)
EXTENDS MemoryIngest, TLAPS

Extracted == {"persist", "graph", "complete"}

(* What a request has reserved has a row with the content it brings.       *)
ReservedRows ==
  \A r \in Requests : \A m \in Candidates(r) :
    rows[m].status # "none" /\ rows[m].content = req[r].content[m]

CandidatesFit ==
  \A r \in Requests :
    /\ Candidates(r) \subseteq req[r].batch
    /\ req[r].pc \in {"idle", "lock", "reserve"} => Candidates(r) = {}
    /\ req[r].pc # "idle" => req[r].batch \in Batches

(* What the model said of a message, as the evidence records it.           *)
Said(r, m) == {x \in Memories : m \in req[r].evidence[x]}

EvidenceFits ==
  \A r \in Requests :
    /\ \A x \in Memories : req[r].evidence[x] \subseteq Candidates(r)
    /\ req[r].pc \in Extracted =>
         \A m \in Candidates(r) : Said(r, m) \in Readings[m][req[r].content[m]]

StoredFirst ==
  \A r \in Requests : req[r].pc \in {"graph", "complete"} =>
    \A x \in Accepted(r) : stored[x] # {}

GraphsFirst ==
  \A r \in Requests : req[r].pc = "complete" /\ GraphEnabled => GraphsBuilt(r)

LockExclusive ==
  \A r, s \in Requests :
    Holds(r) /\ Holds(s) /\ req[r].batch = req[s].batch => r = s

PendingAtWork ==
  \A m \in Messages : Apart(m) =>
    \A r \in Requests : AtWorkOn(r, m) => rows[m].status = "pending"

IInv ==
  /\ TypeOK
  /\ ReservedRows
  /\ CandidatesFit
  /\ EvidenceFits
  /\ StoredFirst
  /\ GraphsFirst
  /\ LockExclusive
  /\ PendingAtWork
  /\ AnswersAreWhole
  /\ AnswersCoverTheMessage
  /\ OneContent

-----------------------------------------------------------------------------
(* A row is never taken away, and keeps the content it was reserved with.  *)
Grown ==
  /\ \A m \in Messages : rows[m].status # "none" =>
       rows'[m].status # "none" /\ rows'[m].content = rows[m].content
  /\ \A x \in Memories : stored[x] # {} => stored'[x] # {}
  /\ graphs \subseteq graphs'

(* All steps of a request but those it takes leave its record alone.       *)
Others(r) == \A s \in Requests \ {r} : req'[s] = req[s]

LEMMA IdleType == IdleRequest \in RequestState
  BY DEF IdleRequest, RequestState, PCs, NoEvidence

LEMMA AskType ==
  ASSUME TypeOK, NEW r \in Requests, NEW batch \in Batches,
         NEW content \in [Messages -> Contents \cup {NoContent}],
         Ask(r, batch, content)
  PROVE  TypeOK' /\ Others(r)
  <1>1. batch \in SUBSET Messages
    BY BatchesAreMessages
  <1>2. [m \in Messages |-> IF m \in batch THEN content[m] ELSE NoContent]
          \in [Messages -> Contents \cup {NoContent}]
    OBVIOUS
  <1>3. req' \in [Requests -> RequestState]
    BY <1>1, <1>2, IdleType
       DEF Ask, TypeOK, IdleRequest, RequestState, PCs, NoEvidence
  <1>4. Others(r)
    BY DEF Ask, TypeOK, Others
  <1> QED  BY <1>3, <1>4 DEF Ask, TypeOK

(* Moving on to a stage, with or without something learnt.                 *)
LEMMA GoType ==
  ASSUME req \in [Requests -> RequestState], NEW r \in Requests, NEW pc \in PCs,
         Go(r, pc)
  PROVE  req' \in [Requests -> RequestState] /\ Others(r)
  <1>1. [req[r] EXCEPT !.pc = pc] \in RequestState
    BY DEF RequestState
  <1>2. req' = [req EXCEPT ![r] = [req[r] EXCEPT !.pc = pc]]
    BY DEF Go
  <1> QED  BY <1>1, <1>2 DEF Others

LEMMA ReserveType ==
  ASSUME req \in [Requests -> RequestState], NEW r \in Requests,
         NEW candidates \in SUBSET Messages,
         req' = [req EXCEPT ![r].pc = "pipeline", ![r].candidates = candidates]
  PROVE  req' \in [Requests -> RequestState] /\ Others(r)
  <1>1. [req[r] EXCEPT !.pc = "pipeline", !.candidates = candidates]
          \in RequestState
    BY DEF RequestState, PCs
  <1>2. req' = [req EXCEPT ![r] =
                 [req[r] EXCEPT !.pc = "pipeline", !.candidates = candidates]]
    OBVIOUS
  <1> QED  BY <1>1, <1>2 DEF Others

LEMMA PipelineType ==
  ASSUME req \in [Requests -> RequestState], NEW r \in Requests,
         NEW evidence \in [Memories -> SUBSET Messages],
         req' = [req EXCEPT ![r].pc = "persist", ![r].evidence = evidence]
  PROVE  req' \in [Requests -> RequestState] /\ Others(r)
  <1>1. [req[r] EXCEPT !.pc = "persist", !.evidence = evidence] \in RequestState
    BY DEF RequestState, PCs
  <1>2. req' = [req EXCEPT ![r] =
                 [req[r] EXCEPT !.pc = "persist", !.evidence = evidence]]
    OBVIOUS
  <1> QED  BY <1>1, <1>2 DEF Others

LEMMA WorkType ==
  ASSUME TypeOK, NEW r \in Requests, Lock(r) \/ Work(r)
  PROVE  TypeOK' /\ Others(r) /\ Grown
  <1> USE DEF TypeOK, At, Leave, Others, Grown
  <1>1. CASE Lock(r)
    BY <1>1, GoType DEF Lock, PCs
  <1>2. CASE Refuse(r) \/ AnswerFromRows(r)
    BY <1>2, IdleType DEF Refuse, AnswerFromRows
  <1>3. CASE Reserve(r)
    <2>1. Unanswered(r) \subseteq Messages
      BY DEF Unanswered, RequestState
    <2>2. req' \in [Requests -> RequestState] /\ Others(r)
      BY <1>3, <2>1, ReserveType DEF Reserve
    <2>3. req[r].content \in [Messages -> Contents \cup {NoContent}]
      BY DEF RequestState
    <2>4. rows' \in [Messages -> Row]
      BY <1>3, <2>1, <2>3 DEF Reserve, Reserved, Row
    <2>5. Grown
      BY <1>3 DEF Reserve, Reserved
    <2> QED  BY <1>3, <2>2, <2>4, <2>5 DEF Reserve
  <1>4. CASE RunPipeline(r)
    <2>1. PICK reading \in [Candidates(r) -> SUBSET Memories] :
            req' = [req EXCEPT
              ![r].pc = "persist",
              ![r].evidence =
                [x \in Memories |-> {m \in Candidates(r) : x \in reading[m]}]]
      BY <1>4 DEF RunPipeline
    <2>2. Candidates(r) \subseteq Messages
      BY DEF Candidates, RequestState
    <2>3. [x \in Memories |-> {m \in Candidates(r) : x \in reading[m]}]
            \in [Memories -> SUBSET Messages]
      BY <2>2
    <2>4. req' \in [Requests -> RequestState] /\ Others(r)
      BY <2>1, <2>3, PipelineType
    <2> QED  BY <1>4, <2>4 DEF RunPipeline
  <1>5. CASE Persist(r)
    <2>1. req' \in [Requests -> RequestState] /\ Others(r)
      BY <1>5, GoType DEF Persist, PCs
    <2>2. stored' \in [Memories -> SUBSET Messages]
      BY <1>5 DEF Persist, Upserted, RequestState
    <2>3. Grown
      BY <1>5 DEF Persist, Upserted, Accepted
    <2> QED  BY <1>5, <2>1, <2>2, <2>3 DEF Persist
  <1>6. ASSUME NEW x \in Memories, BuildGraph(r, x)
        PROVE  TypeOK' /\ Others(r) /\ Grown
    <2>1. GraphKey(r, x) \in Memories \X SUBSET Messages
      BY DEF GraphKey, RequestState
    <2> QED  BY <1>6, <2>1 DEF BuildGraph
  <1>7. CASE EndGraphs(r)
    BY <1>7, GoType DEF EndGraphs, PCs
  <1>8. CASE Complete(r)
    <2>1. Accepted(r) \subseteq Memories
      BY DEF Accepted
    <2>2. rows' \in [Messages -> Row] /\ Grown
      BY <1>8, <2>1 DEF Complete, Answered, Row
    <2> QED  BY <1>8, <2>2, IdleType DEF Complete
  <1> QED  BY <1>1, <1>2, <1>3, <1>4, <1>5, <1>6, <1>7, <1>8 DEF Work

LEMMA MishapType ==
  ASSUME TypeOK, Restart \/ \E r \in Requests : Fail(r)
  PROVE  TypeOK' /\ UNCHANGED <<rows, stored, graphs>>
  BY MishapsBounded, IdleType DEF TypeOK, Restart, Fail, Mishap, Leave

-----------------------------------------------------------------------------
(* A request that has not reserved anything.                               *)
Fresh(state) ==
  /\ state.pc \in {"idle", "lock"}
  /\ state.candidates = {} /\ state.evidence = NoEvidence
  /\ state.pc = "lock" => state.batch \in Batches

(* Requests that come, or go without touching the database.                *)
LEMMA ComeAndGoInv ==
  ASSUME IInv, TypeOK', UNCHANGED <<rows, stored, graphs>>,
         \A s \in Requests : req'[s] = req[s] \/ Fresh(req'[s])
  PROVE  IInv'
  <1> DEFINE Stays(s) == req'[s] = req[s]
  <1>1. ASSUME NEW s \in Requests, ~Stays(s)
        PROVE  /\ Candidates(s)' = {} /\ Accepted(s)' = {} /\ ~Holds(s)'
               /\ req'[s].pc \notin {"graph", "complete"} \cup Extracted
               /\ req'[s].pc # "idle" => req'[s].batch \in Batches
               /\ \A x \in Memories : req'[s].evidence[x] = {}
    BY <1>1 DEF Fresh, Candidates, Accepted, NoEvidence, Holds, Extracted
  <1>2. ASSUME NEW s \in Requests, Stays(s)
        PROVE  /\ Candidates(s)' = Candidates(s) /\ Accepted(s)' = Accepted(s)
               /\ Holds(s)' = Holds(s)
               /\ \A m \in Messages : Said(s, m)' = Said(s, m)
               /\ GraphsBuilt(s)' = GraphsBuilt(s)
    BY <1>2 DEF Candidates, Accepted, Holds, Said, GraphsBuilt, GraphKey
  <1>3. ReservedRows' /\ CandidatesFit'
    BY <1>1, <1>2 DEF IInv, ReservedRows, CandidatesFit
  <1>4. EvidenceFits'
    <2> SUFFICES ASSUME NEW s \in Requests
                 PROVE  /\ \A x \in Memories :
                             req'[s].evidence[x] \subseteq Candidates(s)'
                        /\ req'[s].pc \in Extracted =>
                             \A m \in Candidates(s)' :
                               Said(s, m)' \in Readings[m][req'[s].content[m]]
      BY DEF EvidenceFits
    <2>1. CASE Stays(s)
      BY <1>2, <2>1 DEF IInv, EvidenceFits, TypeOK, RequestState, Candidates, Said
    <2>2. CASE ~Stays(s)
      BY <1>1, <2>2
    <2> QED  BY <2>1, <2>2
  <1>5. StoredFirst' /\ GraphsFirst'
    BY <1>1, <1>2 DEF IInv, StoredFirst, GraphsFirst
  <1>6. LockExclusive'
    BY <1>1, <1>2 DEF IInv, LockExclusive
  <1>7. PendingAtWork'
    BY <1>1, <1>2 DEF IInv, PendingAtWork, AtWorkOn, Apart
  <1>8. AnswersAreWhole' /\ AnswersCoverTheMessage' /\ OneContent'
    BY DEF IInv, AnswersAreWhole, AnswersCoverTheMessage, OneContent
  <1> QED  BY <1>3, <1>4, <1>5, <1>6, <1>7, <1>8 DEF IInv

(* A request moves on: what it has found out and the database stay.        *)
LEMMA MoveInv ==
  ASSUME IInv, TypeOK', UNCHANGED <<rows, stored, graphs>>,
         NEW r \in Requests, NEW pc \in PCs, Go(r, pc),
         \/ Lock(r)
         \/ EndGraphs(r)
  PROVE  IInv'
  <1>1. /\ \A s \in Requests :
             /\ req'[s].batch = req[s].batch /\ req'[s].content = req[s].content
             /\ req'[s].candidates = req[s].candidates
             /\ req'[s].evidence = req[s].evidence
        /\ \A s \in Requests \ {r} : req'[s].pc = req[s].pc
        /\ req'[r].pc = pc
    BY DEF Go, IInv, TypeOK, RequestState
  <1>2. ASSUME NEW s \in Requests
        PROVE  /\ Candidates(s)' = Candidates(s) /\ Accepted(s)' = Accepted(s)
               /\ \A m \in Messages : Said(s, m)' = Said(s, m)
               /\ GraphsBuilt(s)' = GraphsBuilt(s)
    BY <1>1 DEF Candidates, Accepted, Said, GraphsBuilt, GraphKey
  <1>3. \/ req[r].pc = "lock" /\ pc \in {"reserve", "pipeline"}
             /\ (pc = "reserve" => Candidates(r) = {})
             /\ LockFree(req[r].batch)
        \/ req[r].pc = "graph" /\ pc = "complete" /\ GraphsBuilt(r)
    <2>1. CASE Lock(r)
      <3>1. req'[r].pc = IF req[r].batch = {} THEN "pipeline" ELSE "reserve"
        BY <2>1 DEF Lock, Go, IInv, TypeOK, RequestState
      <3>2. req[r].pc = "lock" /\ LockFree(req[r].batch)
        BY <2>1 DEF Lock, At
      <3>3. Candidates(r) = {}
        BY <3>2 DEF IInv, CandidatesFit
      <3> QED  BY <1>1, <3>1, <3>2, <3>3
    <2>2. CASE EndGraphs(r)
      <3>1. req'[r].pc = "complete"
        BY <2>2 DEF EndGraphs, Go, IInv, TypeOK, RequestState
      <3> QED  BY <1>1, <2>2, <3>1 DEF EndGraphs, At
    <2> QED  BY <2>1, <2>2
  <1>4. ReservedRows'
    BY <1>1, <1>2 DEF IInv, ReservedRows
  <1>5. CandidatesFit'
    BY <1>1, <1>2, <1>3 DEF IInv, CandidatesFit
  <1>6. EvidenceFits'
    <2> SUFFICES ASSUME NEW s \in Requests
                 PROVE  /\ \A x \in Memories :
                             req'[s].evidence[x] \subseteq Candidates(s)'
                        /\ req'[s].pc \in Extracted =>
                             \A m \in Candidates(s)' :
                               Said(s, m)' \in Readings[m][req'[s].content[m]]
      BY DEF EvidenceFits
    <2>1. req'[s].pc \in Extracted => req[s].pc \in Extracted
      BY <1>1, <1>3 DEF Extracted
    <2>2. Candidates(s) \subseteq Messages
      BY DEF IInv, TypeOK, RequestState, Candidates
    <2> QED  BY <1>1, <1>2, <2>1, <2>2 DEF IInv, EvidenceFits
  <1>7. StoredFirst'
    BY <1>1, <1>2, <1>3 DEF IInv, StoredFirst
  <1>8. GraphsFirst'
    BY <1>1, <1>2, <1>3 DEF IInv, GraphsFirst
  <1>9. LockExclusive'
    BY <1>1, <1>3 DEF IInv, LockExclusive, Holds, LockFree
  <1>10. PendingAtWork'
    BY <1>1, <1>2 DEF IInv, PendingAtWork, AtWorkOn, Apart
  <1>11. AnswersAreWhole' /\ AnswersCoverTheMessage' /\ OneContent'
    BY DEF IInv, AnswersAreWhole, AnswersCoverTheMessage, OneContent
  <1> QED
    BY <1>4, <1>5, <1>6, <1>7, <1>8, <1>9, <1>10, <1>11 DEF IInv

(* The content of a message that has a row, and what was stored, stay: what *)
(* holds of the requests that do not take the step goes on holding.         *)
LEMMA OthersInv ==
  ASSUME IInv, TypeOK', NEW r \in Requests, Others(r), Grown
  PROVE  \A s \in Requests \ {r} :
           /\ \A m \in Candidates(s)' : /\ rows'[m].status # "none"
                                        /\ rows'[m].content = req'[s].content[m]
           /\ Candidates(s)' = Candidates(s)
           /\ Candidates(s)' \subseteq req'[s].batch
           /\ req'[s].pc \in {"idle", "lock", "reserve"} => Candidates(s)' = {}
           /\ req'[s].pc # "idle" => req'[s].batch \in Batches
           /\ \A x \in Memories : req'[s].evidence[x] \subseteq Candidates(s)'
           /\ req'[s].pc \in Extracted =>
                \A m \in Candidates(s)' :
                  Said(s, m)' \in Readings[m][req'[s].content[m]]
           /\ req'[s].pc \in {"graph", "complete"} =>
                \A x \in Accepted(s)' : stored'[x] # {}
           /\ req'[s].pc = "complete" /\ GraphEnabled => GraphsBuilt(s)'
           /\ Holds(s)' = Holds(s)
  <1> SUFFICES ASSUME NEW s \in Requests \ {r}
               PROVE  /\ \A m \in Candidates(s)' :
                           /\ rows'[m].status # "none"
                           /\ rows'[m].content = req'[s].content[m]
                      /\ Candidates(s)' = Candidates(s)
                      /\ Candidates(s)' \subseteq req'[s].batch
                      /\ req'[s].pc \in {"idle", "lock", "reserve"} =>
                           Candidates(s)' = {}
                      /\ req'[s].pc # "idle" => req'[s].batch \in Batches
                      /\ \A x \in Memories :
                           req'[s].evidence[x] \subseteq Candidates(s)'
                      /\ req'[s].pc \in Extracted =>
                           \A m \in Candidates(s)' :
                             Said(s, m)' \in Readings[m][req'[s].content[m]]
                      /\ req'[s].pc \in {"graph", "complete"} =>
                           \A x \in Accepted(s)' : stored'[x] # {}
                      /\ req'[s].pc = "complete" /\ GraphEnabled =>
                           GraphsBuilt(s)'
                      /\ Holds(s)' = Holds(s)
    OBVIOUS
  <1>1. req'[s] = req[s]
    BY DEF Others
  <1>2. /\ Candidates(s)' = Candidates(s) /\ Accepted(s)' = Accepted(s)
        /\ Holds(s)' = Holds(s)
        /\ \A m \in Messages : Said(s, m)' = Said(s, m)
    BY <1>1 DEF Candidates, Accepted, Holds, Said
  <1>3. Candidates(s) \subseteq Messages /\ Accepted(s) \subseteq Memories
    BY DEF IInv, TypeOK, RequestState, Candidates, Accepted
  <1>4. \A m \in Candidates(s)' : /\ rows'[m].status # "none"
                                  /\ rows'[m].content = req'[s].content[m]
    BY <1>1, <1>2, <1>3 DEF IInv, ReservedRows, Grown
  <1>5. /\ Candidates(s)' \subseteq req'[s].batch
        /\ req'[s].pc \in {"idle", "lock", "reserve"} => Candidates(s)' = {}
        /\ req'[s].pc # "idle" => req'[s].batch \in Batches
    BY <1>1, <1>2 DEF IInv, CandidatesFit
  <1>6. /\ \A x \in Memories : req'[s].evidence[x] \subseteq Candidates(s)'
        /\ req'[s].pc \in Extracted =>
             \A m \in Candidates(s)' :
               Said(s, m)' \in Readings[m][req'[s].content[m]]
    BY <1>1, <1>2, <1>3 DEF IInv, EvidenceFits
  <1>7. req'[s].pc \in {"graph", "complete"} =>
          \A x \in Accepted(s)' : stored'[x] # {}
    BY <1>1, <1>2, <1>3 DEF IInv, StoredFirst, Grown
  <1>8. req'[s].pc = "complete" /\ GraphEnabled => GraphsBuilt(s)'
    <2>1. GraphsBuilt(s) => GraphsBuilt(s)'
      BY <1>1, <1>2 DEF GraphsBuilt, GraphKey, Grown
    <2> QED  BY <1>1, <2>1 DEF IInv, GraphsFirst
  <1> QED  BY <1>2, <1>4, <1>5, <1>6, <1>7, <1>8

(* Then only the record of the one that does is left to look at.           *)
LEMMA OneRequest ==
  ASSUME IInv, TypeOK', NEW r \in Requests, Others(r), Grown,
         \A m \in Candidates(r)' : /\ rows'[m].status # "none"
                                   /\ rows'[m].content = req'[r].content[m],
         Candidates(r)' \subseteq req'[r].batch,
         req'[r].pc \in {"idle", "lock", "reserve"} => Candidates(r)' = {},
         req'[r].pc # "idle" => req'[r].batch \in Batches,
         \A x \in Memories : req'[r].evidence[x] \subseteq Candidates(r)',
         req'[r].pc \in Extracted =>
           \A m \in Candidates(r)' :
             Said(r, m)' \in Readings[m][req'[r].content[m]],
         req'[r].pc \in {"graph", "complete"} =>
           \A x \in Accepted(r)' : stored'[x] # {},
         req'[r].pc = "complete" /\ GraphEnabled => GraphsBuilt(r)',
         Holds(r)' => Holds(r) /\ req'[r].batch = req[r].batch
  PROVE  /\ ReservedRows' /\ CandidatesFit' /\ EvidenceFits'
         /\ StoredFirst' /\ GraphsFirst' /\ LockExclusive'
  <1>1. ReservedRows' /\ CandidatesFit'
    BY OthersInv DEF ReservedRows, CandidatesFit
  <1>2. EvidenceFits'
    <2>1. \A s \in Requests :
            /\ \A x \in Memories : req'[s].evidence[x] \subseteq Candidates(s)'
            /\ req'[s].pc \in Extracted =>
                 \A m \in Candidates(s)' :
                   Said(s, m)' \in Readings[m][req'[s].content[m]]
      BY OthersInv
    <2> QED  BY <2>1 DEF EvidenceFits
  <1>3. StoredFirst' /\ GraphsFirst'
    BY OthersInv DEF StoredFirst, GraphsFirst
  <1>4. LockExclusive'
    BY OthersInv DEF IInv, LockExclusive, Others
  <1> QED  BY <1>1, <1>2, <1>3, <1>4

-----------------------------------------------------------------------------
LEMMA ReserveInv ==
  ASSUME IInv, TypeOK', NEW r \in Requests, Others(r), Grown, Reserve(r)
  PROVE  IInv'
  <1>1. /\ At(r, "reserve") /\ ~Conflicts(r)
        /\ rows' = Reserved(r) /\ stored' = stored /\ graphs' = graphs
    BY DEF Reserve
  <1>2. /\ req'[r].pc = "pipeline" /\ Candidates(r)' = Unanswered(r)
        /\ req'[r].batch = req[r].batch /\ req'[r].content = req[r].content
        /\ req'[r].evidence = req[r].evidence
    BY DEF Reserve, IInv, TypeOK, RequestState, Candidates
  <1>3. /\ Candidates(r) = {} /\ req[r].batch \in Batches
        /\ req[r].batch \subseteq Messages
    BY <1>1 DEF At, IInv, CandidatesFit, TypeOK, RequestState
  <1>4. \A m \in Unanswered(r) :
          /\ m \in req[r].batch /\ m \in Messages
          /\ rows'[m].status = "pending"
          /\ rows'[m].content = req[r].content[m]
    <2> SUFFICES ASSUME NEW m \in Unanswered(r)
                 PROVE  /\ m \in req[r].batch /\ m \in Messages
                        /\ rows'[m].status = "pending"
                        /\ rows'[m].content = req[r].content[m]
      OBVIOUS
    <2>1. m \in req[r].batch /\ m \in Messages /\ rows[m].status # "success"
      BY <1>3 DEF Unanswered
    <2>2. CASE rows[m].status = "none"
      BY <1>1, <2>1, <2>2 DEF Reserved
    <2>3. CASE rows[m].status # "none"
      <3>1. rows[m].status = "pending"
        BY <2>1, <2>3 DEF IInv, TypeOK, Row
      <3>2. rows[m].content = req[r].content[m]
        BY <1>1, <2>1, <2>3 DEF Conflicts
      <3>3. rows'[m] = rows[m]
        BY <1>1, <2>1, <2>3 DEF Reserved
      <3> QED  BY <2>1, <3>1, <3>2, <3>3
    <2> QED  BY <2>2, <2>3
  <1>5. \A x \in Memories : req'[r].evidence[x] \subseteq {}
    BY <1>2, <1>3 DEF IInv, EvidenceFits
  <1>6. /\ ReservedRows' /\ CandidatesFit' /\ EvidenceFits'
        /\ StoredFirst' /\ GraphsFirst' /\ LockExclusive'
    <2>1. Unanswered(r) \subseteq req'[r].batch
      BY <1>2, <1>4
    <2>2. \A x \in Memories : req'[r].evidence[x] \subseteq Candidates(r)'
      BY <1>5
    <2>3. Holds(r)
      BY <1>1 DEF At, Holds
    <2>4. req'[r].pc \notin Extracted
      BY <1>2 DEF Extracted
    <2> QED  BY <1>2, <1>3, <1>4, <2>1, <2>2, <2>3, <2>4, OneRequest
  <1>7. \A m \in Messages :
          /\ rows'[m].answer = rows[m].answer \/ rows'[m].answer = {}
          /\ rows'[m].status = "success" => rows'[m] = rows[m]
          /\ rows[m].status = "pending" => rows'[m].status = "pending"
    BY <1>1 DEF Reserved, IInv, TypeOK, Row
  <1>8. PendingAtWork'
    <2> SUFFICES ASSUME NEW m \in Messages, Apart(m), NEW s \in Requests,
                        AtWorkOn(s, m)'
                 PROVE  rows'[m].status = "pending"
      BY DEF PendingAtWork, Apart
    <2>1. CASE s = r
      BY <1>2, <1>4, <2>1 DEF AtWorkOn
    <2>2. CASE s # r
      BY <1>7, <2>2, OthersInv DEF IInv, PendingAtWork, AtWorkOn
    <2> QED  BY <2>1, <2>2
  <1>9. AnswersAreWhole'
    BY <1>1, <1>7 DEF IInv, AnswersAreWhole
  <1>10. AnswersCoverTheMessage'
    BY <1>7 DEF IInv, AnswersCoverTheMessage
  <1>11. OneContent'
    <2> SUFFICES ASSUME NEW x \in Memories, NEW m \in stored[x]
                 PROVE  /\ rows'[m].status # "none"
                        /\ \E reading \in Readings[m][rows'[m].content] :
                             x \in reading
      BY <1>1 DEF OneContent
    <2>1. m \in Messages
      BY DEF IInv, TypeOK
    <2> QED  BY <2>1 DEF IInv, OneContent, Grown
  <1> QED  BY <1>6, <1>8, <1>9, <1>10, <1>11 DEF IInv

(* Steps that leave the rows alone leave PendingAtWork alone.              *)
LEMMA RowsStay ==
  ASSUME IInv, TypeOK', NEW r \in Requests, Others(r), Grown, rows' = rows,
         Candidates(r)' = Candidates(r)
  PROVE  PendingAtWork'
  <1>1. \A s \in Requests : Candidates(s)' = Candidates(s)
    BY OthersInv
  <1> QED  BY <1>1 DEF IInv, PendingAtWork, AtWorkOn, Apart

LEMMA RunPipelineInv ==
  ASSUME IInv, TypeOK', NEW r \in Requests, Others(r), Grown, RunPipeline(r)
  PROVE  IInv'
  <1>1. At(r, "pipeline") /\ UNCHANGED <<rows, stored, graphs>>
    BY DEF RunPipeline
  <1>2. PICK reading \in [Candidates(r) -> SUBSET Memories] :
          /\ \A m \in Candidates(r) : reading[m] \in Readings[m][req[r].content[m]]
          /\ req' = [req EXCEPT
               ![r].pc = "persist",
               ![r].evidence =
                 [x \in Memories |-> {m \in Candidates(r) : x \in reading[m]}]]
    BY DEF RunPipeline
  <1>3. /\ req'[r].pc = "persist" /\ Candidates(r)' = Candidates(r)
        /\ req'[r].batch = req[r].batch /\ req'[r].content = req[r].content
        /\ \A x \in Memories :
             req'[r].evidence[x] = {m \in Candidates(r) : x \in reading[m]}
    <2> DEFINE found == [x \in Memories |->
                           {m \in Candidates(r) : x \in reading[m]}]
    <2>1. req' = [req EXCEPT ![r].pc = "persist", ![r].evidence = found]
      BY <1>2
    <2>2. \A x \in Memories : found[x] = {m \in Candidates(r) : x \in reading[m]}
      OBVIOUS
    <2> HIDE DEF found
    <2>3. req' = [req EXCEPT ![r] =
                   [req[r] EXCEPT !.pc = "persist", !.evidence = found]]
      BY <2>1
    <2>4. req'[r] = [req[r] EXCEPT !.pc = "persist", !.evidence = found]
      BY <2>3 DEF IInv, TypeOK
    <2>5. /\ req'[r].pc = "persist" /\ req'[r].candidates = req[r].candidates
          /\ req'[r].batch = req[r].batch /\ req'[r].content = req[r].content
          /\ req'[r].evidence = found
      BY <2>4 DEF IInv, TypeOK, RequestState
    <2> QED  BY <2>2, <2>5 DEF Candidates
  <1>4. \A m \in Candidates(r) : Said(r, m)' = reading[m]
    BY <1>3 DEF Said
  <1>5. /\ ReservedRows' /\ CandidatesFit' /\ EvidenceFits'
        /\ StoredFirst' /\ GraphsFirst' /\ LockExclusive'
    <2>1. Holds(r) /\ req[r].batch \in Batches
      BY <1>1 DEF At, Holds, IInv, CandidatesFit
    <2>2. \A m \in Candidates(r)' : /\ rows'[m].status # "none"
                                    /\ rows'[m].content = req'[r].content[m]
      BY <1>1, <1>3 DEF IInv, ReservedRows
    <2>3. Candidates(r)' \subseteq req'[r].batch
      BY <1>3 DEF IInv, CandidatesFit
    <2>4. \A x \in Memories : req'[r].evidence[x] \subseteq Candidates(r)'
      BY <1>3
    <2>5. \A m \in Candidates(r)' :
            Said(r, m)' \in Readings[m][req'[r].content[m]]
      BY <1>2, <1>3, <1>4
    <2> QED  BY <1>3, <2>1, <2>2, <2>3, <2>4, <2>5, OneRequest
  <1>6. PendingAtWork'
    BY <1>1, <1>3, RowsStay
  <1>7. AnswersAreWhole' /\ AnswersCoverTheMessage' /\ OneContent'
    BY <1>1 DEF IInv, AnswersAreWhole, AnswersCoverTheMessage, OneContent
  <1> QED  BY <1>5, <1>6, <1>7 DEF IInv

LEMMA PersistInv ==
  ASSUME IInv, TypeOK', NEW r \in Requests, Others(r), Grown, Persist(r)
  PROVE  IInv'
  <1>1. /\ At(r, "persist") /\ UNCHANGED <<rows, graphs>>
        /\ stored' = Upserted(r)
    BY DEF Persist
  <1>2. /\ req'[r].pc = IF GraphEnabled THEN "graph" ELSE "complete"
        /\ req'[r].candidates = req[r].candidates
        /\ req'[r].batch = req[r].batch /\ req'[r].content = req[r].content
        /\ req'[r].evidence = req[r].evidence
    BY DEF Persist, Go, IInv, TypeOK, RequestState
  <1>3. /\ Candidates(r)' = Candidates(r) /\ Accepted(r)' = Accepted(r)
        /\ \A m \in Messages : Said(r, m)' = Said(r, m)
        /\ Candidates(r) \subseteq Messages
    BY <1>2 DEF Candidates, Accepted, Said, IInv, TypeOK, RequestState
  <1>4. \A m \in Candidates(r) :
          Said(r, m) \in Readings[m][req[r].content[m]]
    BY <1>1 DEF At, IInv, EvidenceFits, Extracted
  <1>5. \A m \in Candidates(r) : /\ rows'[m].status # "none"
                                 /\ rows'[m].content = req[r].content[m]
    BY <1>1 DEF IInv, ReservedRows
  <1>6. /\ ReservedRows' /\ CandidatesFit' /\ EvidenceFits'
        /\ StoredFirst' /\ GraphsFirst' /\ LockExclusive'
    <2>1. Holds(r) /\ req[r].batch \in Batches
      BY <1>1 DEF At, Holds, IInv, CandidatesFit
    <2>2. Candidates(r)' \subseteq req'[r].batch
      BY <1>2, <1>3 DEF IInv, CandidatesFit
    <2>3. \A x \in Memories : req'[r].evidence[x] \subseteq Candidates(r)'
      BY <1>2, <1>3 DEF IInv, EvidenceFits
    <2>4. \A m \in Candidates(r)' :
            Said(r, m)' \in Readings[m][req'[r].content[m]]
      BY <1>2, <1>3, <1>4
    <2>5. \A x \in Accepted(r)' : stored'[x] # {}
      BY <1>1, <1>3 DEF Upserted, Accepted
    <2>6. ~(req'[r].pc = "complete" /\ GraphEnabled)
      BY <1>2
    <2>7. req'[r].pc \notin {"idle", "lock", "reserve"}
      BY <1>2
    <2> QED
      BY <1>2, <1>3, <1>5, <2>1, <2>2, <2>3, <2>4, <2>5, <2>6, <2>7, OneRequest
  <1>7. PendingAtWork'
    BY <1>1, <1>3, RowsStay
  <1>8. AnswersAreWhole' /\ AnswersCoverTheMessage'
    BY <1>1 DEF IInv, AnswersAreWhole, AnswersCoverTheMessage, Grown, TypeOK, Row
  <1>9. OneContent'
    <2> SUFFICES ASSUME NEW x \in Memories, NEW m \in stored'[x]
                 PROVE  /\ rows'[m].status # "none"
                        /\ \E reading \in Readings[m][rows'[m].content] :
                             x \in reading
      BY DEF OneContent
    <2>1. CASE x \in Accepted(r)
      <3>1. m \in req[r].evidence[x]
        BY <1>1, <2>1 DEF Upserted
      <3>2. m \in Candidates(r) /\ x \in Said(r, m)
        BY <3>1 DEF IInv, EvidenceFits, Said
      <3> QED  BY <1>4, <1>5, <3>2
    <2>2. CASE x \notin Accepted(r)
      BY <1>1, <2>2 DEF Upserted, IInv, OneContent
    <2> QED  BY <2>1, <2>2
  <1> QED  BY <1>6, <1>7, <1>8, <1>9 DEF IInv

LEMMA BuildGraphInv ==
  ASSUME IInv, TypeOK', NEW r \in Requests, Others(r), Grown,
         NEW x \in Memories, BuildGraph(r, x)
  PROVE  IInv'
  <1>1. UNCHANGED <<rows, stored, req>> /\ graphs \subseteq graphs'
    BY DEF BuildGraph
  <1>2. /\ Candidates(r)' = Candidates(r) /\ Accepted(r)' = Accepted(r)
        /\ \A m \in Messages : Said(r, m)' = Said(r, m)
        /\ Candidates(r) \subseteq Messages
        /\ GraphsBuilt(r) => GraphsBuilt(r)'
        /\ Holds(r)' = Holds(r)
    BY <1>1 DEF Candidates, Accepted, Said, GraphsBuilt, GraphKey, Holds, IInv,
                TypeOK, RequestState
  <1>3. ReservedRows' /\ CandidatesFit' /\ LockExclusive'
    BY <1>1 DEF IInv, ReservedRows, CandidatesFit, LockExclusive, Candidates,
                Holds
  <1>4. EvidenceFits' /\ StoredFirst'
    BY <1>1 DEF IInv, EvidenceFits, StoredFirst, Candidates, Said, Accepted
  <1>5. GraphsFirst'
    BY <1>1 DEF IInv, GraphsFirst, GraphsBuilt, GraphKey, Accepted
  <1>6. PendingAtWork'
    BY <1>1, <1>2, RowsStay
  <1>7. AnswersAreWhole' /\ AnswersCoverTheMessage' /\ OneContent'
    BY <1>1 DEF IInv, AnswersAreWhole, AnswersCoverTheMessage, OneContent
  <1> QED  BY <1>3, <1>4, <1>5, <1>6, <1>7 DEF IInv

LEMMA CompleteInv ==
  ASSUME IInv, TypeOK', NEW r \in Requests, Others(r), Grown, Complete(r)
  PROVE  IInv'
  <1>1. /\ At(r, "complete") /\ UNCHANGED <<stored, graphs>>
        /\ rows' = Answered(r) /\ req'[r] = IdleRequest
    BY DEF Complete, Leave, IInv, TypeOK
  <1>2. /\ req'[r].pc = "idle" /\ Candidates(r)' = {} /\ ~Holds(r)'
        /\ \A x \in Memories : req'[r].evidence[x] = {}
    BY <1>1 DEF IdleRequest, Candidates, Holds, NoEvidence
  <1>3. /\ ReservedRows' /\ CandidatesFit' /\ EvidenceFits'
        /\ StoredFirst' /\ GraphsFirst' /\ LockExclusive'
    <2>1. req'[r].pc \notin Extracted \cup {"graph", "complete"}
      BY <1>2 DEF Extracted
    <2>2. Candidates(r)' \subseteq req'[r].batch
      BY <1>2
    <2>3. \A x \in Memories : req'[r].evidence[x] \subseteq Candidates(r)'
      BY <1>2
    <2> QED  BY <1>2, <2>1, <2>2, <2>3, OneRequest
  <1>4. /\ Candidates(r) \subseteq Messages
        /\ \A m \in Candidates(r) :
             /\ rows[m].status # "none" /\ rows[m].content = req[r].content[m]
             /\ rows'[m].status = "success"
             /\ rows'[m].content = rows[m].content
             /\ rows'[m].answer = Accepted(r)
        /\ \A m \in Messages \ Candidates(r) : rows'[m] = rows[m]
    <2>1. Candidates(r) \subseteq Messages
      BY DEF IInv, TypeOK, RequestState, Candidates
    <2> QED  BY <1>1, <2>1 DEF Answered, IInv, TypeOK, Row, ReservedRows
  <1>5. PendingAtWork'
    <2> SUFFICES ASSUME NEW m \in Messages, Apart(m), NEW s \in Requests,
                        AtWorkOn(s, m)'
                 PROVE  rows'[m].status = "pending"
      BY DEF PendingAtWork, Apart
    <2>1. s # r /\ m \in Candidates(s)
      BY <1>2, OthersInv DEF AtWorkOn
    <2>2. m \notin Candidates(r)
      <3> SUFFICES ASSUME m \in Candidates(r)
                   PROVE  FALSE
        OBVIOUS
      <3>1. /\ Holds(r) /\ Holds(s)
            /\ req[r].batch \in Batches /\ req[s].batch \in Batches
            /\ m \in req[r].batch /\ m \in req[s].batch
        BY <2>1 DEF IInv, CandidatesFit, Holds
      <3> QED  BY <2>1, <3>1 DEF Apart, IInv, LockExclusive
    <2> QED  BY <1>4, <2>1, <2>2 DEF IInv, PendingAtWork, AtWorkOn
  <1>6. AnswersAreWhole'
    <2> SUFFICES ASSUME NEW m \in Messages, NEW x \in rows'[m].answer
                 PROVE  /\ stored[x] # {}
                        /\ GraphEnabled =>
                             \E e \in SUBSET Messages : <<x, e>> \in graphs
      BY <1>1 DEF AnswersAreWhole
    <2>1. CASE m \notin Candidates(r)
      BY <1>4, <2>1 DEF IInv, AnswersAreWhole
    <2>2. CASE m \in Candidates(r)
      <3>1. x \in Accepted(r) /\ x \in Memories
        BY <1>4, <2>2 DEF Accepted
      <3>2. stored[x] # {}
        BY <1>1, <3>1 DEF At, IInv, StoredFirst
      <3>3. GraphEnabled => <<x, req[r].evidence[x]>> \in graphs
        BY <1>1, <3>1 DEF At, IInv, GraphsFirst, GraphsBuilt, GraphKey
      <3>4. req[r].evidence[x] \in SUBSET Messages
        BY <3>1 DEF IInv, TypeOK, RequestState
      <3> QED  BY <3>2, <3>3, <3>4
    <2> QED  BY <2>1, <2>2
  <1>7. AnswersCoverTheMessage'
    <2> SUFFICES ASSUME NEW m \in Messages, rows'[m].status = "success"
                 PROVE  \E reading \in Readings[m][rows'[m].content] :
                          reading \subseteq rows'[m].answer
      BY DEF AnswersCoverTheMessage
    <2>1. CASE m \notin Candidates(r)
      BY <1>4, <2>1 DEF IInv, AnswersCoverTheMessage
    <2>2. CASE m \in Candidates(r)
      <3>1. Said(r, m) \in Readings[m][req[r].content[m]]
        BY <1>1, <2>2 DEF At, IInv, EvidenceFits, Extracted
      <3>2. Said(r, m) \subseteq Accepted(r)
        BY DEF Said, Accepted
      <3> QED  BY <1>4, <2>2, <3>1, <3>2
    <2> QED  BY <2>1, <2>2
  <1>8. OneContent'
    <2> SUFFICES ASSUME NEW x \in Memories, NEW m \in stored[x]
                 PROVE  /\ rows'[m].status # "none"
                        /\ \E reading \in Readings[m][rows'[m].content] :
                             x \in reading
      BY <1>1 DEF OneContent
    <2>1. m \in Messages
      BY DEF IInv, TypeOK
    <2> QED  BY <2>1 DEF IInv, OneContent, Grown
  <1> QED  BY <1>3, <1>5, <1>6, <1>7, <1>8 DEF IInv

-----------------------------------------------------------------------------
LEMMA InitInv == Init => IInv
  <1> SUFFICES ASSUME Init PROVE IInv
    OBVIOUS
  <1>1. \A r \in Requests :
          /\ req[r] = IdleRequest /\ Candidates(r) = {} /\ ~Holds(r)
          /\ req[r].pc = "idle" /\ \A x \in Memories : req[r].evidence[x] = {}
    BY DEF Init, IdleRequest, Candidates, Holds, NoEvidence
  <1>2. TypeOK
    BY IdleType, MishapsBounded DEF Init, TypeOK, Row, NoRow, NoEvidence
  <1>3. ReservedRows /\ CandidatesFit /\ EvidenceFits
    BY <1>1 DEF ReservedRows, CandidatesFit, EvidenceFits, Extracted
  <1>4. StoredFirst /\ GraphsFirst /\ LockExclusive /\ PendingAtWork
    BY <1>1 DEF StoredFirst, GraphsFirst, LockExclusive, PendingAtWork, AtWorkOn
  <1>5. AnswersAreWhole /\ AnswersCoverTheMessage /\ OneContent
    BY DEF Init, NoRow, NoEvidence, AnswersAreWhole, AnswersCoverTheMessage,
           OneContent
  <1> QED  BY <1>2, <1>3, <1>4, <1>5 DEF IInv

(* A step of a request from lock to answer.                                *)
LEMMA WorkInv ==
  ASSUME IInv, NEW r \in Requests, Lock(r) \/ Work(r)
  PROVE  IInv'
  <1>1. TypeOK' /\ Others(r) /\ Grown
    BY WorkType DEF IInv
  <1>2. CASE Lock(r)
    <2>1. PICK pc \in PCs : Go(r, pc)
      BY <1>2 DEF Lock, PCs
    <2> QED  BY <1>1, <1>2, <2>1, MoveInv DEF Lock
  <1>3. CASE Refuse(r) \/ AnswerFromRows(r)
    <2>1. UNCHANGED <<rows, stored, graphs>> /\ req'[r] = IdleRequest
      BY <1>3 DEF Refuse, AnswerFromRows, Leave, IInv, TypeOK
    <2>2. Fresh(IdleRequest)
      BY DEF Fresh, IdleRequest
    <2> QED  BY <1>1, <2>1, <2>2, ComeAndGoInv DEF Others
  <1>4. CASE EndGraphs(r)
    BY <1>1, <1>4, MoveInv DEF EndGraphs, PCs
  <1>5. CASE Reserve(r)
    BY <1>1, <1>5, ReserveInv
  <1>6. CASE RunPipeline(r)
    BY <1>1, <1>6, RunPipelineInv
  <1>7. CASE Persist(r)
    BY <1>1, <1>7, PersistInv
  <1>8. CASE \E x \in Memories : BuildGraph(r, x)
    BY <1>1, <1>8, BuildGraphInv
  <1>9. CASE Complete(r)
    BY <1>1, <1>9, CompleteInv
  <1> QED
    BY <1>2, <1>3, <1>4, <1>5, <1>6, <1>7, <1>8, <1>9 DEF Work

LEMMA ArriveInv ==
  ASSUME IInv, NEW r \in Requests, Arrive(r)
  PROVE  IInv'
  <1>1. PICK batch \in Batches, content \in [Messages -> Contents] :
          Ask(r, batch, content)
    BY DEF Arrive
  <1>2. content \in [Messages -> Contents \cup {NoContent}]
    OBVIOUS
  <1>3. TypeOK' /\ Others(r)
    BY <1>1, <1>2, AskType DEF IInv
  <1>4. UNCHANGED <<rows, stored, graphs>> /\ Fresh(req'[r])
    BY <1>1 DEF Ask, IInv, TypeOK, IdleRequest, Fresh
  <1> QED  BY <1>3, <1>4, ComeAndGoInv DEF Others

LEMMA MishapInv ==
  ASSUME IInv, Restart \/ \E r \in Requests : Fail(r)
  PROVE  IInv'
  <1>1. TypeOK' /\ UNCHANGED <<rows, stored, graphs>>
    BY MishapType DEF IInv
  <1>2. \A s \in Requests : req'[s] = req[s] \/ req'[s] = IdleRequest
    BY DEF Restart, Fail, Leave, IInv, TypeOK
  <1>3. Fresh(IdleRequest)
    BY DEF Fresh, IdleRequest
  <1> QED  BY <1>1, <1>2, <1>3, ComeAndGoInv

LEMMA NextInv == IInv /\ [Next]_vars => IInv'
  <1> SUFFICES ASSUME IInv, [Next]_vars PROVE IInv'
    OBVIOUS
  <1>1. CASE Next
    BY <1>1, WorkInv, ArriveInv, MishapInv DEF Next
  <1>2. CASE UNCHANGED vars
    <2>1. TypeOK'
      BY <1>2 DEF vars, IInv, TypeOK
    <2> QED  BY <1>2, <2>1, ComeAndGoInv DEF vars
  <1> QED  BY <1>1, <1>2

(* In every run the rows, the store, the graphs and what each request knows *)
(* agree as IInv says: what was reserved, stored and built came in order.   *)
THEOREM Invariance == Spec => []IInv
  BY InitInv, NextInv, PTL DEF Spec

(* Every request, row and record stays in its range.                       *)
THEOREM TypeCorrect == Spec => []TypeOK
  <1>1. IInv => TypeOK
    BY DEF IInv
  <1> QED  BY <1>1, Invariance, PTL

(* What a repetition is answered with is stored and has its graphs.        *)
THEOREM WholeAnswers == Spec => []AnswersAreWhole
  <1>1. IInv => AnswersAreWhole
    BY DEF IInv
  <1> QED  BY <1>1, Invariance, PTL

(* An answer contains a reading of each message it answers.                *)
THEOREM CoveringAnswers == Spec => []AnswersCoverTheMessage
  <1>1. IInv => AnswersCoverTheMessage
    BY DEF IInv
  <1> QED  BY <1>1, Invariance, PTL

(* No memory comes from another content than the one of the row.           *)
THEOREM ContentReserved == Spec => []OneContent
  <1>1. IInv => OneContent
    BY DEF IInv
  <1> QED  BY <1>1, Invariance, PTL

(* Where requests carry the same candidates, the lock keeps them apart.    *)
THEOREM LockSuffices == Spec => []OneAtATime
  <1>1. IInv => OneAtATime
    <2> SUFFICES ASSUME IInv, NEW m \in Messages, Apart(m),
                        NEW r \in Requests, NEW s \in Requests
                 PROVE  /\ AtWorkOn(r, m) /\ AtWorkOn(s, m) => r = s
                        /\ AtWorkOn(r, m) => rows[m].status = "pending"
      BY DEF OneAtATime
    <2>1. AtWorkOn(r, m) /\ AtWorkOn(s, m) => r = s
      <3> SUFFICES ASSUME AtWorkOn(r, m), AtWorkOn(s, m) PROVE r = s
        OBVIOUS
      <3>1. /\ Holds(r) /\ Holds(s)
            /\ req[r].batch \in Batches /\ req[s].batch \in Batches
            /\ m \in req[r].batch /\ m \in req[s].batch
        BY DEF AtWorkOn, IInv, CandidatesFit, Holds
      <3> QED  BY <3>1 DEF Apart, IInv, LockExclusive
    <2>2. AtWorkOn(r, m) => rows[m].status = "pending"
      BY DEF IInv, PendingAtWork
    <2> QED  BY <2>1, <2>2
  <1> QED  BY <1>1, Invariance, PTL

(* And the answer to their messages is final.                              *)
THEOREM FinalAnswers == Spec => AnswersStay
  <1>1. IInv /\ [Next]_vars =>
          [\A m \in Messages :
             Apart(m) /\ rows[m].status = "success" => rows'[m] = rows[m]]_vars
    <2> SUFFICES ASSUME IInv, Next, NEW m \in Messages, Apart(m),
                        rows[m].status = "success"
                 PROVE  rows'[m] = rows[m]
      OBVIOUS
    <2>1. ASSUME NEW r \in Requests, Reserve(r)
          PROVE  rows'[m] = rows[m]
      BY <2>1 DEF Reserve, Reserved
    <2>2. ASSUME NEW r \in Requests, Complete(r)
          PROVE  rows'[m] = rows[m]
      <3>1. m \notin Candidates(r)
        BY DEF IInv, PendingAtWork, AtWorkOn
      <3> QED  BY <2>2, <3>1 DEF Complete, Answered
    <2>3. ASSUME Restart \/ \E r \in Requests : Arrive(r) \/ Lock(r) \/ Fail(r)
          PROVE  rows'[m] = rows[m]
      BY <2>3 DEF Restart, Arrive, Ask, Lock, Fail
    <2>4. ASSUME NEW r \in Requests, Work(r), ~Reserve(r), ~Complete(r)
          PROVE  rows'[m] = rows[m]
      BY <2>4 DEF Work, Refuse, AnswerFromRows, RunPipeline, Persist, BuildGraph,
                  EndGraphs
    <2> QED  BY <2>1, <2>2, <2>3, <2>4 DEF Next
  <1> QED  BY <1>1, Invariance, PTL DEF Spec, AnswersStay
=============================================================================
