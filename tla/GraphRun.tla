------------------------------ MODULE GraphRun ------------------------------
(***************************************************************************)
(* The life of an ingestion run in the graph store of memory-core: a memory *)
(* is accepted under an idempotency key, its text is embedded, entities and *)
(* facts are extracted from it, and the extraction is published.  Between   *)
(* two statements of a pipeline lie calls to an embedder or a model that    *)
(* take seconds, so pipelines for one key overlap: an ingest is repeated    *)
(* while the first is still at work, or after it was aborted.               *)
(*                                                                          *)
(* What keeps them apart is the run's row: its status, its stage, and an    *)
(* attempt number.  A pipeline takes a stage over by moving the row out of  *)
(* it, and stores a result only if the row is where it left it.             *)
(*                                                                          *)
(* Each transaction of the repository is one step.  A pipeline that is      *)
(* aborted (its task dropped, the process killed) while a transaction is    *)
(* under way is one that aborts just after the transaction, or before it.   *)
(***************************************************************************)
EXTENDS Naturals, FiniteSets

CONSTANTS
  Keys,         \* idempotency keys of one memory space
  Inputs,       \* what a request may carry under a key, as its hash
  Workers,      \* pipelines that can be under way at the same time
  NoKey,        \* the key of an idle worker
  NoInput,      \* the input hash of a run that does not exist
  MaxAttempts,  \* bound on the attempts of a run
  MaxOverlaps,  \* bound on calls for a key some worker is at work on
  MaxMishaps    \* bound on aborts and on calls and statements that fail

ASSUME WorkersFinite == IsFiniteSet(Workers)
ASSUME NoKeyIsNoKey == NoKey \notin Keys
ASSUME NoInputIsNoInput == NoInput \notin Inputs
ASSUME BoundsAreNaturals == /\ MaxAttempts \in Nat
                            /\ MaxOverlaps \in Nat
                            /\ MaxMishaps \in Nat

VARIABLES
  run,           \* run[k]: the row of graph_ingestion_runs under key k
  nextSequence,  \* next_ingestion_sequence of the memory space
  embedding,     \* embedding[k]: the attempt whose vector the record has, or 0
  extractions,   \* extractions[k]: the rows of graph_extraction_runs
  evidence,      \* evidence[k]: the extractions published under the run
  worker,        \* worker[w]: where pipeline w is, and what it claimed
  overlaps,      \* how many calls overlapped another one
  mishaps        \* how many things went wrong

store == <<run, nextSequence, embedding, extractions, evidence>>
vars == <<run, nextSequence, embedding, extractions, evidence, worker,
          overlaps, mishaps>>

-----------------------------------------------------------------------------
Statuses == {"none", "pending", "running", "failed", "completed"}

Stages == {"none", "accepted", "embedding", "extraction", "extracting",
           "resolution", "resolving", "completed"}

RunRow == [status: Statuses, stage: Stages, attempt: Nat,
           input: Inputs \cup {NoInput}, sequence: Nat]

NoRun == [status |-> "none", stage |-> "none", attempt |-> 0,
          input |-> NoInput, sequence |-> 0]

(* The attempt is not a column; it says which attempt made the extraction. *)
Extraction == [number: Nat, status: {"completed", "failed"}, attempt: Nat]

Publication == [number: Nat, attempt: Nat]

(* What a worker at a stage does next, and the stage it has claimed.       *)
EmbeddingSteps == {"embed", "store_embedding", "fail_embedding"}
ExtractionSteps == {"extract", "store_extraction", "fail_extraction"}
ResolutionSteps == {"publish", "fail_resolution"}

ClaimedStage(pc) ==
  CASE pc \in EmbeddingSteps -> "embedding"
    [] pc \in ExtractionSteps -> "extracting"
    [] pc \in ResolutionSteps -> "resolving"
    [] OTHER -> "none"

PCs == {"idle", "reset", "claim", "claim_extraction", "claim_resolution"}
         \cup EmbeddingSteps \cup ExtractionSteps \cup ResolutionSteps

WorkerState == [pc: PCs, key: Keys \cup {NoKey}, attempt: Nat, number: Nat]

IdleWorker == [pc |-> "idle", key |-> NoKey, attempt |-> 0, number |-> 0]

Numbers(k) == {e.number : e \in extractions[k]}

Completed(k) == {e \in extractions[k] : e.status = "completed"}

-----------------------------------------------------------------------------
At(w, pc) == worker[w].pc = pc

Go(w, pc) == worker' = [worker EXCEPT ![w].pc = pc]

Leave(w) == worker' = [worker EXCEPT ![w] = IdleWorker]

Busy(k) == \E w \in Workers : worker[w].key = k

(* Mutant of Current. *)
CurrentAnyAttempt(w) ==
  LET k == worker[w].key
  IN  run[k].status = "running" /\ run[k].stage = ClaimedStage(worker[w].pc)

(* The guard of every UPDATE that stores a stage's outcome: the row is at  *)
(* the stage this worker claimed, in the same attempt.                     *)
Current(w) ==
  LET k == worker[w].key
  IN  /\ run[k].status = "running"
      /\ run[k].stage = ClaimedStage(worker[w].pc)
      /\ run[k].attempt = worker[w].attempt

Mishap == mishaps < MaxMishaps /\ mishaps' = mishaps + 1

-----------------------------------------------------------------------------
Init ==
  /\ run = [k \in Keys |-> NoRun]
  /\ nextSequence = 1
  /\ embedding = [k \in Keys |-> 0]
  /\ extractions = [k \in Keys |-> {}]
  /\ evidence = [k \in Keys |-> {}]
  /\ worker = [w \in Workers |-> IdleWorker]
  /\ overlaps = 0
  /\ mishaps = 0

(* Where a pipeline goes after the request is accepted, by entry point and *)
(* by the status accept_memory_record answered.                            *)
AfterAccept(entry, status) ==
  CASE entry = "build_memory" -> "claim"
    [] entry = "resume_memory" -> "reset"
    [] entry = "build_memory_if_needed" /\ status = "pending" -> "claim"
    [] OTHER -> "idle"

Enter(w, k, entry, status) ==
  LET pc == AfterAccept(entry, status)
  IN  worker' = [worker EXCEPT ![w] =
        IF pc = "idle" THEN IdleWorker
        ELSE [pc |-> pc, key |-> k, attempt |-> 0, number |-> 0]]

(* accept_memory_record: a new key makes a record, takes the next ingestion *)
(* sequence and a pending run.                                              *)
AcceptNew(w, k, i, entry) ==
  /\ run[k].status = "none"
  /\ run' = [run EXCEPT ![k] = [status |-> "pending", stage |-> "accepted",
                                attempt |-> 0, input |-> i,
                                sequence |-> nextSequence]]
  /\ nextSequence' = nextSequence + 1
  /\ Enter(w, k, entry, "pending")

(* A known key with the same input answers the run's status.  With another *)
(* input it is an IDEMPOTENCY_CONFLICT, which changes nothing.              *)
AcceptKnown(w, k, i, entry) ==
  /\ run[k].status # "none"
  /\ run[k].input = i
  /\ Enter(w, k, entry, run[k].status)
  /\ UNCHANGED <<run, nextSequence>>

Accept(w, k, i, entry) ==
  /\ At(w, "idle")
  /\ IF Busy(k) THEN overlaps < MaxOverlaps /\ overlaps' = overlaps + 1
                ELSE UNCHANGED overlaps
  /\ AcceptNew(w, k, i, entry) \/ AcceptKnown(w, k, i, entry)
  /\ UNCHANGED <<embedding, extractions, evidence, mishaps>>

(* Mutant of Resettable. *)
ResettableFailed == {"failed"}

(* The statuses resume_memory starts over from.  "running" is among them,  *)
(* whether or not some pipeline is at work on the run.                     *)
Resettable == {"failed", "running"}

Restarted(row) == [row EXCEPT !.status = "pending", !.stage = "accepted"]

(* reset_incomplete_run_for_resume: the run is pending again; its attempt  *)
(* number stays, and so does whatever was stored for it.                   *)
Reset(w) ==
  LET k == worker[w].key
  IN  /\ At(w, "reset")
      /\ IF run[k].status \in Resettable
         THEN run' = [run EXCEPT ![k] = Restarted(run[k])] /\ Go(w, "claim")
         ELSE /\ IF run[k].status = "pending" THEN Go(w, "claim") ELSE Leave(w)
              /\ UNCHANGED run
      /\ UNCHANGED <<nextSequence, embedding, extractions, evidence,
                     overlaps, mishaps>>

(* Mutant of NextAttempt. *)
NextAttemptSame(k) == run[k].attempt

NextAttempt(k) == run[k].attempt + 1

(* claim_pending_run: only a pending run can be claimed, as a new attempt. *)
Claim(w) ==
  LET k == worker[w].key
  IN  /\ At(w, "claim")
      /\ IF run[k].status = "pending"
         THEN /\ run[k].attempt < MaxAttempts
              /\ run' = [run EXCEPT ![k].status = "running",
                                    ![k].stage = "embedding",
                                    ![k].attempt = NextAttempt(k)]
              /\ worker' = [worker EXCEPT ![w].pc = "embed",
                                          ![w].attempt = NextAttempt(k)]
         ELSE Leave(w) /\ UNCHANGED run
      /\ UNCHANGED <<nextSequence, embedding, extractions, evidence,
                     overlaps, mishaps>>

(* The embedder answers.                                                   *)
Embed(w) ==
  /\ At(w, "embed")
  /\ Go(w, "store_embedding")
  /\ UNCHANGED <<store, overlaps, mishaps>>

(* store_record_embedding: the stage and the vector, or neither.           *)
StoreEmbedding(w) ==
  LET k == worker[w].key
  IN  /\ At(w, "store_embedding")
      /\ IF Current(w)
         THEN /\ run' = [run EXCEPT ![k].stage = "extraction"]
              /\ embedding' = [embedding EXCEPT ![k] = worker[w].attempt]
              /\ Go(w, "claim_extraction")
         ELSE Go(w, "fail_embedding") /\ UNCHANGED <<run, embedding>>
      /\ UNCHANGED <<nextSequence, extractions, evidence, overlaps, mishaps>>

(* MAX(attempt_number) + 1 over the run's extractions.                     *)
NextNumber(k) ==
  IF extractions[k] = {} THEN 1
  ELSE (CHOOSE n \in Numbers(k) : \A m \in Numbers(k) : m <= n) + 1

(* claim_extraction_run: the attempt is read from the row, not compared    *)
(* with the one this pipeline claimed before.                              *)
ClaimExtraction(w) ==
  LET k == worker[w].key
  IN  /\ At(w, "claim_extraction")
      /\ IF run[k].status = "running" /\ run[k].stage = "extraction"
         THEN /\ run' = [run EXCEPT ![k].stage = "extracting"]
              /\ worker' = [worker EXCEPT ![w].pc = "extract",
                                          ![w].attempt = run[k].attempt,
                                          ![w].number = NextNumber(k)]
         ELSE Leave(w) /\ UNCHANGED run
      /\ UNCHANGED <<nextSequence, embedding, extractions, evidence,
                     overlaps, mishaps>>

(* The model answers with an output that passes validation.                *)
Extract(w) ==
  /\ At(w, "extract")
  /\ Go(w, "store_extraction")
  /\ UNCHANGED <<store, overlaps, mishaps>>

(* The row store_extraction_success and _failure insert; number is unique  *)
(* within a run.                                                           *)
Recorded(w, status) ==
  LET k == worker[w].key
  IN  /\ worker[w].number \notin Numbers(k)
      /\ Current(w)
      /\ extractions' = [extractions EXCEPT ![k] = @ \cup
            {[number |-> worker[w].number, status |-> status,
              attempt |-> worker[w].attempt]}]

(* store_extraction_success: the extraction and the stage, or neither.     *)
StoreExtraction(w) ==
  LET k == worker[w].key
  IN  /\ At(w, "store_extraction")
      /\ \/ /\ Recorded(w, "completed")
            /\ run' = [run EXCEPT ![k].stage = "resolution"]
            /\ worker' = [worker EXCEPT ![w].pc = "claim_resolution"]
         \/ /\ worker[w].number \in Numbers(k) \/ ~Current(w)
            /\ Go(w, "fail_extraction")
            /\ UNCHANGED <<run, extractions>>
      /\ UNCHANGED <<nextSequence, embedding, evidence, overlaps, mishaps>>

(* The completed extraction with the highest number.                       *)
Latest(k) ==
  CHOOSE e \in Completed(k) : \A f \in Completed(k) : f.number <= e.number

(* claim_resolution_run takes the latest completed extraction, and the     *)
(* attempt from the row.  The output and the metadata are then validated,  *)
(* which may send the run to the failure path.                             *)
ClaimResolution(w) ==
  LET k == worker[w].key
  IN  /\ At(w, "claim_resolution")
      /\ IF /\ Completed(k) # {}
            /\ run[k].status = "running"
            /\ run[k].stage = "resolution"
         THEN /\ run' = [run EXCEPT ![k].stage = "resolving"]
              /\ worker' = [worker EXCEPT ![w].pc = "publish",
                                          ![w].attempt = run[k].attempt,
                                          ![w].number = Latest(k).number]
         ELSE Leave(w) /\ UNCHANGED run
      /\ UNCHANGED <<nextSequence, embedding, extractions, evidence,
                     overlaps, mishaps>>

(* Mutant of Publish. *)
PublishUnguarded(w) ==
  LET k == worker[w].key
  IN  /\ At(w, "publish")
      /\ run' = [run EXCEPT ![k].status = "completed",
                            ![k].stage = "completed"]
      /\ evidence' = [evidence EXCEPT ![k] = @ \cup
           {[number |-> worker[w].number, attempt |-> worker[w].attempt]}]
      /\ Leave(w)
      /\ UNCHANGED <<nextSequence, embedding, extractions, overlaps, mishaps>>

(* publish_resolution: entities, facts and evidence, and the completion of *)
(* the run, or none of it.                                                 *)
Publish(w) ==
  LET k == worker[w].key
  IN  /\ At(w, "publish")
      /\ IF Current(w)
         THEN /\ run' = [run EXCEPT ![k].status = "completed",
                                    ![k].stage = "completed"]
              /\ evidence' = [evidence EXCEPT ![k] = @ \cup
                   {[number |-> worker[w].number,
                     attempt |-> worker[w].attempt]}]
              /\ Leave(w)
         ELSE Go(w, "fail_resolution") /\ UNCHANGED <<run, evidence>>
      /\ UNCHANGED <<nextSequence, embedding, extractions, overlaps, mishaps>>

-----------------------------------------------------------------------------
(* Failures.                                                               *)

FailurePath(pc) ==
  CASE pc \in EmbeddingSteps -> "fail_embedding"
    [] pc \in ExtractionSteps -> "fail_extraction"
    [] OTHER -> "fail_resolution"

(* The embedder or the model answers with an error, an output or metadata  *)
(* does not pass validation, or a transaction fails and leaves nothing.    *)
StageFails(w) ==
  /\ worker[w].pc \in {"embed", "store_embedding", "extract",
                       "store_extraction", "publish"}
  /\ Mishap
  /\ Go(w, FailurePath(worker[w].pc))
  /\ UNCHANGED <<store, overlaps>>

(* mark_run_failed_if_current_attempt after a failed embedding or          *)
(* resolution: the stage stays, as the place of the failure.               *)
MarkFailed(w) ==
  LET k == worker[w].key
  IN  /\ worker[w].pc \in {"fail_embedding", "fail_resolution"}
      /\ run' = IF Current(w) THEN [run EXCEPT ![k].status = "failed"] ELSE run
      /\ Leave(w)
      /\ UNCHANGED <<nextSequence, embedding, extractions, evidence,
                     overlaps, mishaps>>

(* store_extraction_failure: a failed extraction and a failed run, or      *)
(* neither.                                                                *)
RecordFailure(w) ==
  LET k == worker[w].key
  IN  /\ At(w, "fail_extraction")
      /\ \/ /\ Recorded(w, "failed")
            /\ run' = [run EXCEPT ![k].status = "failed"]
         \/ /\ worker[w].number \in Numbers(k) \/ ~Current(w)
            /\ UNCHANGED <<run, extractions>>
      /\ Leave(w)
      /\ UNCHANGED <<nextSequence, embedding, evidence, overlaps, mishaps>>

(* The ingest is dropped and its tasks with it, a claim or the marking of a *)
(* failure fails itself, or the process ends: the pipeline is gone, the row *)
(* stays as it is.                                                          *)
Abort(w) ==
  /\ ~At(w, "idle")
  /\ Mishap
  /\ Leave(w)
  /\ UNCHANGED <<store, overlaps>>

-----------------------------------------------------------------------------
Step(w) ==
  \/ Reset(w) \/ Claim(w) \/ Embed(w) \/ StoreEmbedding(w)
  \/ ClaimExtraction(w) \/ Extract(w) \/ StoreExtraction(w)
  \/ ClaimResolution(w) \/ Publish(w) \/ MarkFailed(w) \/ RecordFailure(w)

Entries == {"build_memory", "build_memory_if_needed", "resume_memory"}

Next ==
  \/ \E w \in Workers, k \in Keys, i \in Inputs, entry \in Entries :
       Accept(w, k, i, entry)
  \/ \E w \in Workers : Step(w) \/ StageFails(w) \/ Abort(w)

Spec == Init /\ [][Next]_vars

(* A caller whose memory is not complete asks again to resume it.          *)
Retry(k) ==
  /\ run[k].status \notin {"none", "completed"}
  /\ \E w \in Workers, i \in Inputs : Accept(w, k, i, "resume_memory")

(* Pipelines go on; a caller who keeps asking is let in time and again,    *)
(* because the ingest lock it waits for is first-in first-out.  MaxOverlaps *)
(* is an assumption here: pipelines that resume one another for ever never *)
(* finish.                                                                 *)
FairSpec == /\ Spec
            /\ \A w \in Workers : WF_vars(Step(w))
            /\ \A k \in Keys : SF_vars(Retry(k))

-----------------------------------------------------------------------------
StageFits(row) ==
  /\ row.status = "none" <=> row.stage = "none"
  /\ row.status = "pending" <=> row.stage = "accepted"
  /\ row.status = "completed" <=> row.stage = "completed"

KeyFits(state) ==
  IF state.pc = "idle" THEN state = IdleWorker
  ELSE state.key \in Keys /\ run[state.key].status # "none"

(* Besides the types: a row's status and stage belong together, and a      *)
(* worker under way has a key that was accepted.                           *)
TypeOK ==
  /\ run \in [Keys -> RunRow]
  /\ nextSequence \in Nat
  /\ embedding \in [Keys -> Nat]
  /\ extractions \in [Keys -> SUBSET Extraction]
  /\ evidence \in [Keys -> SUBSET Publication]
  /\ worker \in [Workers -> WorkerState]
  /\ overlaps \in Nat
  /\ mishaps \in Nat
  /\ \A k \in Keys : StageFits(run[k])
  /\ \A w \in Workers : KeyFits(worker[w])

(* A worker whose result would still be accepted.                          *)
Owns(w, k) ==
  /\ worker[w].key = k
  /\ ClaimedStage(worker[w].pc) # "none"
  /\ Current(w)

(* However pipelines for a key overlap, and whoever resumed it while it    *)
(* was running, at most one of them can still store a result.              *)
OneOwner ==
  \A k \in Keys : \A v, w \in Workers : Owns(v, k) /\ Owns(w, k) => v = w

(* The attempt number an owner was given for its extraction is still free, *)
(* so the UNIQUE constraint never refuses the result of the current        *)
(* attempt.                                                                *)
ExtractionNumberFree ==
  \A k \in Keys : \A w \in Workers :
    Owns(w, k) /\ run[k].stage = "extracting" =>
      \A n \in Numbers(k) : n < worker[w].number

(* While a run is being resolved, the extraction that is going to be       *)
(* published is the one its current attempt made.                          *)
ResolvesItsExtraction ==
  \A k \in Keys :
    run[k].status = "running" /\ run[k].stage \in {"resolution", "resolving"} =>
      /\ Completed(k) # {}
      /\ Latest(k).attempt = run[k].attempt
      /\ \A w \in Workers :
           Owns(w, k) => worker[w].number = Latest(k).number

(* Evidence is there when the run is completed and only then; it was       *)
(* published once, by the run's last attempt, from an extraction that      *)
(* attempt completed, next to the vector that attempt stored.              *)
CompletedRunIsWhole ==
  \A k \in Keys :
    IF run[k].status = "completed"
    THEN \E p \in evidence[k] :
           /\ evidence[k] = {p}
           /\ p.attempt = run[k].attempt
           /\ [number |-> p.number, status |-> "completed",
               attempt |-> p.attempt] \in extractions[k]
           /\ embedding[k] = run[k].attempt
    ELSE evidence[k] = {}

(* Nothing touches a completed run again: no resume, and no pipeline that  *)
(* was at work on it when it was completed.                                *)
CompletedIsFinal ==
  [][\A k \in Keys : run[k].status = "completed" =>
       /\ run'[k] = run[k]
       /\ embedding'[k] = embedding[k]
       /\ extractions'[k] = extractions[k]
       /\ evidence'[k] = evidence[k]]_vars

(* http-mcp-deployment.md:291: "Repeating the same idempotent ingest       *)
(* resumes the missing graph work".  Whatever was aborted or failed, and   *)
(* wherever, a memory whose callers keep asking is completed.              *)
ResumedRunsComplete ==
  \A k \in Keys : run[k].status # "none" ~> run[k].status = "completed"
=============================================================================
