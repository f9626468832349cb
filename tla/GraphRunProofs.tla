--------------------------- MODULE GraphRunProofs ---------------------------
(***************************************************************************)
(* Machine-checked proofs about GraphRun: however pipelines overlap, abort *)
(* and resume each other, a run is published once and whole.               *)
(***************************************************************************)
EXTENDS GraphRunRefinement, TLAPS

(* A worker that has claimed a stage of run k, in whatever attempt.        *)
StageOf(w) == ClaimedStage(worker[w].pc)

Claims(w, k) == worker[w].key = k /\ StageOf(w) # "none"

ClaimsNow(w, k) == Claims(w, k) /\ worker[w].attempt = run[k].attempt

(* The row of an extraction numbered higher than any other.                *)
IsLatest(k, e) ==
  e \in Completed(k) /\ \A f \in Completed(k) : f.number <= e.number

(* Attempts are never ahead of the row, and while the run is running the   *)
(* claims of its current attempt are not ahead of the row's stage.         *)
ClaimsInOrder(k) ==
  /\ \A w \in Workers : Claims(w, k) => worker[w].attempt <= run[k].attempt
  /\ run[k].status = "running" =>
       \A w \in Workers : ClaimsNow(w, k) =>
         /\ run[k].stage \in {"embedding", "extraction"} =>
              StageOf(w) = "embedding"
         /\ run[k].stage \in {"extracting", "resolution"} =>
              StageOf(w) # "resolving"

OneClaim(k) ==
  run[k].status = "running" =>
    \A v, w \in Workers :
      ClaimsNow(v, k) /\ ClaimsNow(w, k)
        /\ StageOf(v) = run[k].stage /\ StageOf(w) = run[k].stage => v = w

(* Extractions have distinct numbers, of which there is a highest.         *)
Numbered(k) ==
  /\ \A e, f \in extractions[k] : e.number = f.number => e = f
  /\ extractions[k] # {} =>
       \E n \in Numbers(k) : \A m \in Numbers(k) : m <= n
  /\ Completed(k) # {} => \E e \in Completed(k) : IsLatest(k, e)
  /\ run[k].status = "running" /\ run[k].stage = "extracting" =>
       \A w \in Workers : ClaimsNow(w, k) /\ StageOf(w) = "extracting" =>
         \A n \in Numbers(k) : n < worker[w].number

(* What the stages behind the row's stage have left.                       *)
Progress(k) ==
  /\ run[k].status = "running"
       /\ run[k].stage \in {"extraction", "extracting", "resolution", "resolving"}
       => embedding[k] = run[k].attempt
  /\ run[k].status = "running" /\ run[k].stage \in {"resolution", "resolving"} =>
       /\ \E e \in Completed(k) : IsLatest(k, e) /\ e.attempt = run[k].attempt
       /\ run[k].stage = "resolving" =>
            \A w \in Workers : ClaimsNow(w, k) /\ StageOf(w) = "resolving" =>
              \E e \in Completed(k) : /\ IsLatest(k, e)
                                      /\ e.attempt = run[k].attempt
                                      /\ worker[w].number = e.number

Whole(k) ==
  IF run[k].status = "completed"
  THEN \E p \in evidence[k] :
         /\ evidence[k] = {p}
         /\ p.attempt = run[k].attempt
         /\ [number |-> p.number, status |-> "completed",
             attempt |-> p.attempt] \in extractions[k]
         /\ embedding[k] = run[k].attempt
  ELSE evidence[k] = {}

RunInv(k) ==
  ClaimsInOrder(k) /\ OneClaim(k) /\ Numbered(k) /\ Progress(k) /\ Whole(k)

IInv == TypeOK /\ \A k \in Keys : RunInv(k)

-----------------------------------------------------------------------------
LEMMA StageValues ==
  /\ ClaimedStage("idle") = "none" /\ ClaimedStage("reset") = "none"
  /\ ClaimedStage("claim") = "none"
  /\ ClaimedStage("claim_extraction") = "none"
  /\ ClaimedStage("claim_resolution") = "none"
  /\ ClaimedStage("embed") = "embedding"
  /\ ClaimedStage("store_embedding") = "embedding"
  /\ ClaimedStage("fail_embedding") = "embedding"
  /\ ClaimedStage("extract") = "extracting"
  /\ ClaimedStage("store_extraction") = "extracting"
  /\ ClaimedStage("fail_extraction") = "extracting"
  /\ ClaimedStage("publish") = "resolving"
  /\ ClaimedStage("fail_resolution") = "resolving"
  BY DEF ClaimedStage, EmbeddingSteps, ExtractionSteps, ResolutionSteps

LEMMA StageRange ==
  ASSUME TypeOK, NEW w \in Workers
  PROVE  StageOf(w) \in {"none", "embedding", "extracting", "resolving"}
  BY StageValues DEF TypeOK, WorkerState, PCs, EmbeddingSteps, ExtractionSteps,
                     ResolutionSteps, StageOf

(* The highest number is what CHOOSE finds.                                *)
LEMMA NextNumberAbove ==
  ASSUME TypeOK, NEW k \in Keys, RunInv(k)
  PROVE  /\ NextNumber(k) \in Nat
         /\ \A n \in Numbers(k) : n < NextNumber(k)
  <1>1. \A n \in Numbers(k) : n \in Nat
    BY DEF TypeOK, Numbers, Extraction
  <1>2. CASE extractions[k] = {}
    BY <1>2 DEF NextNumber, Numbers
  <1>3. CASE extractions[k] # {}
    <2>1. \E n \in Numbers(k) : \A m \in Numbers(k) : m <= n
      BY <1>3 DEF RunInv, Numbered
    <2> DEFINE top == CHOOSE n \in Numbers(k) : \A m \in Numbers(k) : m <= n
    <2>2. top \in Numbers(k) /\ \A m \in Numbers(k) : m <= top
      BY <2>1
    <2>3. NextNumber(k) = top + 1
      BY <1>3 DEF NextNumber
    <2> HIDE DEF top
    <2> QED  BY <1>1, <2>2, <2>3
  <1> QED  BY <1>2, <1>3

(* Numbers being distinct, the latest completed extraction is determined.  *)
LEMMA LatestIsLatest ==
  ASSUME TypeOK, NEW k \in Keys, RunInv(k), Completed(k) # {}
  PROVE  /\ IsLatest(k, Latest(k))
         /\ \A e \in Completed(k) : IsLatest(k, e) => e = Latest(k)
  <1>1. \E e \in Completed(k) : \A f \in Completed(k) : f.number <= e.number
    BY DEF RunInv, Numbered, IsLatest
  <1>2. /\ Latest(k) \in Completed(k)
        /\ \A f \in Completed(k) : f.number <= Latest(k).number
    BY <1>1 DEF Latest
  <1>3. \A e \in Completed(k) : e \in extractions[k] /\ e.number \in Nat
    BY DEF TypeOK, Completed, Extraction
  <1>4. \A e, f \in extractions[k] : e.number = f.number => e = f
    BY DEF RunInv, Numbered
  <1> QED  BY <1>2, <1>3, <1>4 DEF IsLatest

(* A run whose rows stay is only disturbed by a new claim.                 *)
LEMMA Unaffected ==
  ASSUME NEW k \in Keys, RunInv(k),
         run'[k] = run[k], embedding'[k] = embedding[k],
         extractions'[k] = extractions[k], evidence'[k] = evidence[k],
         \A v \in Workers : Claims(v, k)' =>
           /\ Claims(v, k)
           /\ StageOf(v)' = StageOf(v)
           /\ worker'[v].attempt = worker[v].attempt
           /\ worker'[v].number = worker[v].number
  PROVE  RunInv(k)'
  <1>1. \A v \in Workers : ClaimsNow(v, k)' => ClaimsNow(v, k)
    BY DEF ClaimsNow, Claims, StageOf
  <1>2. Numbers(k)' = Numbers(k) /\ Completed(k)' = Completed(k)
    BY DEF Numbers, Completed
  <1>3. ClaimsInOrder(k)'
    BY <1>1 DEF RunInv, ClaimsInOrder, ClaimsNow, Claims, StageOf
  <1>4. OneClaim(k)'
    BY <1>1 DEF RunInv, OneClaim, ClaimsNow, Claims, StageOf
  <1>5. Numbered(k)'
    BY <1>1, <1>2 DEF RunInv, Numbered, IsLatest, ClaimsNow, Claims, StageOf
  <1>6. Progress(k)'
    BY <1>1, <1>2 DEF RunInv, Progress, IsLatest, ClaimsNow, Claims, StageOf
  <1>7. Whole(k)'
    BY DEF RunInv, Whole
  <1> QED  BY <1>3, <1>4, <1>5, <1>6, <1>7 DEF RunInv

-----------------------------------------------------------------------------
(* Types.                                                                  *)

LEMMA BusyWorker ==
  ASSUME TypeOK, NEW w \in Workers, worker[w].pc # "idle"
  PROVE  /\ worker[w] \in WorkerState
         /\ worker[w].key \in Keys
         /\ run[worker[w].key] \in RunRow
         /\ run[worker[w].key].status # "none"
  BY DEF TypeOK, WorkerState, KeyFits

LEMMA GoType ==
  ASSUME TypeOK, NEW w \in Workers, worker[w].pc # "idle",
         NEW pc \in PCs \ {"idle"}, Go(w, pc)
  PROVE  /\ worker' \in [Workers -> WorkerState]
         /\ \A v \in Workers \ {w} : worker'[v] = worker[v]
         /\ worker'[w].key = worker[w].key /\ worker'[w].pc = pc
         /\ worker'[w].pc # "idle"
  BY DEF TypeOK, WorkerState, Go

LEMMA LeaveType ==
  ASSUME TypeOK, NEW w \in Workers, Leave(w)
  PROVE  /\ worker' \in [Workers -> WorkerState]
         /\ \A v \in Workers \ {w} : worker'[v] = worker[v]
         /\ worker'[w] = IdleWorker
  BY DEF TypeOK, WorkerState, Leave, IdleWorker, PCs

(* No run, no extraction and idle workers have the types.                  *)
THEOREM InitType == Init => TypeOK
  BY DEF Init, TypeOK, NoRun, RunRow, Statuses, Stages, WorkerState, IdleWorker,
         PCs, StageFits, KeyFits

LEMMA AcceptType ==
  ASSUME TypeOK, NEW w \in Workers, NEW k \in Keys, NEW i \in Inputs,
         NEW entry \in Entries, Accept(w, k, i, entry)
  PROVE  TypeOK'
  <1>1. ASSUME NEW status, Enter(w, k, entry, status)
        PROVE  /\ worker' \in [Workers -> WorkerState]
               /\ \A v \in Workers \ {w} : worker'[v] = worker[v]
               /\ \/ worker'[w] = IdleWorker
                  \/ worker'[w].key = k /\ worker'[w].pc # "idle"
    BY <1>1 DEF TypeOK, Enter, AfterAccept, WorkerState, IdleWorker, PCs
  <1>2. overlaps' \in Nat /\ mishaps' \in Nat
    BY DEF Accept, TypeOK
  <1>3. CASE AcceptNew(w, k, i, entry)
    <2>1. run' \in [Keys -> RunRow] /\ run'[k].status = "pending"
      BY <1>3 DEF AcceptNew, TypeOK, RunRow, Statuses, Stages
    <2>2. \A j \in Keys : StageFits(run'[j])
      BY <1>3 DEF AcceptNew, TypeOK, StageFits
    <2>3. \A j \in Keys : run[j].status # "none" => run'[j].status # "none"
      BY <1>3 DEF AcceptNew, TypeOK
    <2>4. Enter(w, k, entry, "pending") /\ nextSequence' \in Nat
      BY <1>3 DEF AcceptNew, TypeOK
    <2>5. \A v \in Workers : KeyFits(worker[v])'
      BY <1>1, <2>1, <2>3, <2>4 DEF TypeOK, KeyFits, IdleWorker
    <2> QED  BY <1>1, <1>2, <2>1, <2>2, <2>4, <2>5 DEF Accept, TypeOK
  <1>4. CASE AcceptKnown(w, k, i, entry)
    <2>1. /\ Enter(w, k, entry, run[k].status)
          /\ run' = run /\ nextSequence' = nextSequence
          /\ run[k].status # "none"
      BY <1>4 DEF AcceptKnown
    <2>2. \A v \in Workers : KeyFits(worker[v])'
      BY <1>1, <2>1 DEF TypeOK, KeyFits, IdleWorker
    <2> QED  BY <1>1, <1>2, <2>1, <2>2 DEF Accept, TypeOK
  <1> QED  BY <1>3, <1>4 DEF Accept

(* A worker that goes on with its key, or leaves, keeps the types when the *)
(* rows of its key do.                                                     *)
LEMMA WorkType ==
  ASSUME TypeOK, NEW w \in Workers, worker[w].pc # "idle",
         worker' \in [Workers -> WorkerState],
         \A v \in Workers \ {w} : worker'[v] = worker[v],
         worker'[w] = IdleWorker \/ worker'[w].key = worker[w].key,
         worker'[w].pc = "idle" => worker'[w] = IdleWorker,
         run' \in [Keys -> RunRow],
         \A k \in Keys \ {worker[w].key} : run'[k] = run[k],
         run'[worker[w].key].status # "none",
         StageFits(run'[worker[w].key]),
         nextSequence' \in Nat, overlaps' \in Nat, mishaps' \in Nat,
         embedding' \in [Keys -> Nat],
         extractions' \in [Keys -> SUBSET Extraction],
         evidence' \in [Keys -> SUBSET Publication]
  PROVE  TypeOK'
  <1>1. \A k \in Keys : run[k].status # "none" => run'[k].status # "none"
    OBVIOUS
  <1>2. \A k \in Keys : StageFits(run'[k])
    BY DEF TypeOK
  <1>3. \A v \in Workers : KeyFits(worker[v])'
    BY <1>1, BusyWorker DEF TypeOK, KeyFits, IdleWorker
  <1> QED  BY <1>2, <1>3 DEF TypeOK

(* A running row may move on from stage to stage.                          *)
LEMMA MoveType ==
  ASSUME TypeOK, NEW k \in Keys, run[k].status = "running",
         NEW stage \in Stages \ {"none", "accepted", "completed"},
         run' = [run EXCEPT ![k].stage = stage]
  PROVE  /\ run' \in [Keys -> RunRow]
         /\ \A j \in Keys \ {k} : run'[j] = run[j]
         /\ run'[k].status # "none" /\ StageFits(run'[k])
  <1>1. run[k] \in RunRow
    BY DEF TypeOK
  <1>2. run'[k] = [run[k] EXCEPT !.stage = stage]
    BY DEF TypeOK
  <1>3. run'[k] \in RunRow /\ run'[k].status = "running" /\ run'[k].stage = stage
    BY <1>1, <1>2 DEF RunRow
  <1>4. StageFits(run'[k])
    BY <1>3 DEF StageFits
  <1>5. run' \in [Keys -> RunRow] /\ \A j \in Keys \ {k} : run'[j] = run[j]
    BY <1>3 DEF TypeOK
  <1> QED  BY <1>3, <1>4, <1>5

(* Every step of a worker keeps the types.                                 *)
LEMMA StepType ==
  ASSUME TypeOK, \A k \in Keys : RunInv(k), NEW w \in Workers, Step(w)
  PROVE  TypeOK'
  <1> DEFINE k == worker[w].key
  <1> USE DEF store
  <1>1. worker[w].pc # "idle"
    BY DEF Step, Reset, Claim, Embed, StoreEmbedding, ClaimExtraction, Extract,
           StoreExtraction, ClaimResolution, Publish, MarkFailed, RecordFailure,
           At
  <1>2. /\ worker[w] \in WorkerState /\ k \in Keys /\ run[k] \in RunRow
        /\ run[k].status # "none" /\ StageFits(run[k])
    BY <1>1, BusyWorker DEF TypeOK
  <1>3. RunInv(k)
    BY <1>2
  <1>4. CASE Reset(w)
    <2>1. Go(w, "claim") \/ Leave(w)
      BY <1>4 DEF Reset
    <2>2. /\ worker' \in [Workers -> WorkerState]
          /\ \A v \in Workers \ {w} : worker'[v] = worker[v]
          /\ worker'[w] = IdleWorker \/ worker'[w].key = k
          /\ worker'[w].pc = "idle" => worker'[w] = IdleWorker
      BY <1>1, <2>1, GoType, LeaveType DEF PCs
    <2>3. /\ run' \in [Keys -> RunRow]
          /\ \A j \in Keys \ {k} : run'[j] = run[j]
          /\ run'[k].status # "none" /\ StageFits(run'[k])
      <3>1. CASE run[k].status \in Resettable
        <4>1. run' = [run EXCEPT ![k] = Restarted(run[k])]
          BY <1>4, <3>1 DEF Reset
        <4>2. /\ Restarted(run[k]) \in RunRow
              /\ Restarted(run[k]).status = "pending"
              /\ Restarted(run[k]).stage = "accepted"
          BY <1>2 DEF Restarted, RunRow, Statuses, Stages
        <4> QED  BY <1>2, <4>1, <4>2 DEF TypeOK, StageFits
      <3>2. CASE run[k].status \notin Resettable
        BY <1>2, <1>4, <3>2 DEF Reset, TypeOK
      <3> QED  BY <3>1, <3>2
    <2> QED  BY <1>1, <1>4, <2>2, <2>3, WorkType DEF Reset, TypeOK
  <1>5. CASE Claim(w)
    <2>1. /\ worker' \in [Workers -> WorkerState]
          /\ \A v \in Workers \ {w} : worker'[v] = worker[v]
          /\ worker'[w] = IdleWorker \/ worker'[w].key = k
          /\ worker'[w].pc = "idle" => worker'[w] = IdleWorker
      BY <1>2, <1>5, LeaveType DEF Claim, NextAttempt, WorkerState, PCs, TypeOK,
                        EmbeddingSteps, RunRow
    <2>2. /\ run' \in [Keys -> RunRow]
          /\ \A j \in Keys \ {k} : run'[j] = run[j]
          /\ run'[k].status # "none" /\ StageFits(run'[k])
      BY <1>2, <1>5 DEF Claim, NextAttempt, TypeOK, RunRow, Statuses, Stages,
                        StageFits
    <2> QED  BY <1>1, <1>5, <2>1, <2>2, WorkType DEF Claim, TypeOK
  <1>6. CASE Embed(w) \/ Extract(w)
    <2>1. Go(w, "store_embedding") \/ Go(w, "store_extraction")
      BY <1>6 DEF Embed, Extract
    <2>2. /\ worker' \in [Workers -> WorkerState]
          /\ \A v \in Workers \ {w} : worker'[v] = worker[v]
          /\ worker'[w].key = k /\ worker'[w].pc # "idle"
      BY <1>1, <2>1, GoType DEF PCs, EmbeddingSteps, ExtractionSteps
    <2> QED  BY <1>1, <1>2, <1>6, <2>2, WorkType DEF Embed, Extract, TypeOK
  <1>7. CASE StoreEmbedding(w)
    <2>1. Go(w, "claim_extraction") \/ Go(w, "fail_embedding")
      BY <1>7 DEF StoreEmbedding
    <2>2. /\ worker' \in [Workers -> WorkerState]
          /\ \A v \in Workers \ {w} : worker'[v] = worker[v]
          /\ worker'[w].key = k /\ worker'[w].pc # "idle"
      BY <1>1, <2>1, GoType DEF PCs, EmbeddingSteps
    <2>3. /\ run' \in [Keys -> RunRow]
          /\ \A j \in Keys \ {k} : run'[j] = run[j]
          /\ run'[k].status # "none" /\ StageFits(run'[k])
      BY <1>2, <1>7, MoveType DEF StoreEmbedding, Current, Stages, TypeOK
    <2>4. embedding' \in [Keys -> Nat]
      BY <1>2, <1>7 DEF StoreEmbedding, TypeOK, WorkerState
    <2> QED  BY <1>1, <1>7, <2>2, <2>3, <2>4, WorkType DEF StoreEmbedding, TypeOK
  <1>8. CASE ClaimExtraction(w)
    <2>1. NextNumber(k) \in Nat
      BY <1>2, <1>3, NextNumberAbove
    <2>2. /\ worker' \in [Workers -> WorkerState]
          /\ \A v \in Workers \ {w} : worker'[v] = worker[v]
          /\ worker'[w] = IdleWorker \/ worker'[w].key = k
          /\ worker'[w].pc = "idle" => worker'[w] = IdleWorker
      <3>1. CASE worker' = [worker EXCEPT ![w].pc = "extract",
                                          ![w].attempt = run[k].attempt,
                                          ![w].number = NextNumber(k)]
        BY <1>2, <2>1, <3>1 DEF WorkerState, PCs, TypeOK, ExtractionSteps, RunRow
      <3>2. CASE Leave(w)
        BY <3>2, LeaveType
      <3> QED  BY <1>8, <3>1, <3>2 DEF ClaimExtraction
    <2>3. /\ run' \in [Keys -> RunRow]
          /\ \A j \in Keys \ {k} : run'[j] = run[j]
          /\ run'[k].status # "none" /\ StageFits(run'[k])
      BY <1>2, <1>8, MoveType DEF ClaimExtraction, Stages, TypeOK
    <2> QED  BY <1>1, <1>8, <2>2, <2>3, WorkType DEF ClaimExtraction, TypeOK
  <1>9. CASE StoreExtraction(w)
    <2>1. /\ \A v \in Workers \ {w} : worker'[v] = worker[v]
          /\ worker'[w].key = k /\ worker'[w].pc # "idle"
          /\ worker' \in [Workers -> WorkerState]
      BY <1>2, <1>9 DEF StoreExtraction, WorkerState, PCs, TypeOK, Go,
                        ExtractionSteps
    <2>2. /\ run' \in [Keys -> RunRow]
          /\ \A j \in Keys \ {k} : run'[j] = run[j]
          /\ run'[k].status # "none" /\ StageFits(run'[k])
      BY <1>2, <1>9, MoveType DEF StoreExtraction, Recorded, Current, Stages,
                                  TypeOK
    <2>3. extractions' \in [Keys -> SUBSET Extraction]
      BY <1>2, <1>9 DEF StoreExtraction, Recorded, TypeOK, WorkerState, Extraction
    <2> QED  BY <1>1, <1>9, <2>1, <2>2, <2>3, WorkType DEF StoreExtraction, TypeOK
  <1>10. CASE ClaimResolution(w)
    <2>1. Completed(k) # {} => Latest(k).number \in Nat
      BY <1>2, <1>3, LatestIsLatest DEF IsLatest, TypeOK, Extraction, Completed
    <2>2. /\ worker' \in [Workers -> WorkerState]
          /\ \A v \in Workers \ {w} : worker'[v] = worker[v]
          /\ worker'[w] = IdleWorker \/ worker'[w].key = k
          /\ worker'[w].pc = "idle" => worker'[w] = IdleWorker
      <3>1. CASE /\ worker' = [worker EXCEPT ![w].pc = "publish",
                                             ![w].attempt = run[k].attempt,
                                             ![w].number = Latest(k).number]
                 /\ Completed(k) # {}
        BY <1>2, <2>1, <3>1 DEF WorkerState, PCs, TypeOK, ResolutionSteps, RunRow
      <3>2. CASE Leave(w)
        BY <3>2, LeaveType
      <3> QED  BY <1>10, <3>1, <3>2 DEF ClaimResolution
    <2>3. /\ run' \in [Keys -> RunRow]
          /\ \A j \in Keys \ {k} : run'[j] = run[j]
          /\ run'[k].status # "none" /\ StageFits(run'[k])
      BY <1>2, <1>10, MoveType DEF ClaimResolution, Stages, TypeOK
    <2> QED  BY <1>1, <1>10, <2>2, <2>3, WorkType DEF ClaimResolution, TypeOK
  <1>11. CASE Publish(w)
    <2>1. Leave(w) \/ Go(w, "fail_resolution")
      BY <1>11 DEF Publish
    <2>2. /\ worker' \in [Workers -> WorkerState]
          /\ \A v \in Workers \ {w} : worker'[v] = worker[v]
          /\ worker'[w] = IdleWorker \/ worker'[w].key = k
          /\ worker'[w].pc = "idle" => worker'[w] = IdleWorker
      BY <1>1, <2>1, GoType, LeaveType DEF PCs, ResolutionSteps
    <2>3. /\ run' \in [Keys -> RunRow]
          /\ \A j \in Keys \ {k} : run'[j] = run[j]
          /\ run'[k].status # "none" /\ StageFits(run'[k])
      BY <1>2, <1>11 DEF Publish, Current, TypeOK, RunRow, Statuses, Stages,
                        StageFits
    <2>4. evidence' \in [Keys -> SUBSET Publication]
      BY <1>2, <1>11 DEF Publish, TypeOK, WorkerState, Publication
    <2> QED  BY <1>1, <1>11, <2>2, <2>3, <2>4, WorkType DEF Publish, TypeOK
  <1>12. CASE MarkFailed(w) \/ RecordFailure(w)
    <2>1. /\ worker' \in [Workers -> WorkerState]
          /\ \A v \in Workers \ {w} : worker'[v] = worker[v]
          /\ worker'[w] = IdleWorker
      BY <1>12, LeaveType DEF MarkFailed, RecordFailure
    <2>2. /\ run' \in [Keys -> RunRow]
          /\ \A j \in Keys \ {k} : run'[j] = run[j]
          /\ run'[k].status # "none" /\ StageFits(run'[k])
      <3>1. \/ run' = run
            \/ run' = [run EXCEPT ![k].status = "failed"] /\ Current(w)
        BY <1>12 DEF MarkFailed, RecordFailure, Recorded
      <3>2. Current(w) => /\ run[k].stage \notin {"none", "accepted", "completed"}
                          /\ run[k].status = "running"
        BY <1>2 DEF Current, StageFits
      <3> QED  BY <1>2, <3>1, <3>2 DEF TypeOK, RunRow, Statuses, StageFits
    <2>3. extractions' \in [Keys -> SUBSET Extraction]
      BY <1>2, <1>12 DEF MarkFailed, RecordFailure, Recorded, TypeOK, WorkerState,
                        Extraction
    <2> QED  BY <1>1, <1>12, <2>1, <2>2, <2>3, WorkType
             DEF MarkFailed, RecordFailure, TypeOK
  <1> QED  BY <1>4, <1>5, <1>6, <1>7, <1>8, <1>9, <1>10, <1>11, <1>12 DEF Step

LEMMA MishapType ==
  ASSUME TypeOK, NEW w \in Workers, StageFails(w) \/ Abort(w)
  PROVE  TypeOK'
  <1> DEFINE k == worker[w].key
  <1>1. worker[w].pc # "idle"
    BY DEF StageFails, Abort, At
  <1>2. k \in Keys /\ run[k].status # "none" /\ StageFits(run[k])
    BY <1>1, BusyWorker DEF TypeOK
  <1>3. /\ worker' \in [Workers -> WorkerState]
        /\ \A v \in Workers \ {w} : worker'[v] = worker[v]
        /\ worker'[w] = IdleWorker \/ worker'[w].key = k
        /\ worker'[w].pc = "idle" => worker'[w] = IdleWorker
    <2>1. FailurePath(worker[w].pc) \in PCs \ {"idle"}
      BY DEF FailurePath, PCs, EmbeddingSteps, ExtractionSteps, ResolutionSteps
    <2>2. Go(w, FailurePath(worker[w].pc)) \/ Leave(w)
      BY DEF StageFails, Abort
    <2> QED  BY <1>1, <2>1, <2>2, GoType, LeaveType
  <1>4. mishaps' \in Nat /\ UNCHANGED <<store, overlaps>>
    BY DEF StageFails, Abort, Mishap, TypeOK
  <1> QED  BY <1>1, <1>2, <1>3, <1>4, WorkType DEF store, TypeOK

-----------------------------------------------------------------------------
(* Every action keeps the invariant.  A worker touches one key, so the     *)
(* other keys are a matter of Unaffected.                                  *)

LEMMA OtherKeys ==
  ASSUME TypeOK, NEW w \in Workers, NEW j \in Keys, RunInv(j),
         worker[w].key # j,
         worker'[w] = IdleWorker \/ worker'[w].key # j,
         \A v \in Workers \ {w} : worker'[v] = worker[v],
         run'[j] = run[j], embedding'[j] = embedding[j],
         extractions'[j] = extractions[j], evidence'[j] = evidence[j]
  PROVE  RunInv(j)'
  <1>1. ASSUME NEW v \in Workers, Claims(v, j)'
        PROVE  /\ Claims(v, j)
               /\ StageOf(v)' = StageOf(v)
               /\ worker'[v].attempt = worker[v].attempt
               /\ worker'[v].number = worker[v].number
    <2>1. v # w
      BY <1>1, StageValues DEF Claims, StageOf, IdleWorker
    <2> QED  BY <1>1, <2>1 DEF Claims, StageOf
  <1> QED  BY <1>1, Unaffected

(* A worker that claims no stage, or goes on in the one it claimed.        *)
LEMMA SameClaims ==
  ASSUME NEW w \in Workers, NEW k \in Keys, RunInv(k),
         \A v \in Workers \ {w} : worker'[v] = worker[v],
         \/ StageOf(w)' = "none"
         \/ /\ worker'[w].key = worker[w].key
            /\ StageOf(w)' = StageOf(w)
            /\ worker'[w].attempt = worker[w].attempt
            /\ worker'[w].number = worker[w].number,
         run'[k] = run[k], embedding'[k] = embedding[k],
         extractions'[k] = extractions[k], evidence'[k] = evidence[k]
  PROVE  RunInv(k)'
  <1>1. \A v \in Workers : Claims(v, k)' =>
          /\ Claims(v, k)
          /\ StageOf(v)' = StageOf(v)
          /\ worker'[v].attempt = worker[v].attempt
          /\ worker'[v].number = worker[v].number
    BY DEF Claims, StageOf
  <1> QED  BY <1>1, Unaffected

(* A run that is not running any more, or not yet, whose claims are not    *)
(* ahead of it: what OneClaim, ClaimsInOrder and Progress say of a running *)
(* run does not apply.                                                     *)
LEMMA NotRunning ==
  ASSUME NEW w \in Workers, NEW k \in Keys, RunInv(k),
         \A v \in Workers \ {w} : worker'[v] = worker[v],
         StageOf(w)' = "none",
         \A v \in Workers : Claims(v, k) => worker[v].attempt <= run'[k].attempt,
         run'[k].status # "running",
         Numbered(k)', Whole(k)'
  PROVE  RunInv(k)'
  <1>1. \A v \in Workers : Claims(v, k)' =>
          Claims(v, k) /\ worker'[v].attempt = worker[v].attempt
    BY DEF Claims, StageOf
  <1>2. ClaimsInOrder(k)'
    BY <1>1 DEF RunInv, ClaimsInOrder
  <1> QED  BY <1>2 DEF RunInv, OneClaim, Progress

LEMMA AcceptInv ==
  ASSUME IInv, NEW w \in Workers, NEW k \in Keys, NEW i \in Inputs,
         NEW entry \in Entries, Accept(w, k, i, entry)
  PROVE  \A j \in Keys : RunInv(j)'
  <1>1. \A v \in Workers \ {w} : worker'[v] = worker[v]
    BY DEF Accept, AcceptNew, AcceptKnown, Enter, IInv, TypeOK
  <1>2. StageOf(w)' = "none" /\ worker[w].key \notin Keys
    <2>1. ASSUME NEW status, Enter(w, k, entry, status)
          PROVE  worker'[w].pc \in {"idle", "claim", "reset"}
      BY <2>1 DEF Enter, AfterAccept, IdleWorker, IInv, TypeOK
    <2>2. worker'[w].pc \in {"idle", "claim", "reset"}
      BY <2>1 DEF Accept, AcceptNew, AcceptKnown
    <2>3. worker[w].key = NoKey
      BY DEF Accept, At, IInv, TypeOK, KeyFits, IdleWorker
    <2> QED  BY <2>2, <2>3, StageValues, NoKeyIsNoKey DEF StageOf
  <1>3. UNCHANGED <<embedding, extractions, evidence>>
    BY DEF Accept
  <1>4. ASSUME NEW j \in Keys, run'[j] = run[j]
        PROVE  RunInv(j)'
    BY <1>1, <1>2, <1>3, <1>4, SameClaims DEF IInv
  <1>5. CASE AcceptNew(w, k, i, entry)
    <2>1. /\ \A j \in Keys \ {k} : run'[j] = run[j]
          /\ run'[k].status = "pending" /\ run'[k].attempt = 0
          /\ run[k].status = "none"
      BY <1>5 DEF AcceptNew, IInv, TypeOK
    <2>2. \A v \in Workers : ~Claims(v, k)
      BY <2>1, StageValues DEF Claims, StageOf, IInv, TypeOK, KeyFits
    <2>3. Numbers(k)' = Numbers(k) /\ Completed(k)' = Completed(k)
      BY <1>3 DEF Numbers, Completed
    <2>4. Numbered(k)'
      BY <1>3, <2>1, <2>3 DEF IInv, RunInv, Numbered, IsLatest
    <2>5. Whole(k)'
      BY <1>3, <2>1 DEF IInv, RunInv, Whole
    <2>6. RunInv(k)'
      BY <1>1, <1>2, <2>1, <2>2, <2>4, <2>5, NotRunning DEF IInv
    <2> QED  BY <1>4, <2>1, <2>6
  <1>6. CASE AcceptKnown(w, k, i, entry)
    BY <1>4, <1>6 DEF AcceptKnown
  <1> QED  BY <1>5, <1>6 DEF Accept

(* What holds of every step a worker under way takes, whatever it does to  *)
(* the run of its own key.                                                 *)
LEMMA StepFrame ==
  ASSUME IInv, NEW w \in Workers, Step(w) \/ StageFails(w) \/ Abort(w)
  PROVE  /\ worker[w].pc # "idle"
         /\ worker[w].key \in Keys
         /\ worker[w] \in WorkerState
         /\ \A v \in Workers \ {w} : worker'[v] = worker[v]
         /\ worker'[w] = IdleWorker \/ worker'[w].key = worker[w].key
         /\ \A j \in Keys \ {worker[w].key} : RunInv(j)'
  <1> DEFINE k == worker[w].key
  <1> USE DEF store
  <1>1. worker[w].pc # "idle"
    BY DEF Step, Reset, Claim, Embed, StoreEmbedding, ClaimExtraction, Extract,
           StoreExtraction, ClaimResolution, Publish, MarkFailed, RecordFailure,
           StageFails, Abort, At
  <1>2. k \in Keys /\ worker[w] \in WorkerState
    BY <1>1, BusyWorker DEF IInv
  <1>3. /\ \A v \in Workers \ {w} : worker'[v] = worker[v]
        /\ worker'[w] = IdleWorker \/ worker'[w].key = k
    <2>0. worker \in [Workers -> WorkerState]
      BY DEF IInv, TypeOK
    <2>1. /\ Leave(w) => worker' = [worker EXCEPT ![w] = IdleWorker]
          /\ \A pc : Go(w, pc) => worker' = [worker EXCEPT ![w].pc = pc]
      BY DEF Go, Leave
    <2>2. CASE Claim(w) \/ ClaimExtraction(w) \/ ClaimResolution(w)
      BY <2>0, <2>1, <2>2 DEF Claim, ClaimExtraction, ClaimResolution, WorkerState
    <2>3. CASE StoreExtraction(w)
      BY <2>0, <2>1, <2>3 DEF StoreExtraction, WorkerState
    <2>4. CASE Reset(w) \/ Embed(w) \/ StoreEmbedding(w) \/ Extract(w)
      BY <2>0, <2>1, <2>4 DEF Reset, Embed, StoreEmbedding, Extract, WorkerState
    <2>5. CASE Publish(w) \/ MarkFailed(w) \/ RecordFailure(w) \/ Abort(w)
      BY <2>0, <2>1, <2>5 DEF Publish, MarkFailed, RecordFailure, Abort, WorkerState
    <2>6. CASE StageFails(w)
      BY <2>0, <2>1, <2>6 DEF StageFails, WorkerState
    <2> QED  BY <2>2, <2>3, <2>4, <2>5, <2>6 DEF Step
  <1>4. ASSUME NEW j \in Keys \ {k}
        PROVE  /\ run'[j] = run[j] /\ embedding'[j] = embedding[j]
               /\ extractions'[j] = extractions[j] /\ evidence'[j] = evidence[j]
    BY <1>2 DEF Step, Reset, Claim, Embed, StoreEmbedding, ClaimExtraction, Extract,
           StoreExtraction, ClaimResolution, Publish, MarkFailed, RecordFailure,
           Recorded, StageFails, Abort, IInv, TypeOK
  <1>5. ASSUME NEW j \in Keys \ {k}
        PROVE  RunInv(j)'
    BY <1>2, <1>3, <1>4, OtherKeys DEF IInv, IdleWorker
  <1> QED  BY <1>1, <1>2, <1>3, <1>5

(* Steps that leave the rows as they are.                                  *)
LEMMA IdleStepInv ==
  ASSUME IInv, NEW w \in Workers, NEW k, worker[w].key = k, UNCHANGED store,
         Step(w) \/ StageFails(w) \/ Abort(w),
         Leave(w) \/ \E pc \in PCs : Go(w, pc) /\ ClaimedStage(pc) = StageOf(w)
  PROVE  RunInv(k)'
  <1>1. StageOf(w)' = "none"
        \/ /\ worker'[w].key = worker[w].key
           /\ StageOf(w)' = StageOf(w)
           /\ worker'[w].attempt = worker[w].attempt
           /\ worker'[w].number = worker[w].number
    BY StageValues, StepFrame DEF Leave, Go, StageOf, IdleWorker, IInv, TypeOK,
                                  WorkerState
  <1> QED  BY <1>1, StepFrame, SameClaims DEF store, IInv

LEMMA ResetInv ==
  ASSUME IInv, NEW w \in Workers, NEW k, worker[w].key = k, Reset(w)
  PROVE  RunInv(k)'
  <1>1. Step(w)
    BY DEF Step
  <1>2. StageOf(w)' = "none"
    <2>1. Go(w, "claim") \/ Leave(w)
      BY DEF Reset
    <2>2. worker'[w].pc \in {"idle", "claim"}
      BY <2>1 DEF Go, Leave, IdleWorker, IInv, TypeOK, WorkerState
    <2> QED  BY <2>2, StageValues DEF StageOf
  <1>3. CASE run' = run
    BY <1>1, <1>2, <1>3, StepFrame, SameClaims DEF IInv, Reset
  <1>4. CASE run[k].status \in Resettable /\ run' = [run EXCEPT ![k] = Restarted(run[k])]
    <2>1. /\ run'[k].status = "pending" /\ run'[k].attempt = run[k].attempt
          /\ run[k].status # "completed"
      BY <1>1, <1>4, StepFrame, BusyWorker
      DEF Restarted, Resettable, IInv, TypeOK, RunRow
    <2>2. Numbers(k)' = Numbers(k) /\ Completed(k)' = Completed(k)
      BY DEF Numbers, Completed, Reset
    <2>3. Numbered(k)'
      BY <1>1, <2>1, <2>2, StepFrame DEF IInv, RunInv, Numbered, IsLatest, Reset
    <2>4. Whole(k)'
      BY <1>1, <2>1, StepFrame DEF IInv, RunInv, Whole, Reset
    <2>5. \A v \in Workers : Claims(v, k) => worker[v].attempt <= run'[k].attempt
      BY <1>1, <2>1, StepFrame DEF IInv, RunInv, ClaimsInOrder
    <2> QED  BY <1>1, <1>2, <2>1, <2>3, <2>4, <2>5, StepFrame, NotRunning DEF IInv
  <1> QED  BY <1>3, <1>4 DEF Reset

(* The new attempt is above every claim, so nobody but w has a part in it. *)
LEMMA ClaimInv ==
  ASSUME IInv, NEW w \in Workers, NEW k, worker[w].key = k, Claim(w)
  PROVE  RunInv(k)'
  <1>1. Step(w)
    BY DEF Step
  <1>2. CASE Leave(w) /\ UNCHANGED run
    BY <1>1, <1>2, IdleStepInv DEF Claim, store
  <1>3. CASE run[k].status = "pending"
    <2> DEFINE n == run[k].attempt + 1
    <2>1. /\ run'[k].status = "running" /\ run'[k].stage = "embedding"
          /\ run'[k].attempt = n /\ run[k].attempt \in Nat
          /\ worker'[w].pc = "embed" /\ worker'[w].attempt = n
      BY <1>1, <1>3, StepFrame, BusyWorker
      DEF Claim, NextAttempt, IInv, TypeOK, RunRow, WorkerState
    <2>2. ASSUME NEW v \in Workers, Claims(v, k)'
          PROVE  /\ worker'[v].attempt <= run'[k].attempt
                 /\ ClaimsNow(v, k)' => v = w
      <3>1. CASE v = w
        BY <2>1, <3>1
      <3>2. CASE v # w
        <4>1. Claims(v, k) /\ worker'[v] = worker[v]
          BY <1>1, <2>2, <3>2, StepFrame DEF Claims, StageOf
        <4>2. worker[v].attempt <= run[k].attempt /\ worker[v].attempt \in Nat
          BY <1>1, <4>1, StepFrame DEF IInv, RunInv, ClaimsInOrder, TypeOK, WorkerState
        <4> QED  BY <2>1, <4>1, <4>2 DEF ClaimsNow, Claims, StageOf
      <3> QED  BY <3>1, <3>2
    <2>3. StageOf(w)' = "embedding"
      BY <2>1, StageValues DEF StageOf
    <2>4. ClaimsInOrder(k)'
      BY <2>1, <2>2, <2>3 DEF ClaimsInOrder, ClaimsNow, Claims, StageOf
    <2>5. OneClaim(k)'
      BY <2>2 DEF OneClaim, ClaimsNow, Claims, StageOf
    <2>6. Numbers(k)' = Numbers(k) /\ Completed(k)' = Completed(k)
      BY DEF Numbers, Completed, Claim
    <2>7. Numbered(k)'
      BY <1>1, <2>1, <2>6, StepFrame DEF IInv, RunInv, Numbered, IsLatest, Claim
    <2>8. Progress(k)'
      BY <2>1 DEF Progress
    <2>9. Whole(k)'
      BY <1>1, <1>3, <2>1, StepFrame DEF IInv, RunInv, Whole, Claim
    <2> QED  BY <2>4, <2>5, <2>7, <2>8, <2>9 DEF RunInv
  <1> QED  BY <1>2, <1>3 DEF Claim

(* The vector is stored by a worker whose attempt is the row's.            *)
LEMMA StoreEmbeddingInv ==
  ASSUME IInv, NEW w \in Workers, NEW k, worker[w].key = k, StoreEmbedding(w)
  PROVE  RunInv(k)'
  <1>1. Step(w) /\ StageOf(w) = "embedding"
    BY StageValues DEF Step, StoreEmbedding, At, StageOf
  <1>2. CASE ~Current(w)
    <2>1. Go(w, "fail_embedding") /\ UNCHANGED store
      BY <1>2 DEF StoreEmbedding, store
    <2> QED  BY <1>1, <2>1, StageValues, IdleStepInv DEF PCs, EmbeddingSteps
  <1>3. CASE Current(w)
    <2>1. /\ run[k].status = "running" /\ run[k].stage = "embedding"
          /\ run[k].attempt = worker[w].attempt
      BY <1>1, <1>3 DEF Current, StageOf
    <2>2. /\ run'[k].status = "running" /\ run'[k].stage = "extraction"
          /\ run'[k].attempt = run[k].attempt
          /\ embedding'[k] = run[k].attempt
          /\ worker'[w].pc = "claim_extraction"
      BY <1>1, <1>3, <2>1, StepFrame, BusyWorker
      DEF StoreEmbedding, Go, IInv, TypeOK, RunRow, WorkerState
    <2>3. ASSUME NEW v \in Workers, Claims(v, k)'
          PROVE  v # w /\ worker'[v] = worker[v] /\ Claims(v, k)
      BY <1>1, <2>2, <2>3, StepFrame, StageValues DEF Claims, StageOf
    <2>4. ClaimsInOrder(k)'
      BY <1>1, <2>1, <2>2, <2>3, StepFrame
      DEF IInv, RunInv, ClaimsInOrder, ClaimsNow, Claims, StageOf
    <2>5. OneClaim(k)'
      <3>1. \A v \in Workers : Claims(v, k)' => StageOf(v)' # "extraction"
        BY <2>3, StageRange DEF IInv, StageOf
      <3> QED  BY <2>2, <3>1 DEF OneClaim, ClaimsNow, Claims, StageOf
    <2>6. Numbers(k)' = Numbers(k) /\ Completed(k)' = Completed(k)
      BY DEF Numbers, Completed, StoreEmbedding
    <2>7. Numbered(k)'
      BY <1>1, <2>2, <2>6, StepFrame
      DEF IInv, RunInv, Numbered, IsLatest, StoreEmbedding
    <2>8. Progress(k)'
      BY <2>2 DEF Progress
    <2>9. Whole(k)'
      BY <1>1, <2>1, <2>2, StepFrame DEF IInv, RunInv, Whole, StoreEmbedding
    <2> QED  BY <2>4, <2>5, <2>7, <2>8, <2>9 DEF RunInv
  <1> QED  BY <1>2, <1>3

(* The extraction is claimed with a number above every one recorded.       *)
LEMMA ClaimExtractionInv ==
  ASSUME IInv, NEW w \in Workers, NEW k, worker[w].key = k, ClaimExtraction(w)
  PROVE  RunInv(k)'
  <1>1. Step(w)
    BY DEF Step
  <1>2. CASE Leave(w) /\ UNCHANGED run
    BY <1>1, <1>2, IdleStepInv DEF ClaimExtraction, store
  <1>3. CASE run[k].status = "running" /\ run[k].stage = "extraction"
    <2>1. /\ run'[k].status = "running" /\ run'[k].stage = "extracting"
          /\ run'[k].attempt = run[k].attempt /\ run[k].attempt \in Nat
          /\ worker'[w].pc = "extract" /\ worker'[w].attempt = run[k].attempt
          /\ worker'[w].number = NextNumber(k)
      BY <1>1, <1>3, StepFrame, BusyWorker
      DEF ClaimExtraction, IInv, TypeOK, RunRow, WorkerState
    <2>2. \A n \in Numbers(k) : n < worker'[w].number
      BY <1>1, <2>1, StepFrame, NextNumberAbove DEF IInv
    <2>3. ASSUME NEW v \in Workers, Claims(v, k)', v # w
          PROVE  worker'[v] = worker[v] /\ Claims(v, k)
      BY <1>1, <2>3, StepFrame DEF Claims, StageOf
    <2>4. ASSUME NEW v \in Workers, ClaimsNow(v, k)', v # w
          PROVE  StageOf(v)' = "embedding"
      <3>1. ClaimsNow(v, k) /\ StageOf(v)' = StageOf(v)
        BY <2>1, <2>3, <2>4 DEF ClaimsNow, Claims, StageOf
      <3> QED  BY <1>1, <1>3, <3>1, StepFrame DEF IInv, RunInv, ClaimsInOrder
    <2>5. StageOf(w)' = "extracting"
      BY <2>1, StageValues DEF StageOf
    <2>6. ClaimsInOrder(k)'
      <3>1. \A v \in Workers : Claims(v, k)' => worker'[v].attempt <= run'[k].attempt
        BY <1>1, <2>1, <2>3, StepFrame DEF IInv, RunInv, ClaimsInOrder
      <3>2. \A v \in Workers : ClaimsNow(v, k)' => StageOf(v)' # "resolving"
        BY <2>4, <2>5
      <3> QED  BY <2>1, <3>1, <3>2 DEF ClaimsInOrder, ClaimsNow, Claims, StageOf
    <2>7. OneClaim(k)'
      BY <2>1, <2>4 DEF OneClaim, ClaimsNow, Claims, StageOf
    <2>8. Numbers(k)' = Numbers(k) /\ Completed(k)' = Completed(k)
      BY DEF Numbers, Completed, ClaimExtraction
    <2>9. Numbered(k)'
      <3>1. \A v \in Workers : ClaimsNow(v, k)' /\ StageOf(v)' = "extracting" => v = w
        BY <2>4
      <3>2. /\ \A e, f \in extractions'[k] : e.number = f.number => e = f
            /\ extractions'[k] # {} =>
                 \E n \in Numbers(k)' : \A m \in Numbers(k)' : m <= n
            /\ Completed(k)' # {} => \E e \in Completed(k)' : IsLatest(k, e)'
        BY <1>1, <2>8, StepFrame
        DEF IInv, RunInv, Numbered, IsLatest, ClaimExtraction
      <3> QED  BY <2>2, <2>8, <3>1, <3>2
               DEF Numbered, IsLatest, ClaimsNow, Claims, StageOf
    <2>10. Progress(k)'
      BY <1>1, <1>3, <2>1, StepFrame DEF IInv, RunInv, Progress, ClaimExtraction
    <2>11. Whole(k)'
      BY <1>1, <1>3, <2>1, StepFrame DEF IInv, RunInv, Whole, ClaimExtraction
    <2> QED  BY <2>6, <2>7, <2>9, <2>10, <2>11 DEF RunInv
  <1> QED  BY <1>2, <1>3 DEF ClaimExtraction

(* An extraction is recorded under a number above every one before it, so  *)
(* it is the latest.                                                       *)
LEMMA RecordedLatest ==
  ASSUME IInv, NEW w \in Workers, NEW k \in Keys, worker[w].key = k,
         NEW status, StageOf(w) = "extracting", Recorded(w, status)
  PROVE  LET e == [number |-> worker[w].number, status |-> status,
                   attempt |-> worker[w].attempt]
         IN  /\ extractions'[k] = extractions[k] \cup {e}
             /\ \A f \in extractions[k] : /\ f.number < e.number
                                          /\ f.number \in Nat
             /\ e.number \in Nat
             /\ run[k].status = "running" /\ run[k].stage = "extracting"
             /\ run[k].attempt = worker[w].attempt
  <1>1. /\ run[k].status = "running" /\ run[k].stage = "extracting"
        /\ run[k].attempt = worker[w].attempt
    BY DEF Recorded, Current, StageOf
  <1>2. ClaimsNow(w, k)
    BY <1>1 DEF ClaimsNow, Claims
  <1>3. \A n \in Numbers(k) : n < worker[w].number
    BY <1>1, <1>2 DEF IInv, RunInv, Numbered
  <1>4. \A f \in extractions[k] : f.number \in Nat
    BY DEF IInv, TypeOK, Extraction
  <1>5. worker[w].number \in Nat
    BY DEF IInv, TypeOK, WorkerState
  <1> QED  BY <1>1, <1>3, <1>4, <1>5 DEF Recorded, Numbers, IInv, TypeOK

LEMMA StoreExtractionInv ==
  ASSUME IInv, NEW w \in Workers, NEW k, worker[w].key = k, StoreExtraction(w)
  PROVE  RunInv(k)'
  <1>1. Step(w) /\ StageOf(w) = "extracting"
    BY StageValues DEF Step, StoreExtraction, At, StageOf
  <1>2. CASE Go(w, "fail_extraction") /\ UNCHANGED <<run, extractions>>
    <2>1. UNCHANGED store
      BY <1>2 DEF StoreExtraction, store
    <2> QED  BY <1>1, <1>2, <2>1, StageValues, IdleStepInv DEF PCs, ExtractionSteps
  <1>3. CASE Recorded(w, "completed")
    <2>0. PICK e : e = [number |-> worker[w].number, status |-> "completed",
                        attempt |-> worker[w].attempt]
      OBVIOUS
    <2>1. /\ extractions'[k] = extractions[k] \cup {e}
          /\ \A f \in extractions[k] : f.number < e.number /\ f.number \in Nat
          /\ e.number \in Nat
          /\ run[k].status = "running" /\ run[k].stage = "extracting"
          /\ run[k].attempt = worker[w].attempt
      BY <1>1, <1>3, <2>0, StepFrame, RecordedLatest
    <2>2. /\ run'[k].status = "running" /\ run'[k].stage = "resolution"
          /\ run'[k].attempt = run[k].attempt
          /\ worker'[w].pc = "claim_resolution"
      BY <1>1, <1>3, <2>1, StepFrame, BusyWorker
      DEF StoreExtraction, Recorded, Go, IInv, TypeOK, RunRow, WorkerState
    <2>3. ASSUME NEW v \in Workers, Claims(v, k)'
          PROVE  v # w /\ worker'[v] = worker[v] /\ Claims(v, k)
      BY <1>1, <2>2, <2>3, StepFrame, StageValues DEF Claims, StageOf
    <2>4. ClaimsInOrder(k)'
      BY <1>1, <2>1, <2>2, <2>3, StepFrame
      DEF IInv, RunInv, ClaimsInOrder, ClaimsNow, Claims, StageOf
    <2>5. OneClaim(k)'
      <3>1. \A v \in Workers : Claims(v, k)' => StageOf(v)' # "resolution"
        BY <2>3, StageRange DEF IInv, StageOf
      <3> QED  BY <2>2, <3>1 DEF OneClaim, ClaimsNow, Claims, StageOf
    <2>6. IsLatest(k, e)' /\ e.attempt = run'[k].attempt
      <3>1. e.status = "completed" /\ e.attempt = worker[w].attempt
        BY <2>0
      <3> QED  BY <2>1, <2>2, <3>1 DEF IsLatest, Completed
    <2>7. Numbered(k)'
      <3>1. \A f, g \in extractions'[k] : f.number = g.number => f = g
        BY <1>1, <2>1, StepFrame DEF IInv, RunInv, Numbered
      <3>2. e.number \in Numbers(k)' /\ \A m \in Numbers(k)' : m <= e.number
        BY <2>1 DEF Numbers
      <3>3. e \in Completed(k)'
        BY <2>6 DEF IsLatest
      <3> QED  BY <2>2, <2>6, <3>1, <3>2, <3>3 DEF Numbered
    <2>8. Progress(k)'
      <3>1. embedding'[k] = run'[k].attempt
        BY <1>1, <2>1, <2>2, StepFrame DEF IInv, RunInv, Progress, StoreExtraction
      <3>2. e \in Completed(k)'
        BY <2>6 DEF IsLatest
      <3> QED  BY <2>2, <2>6, <3>1, <3>2 DEF Progress
    <2>9. Whole(k)'
      BY <1>1, <2>1, <2>2, StepFrame DEF IInv, RunInv, Whole, StoreExtraction
    <2> QED  BY <2>4, <2>5, <2>7, <2>8, <2>9 DEF RunInv
  <1> QED  BY <1>2, <1>3 DEF StoreExtraction

(* The resolution is claimed for the latest extraction, which is the one   *)
(* of the row's attempt.                                                   *)
LEMMA ClaimResolutionInv ==
  ASSUME IInv, NEW w \in Workers, NEW k, worker[w].key = k, ClaimResolution(w)
  PROVE  RunInv(k)'
  <1>1. Step(w)
    BY DEF Step
  <1>2. CASE Leave(w) /\ UNCHANGED run
    BY <1>1, <1>2, IdleStepInv DEF ClaimResolution, store
  <1>3. CASE /\ Completed(k) # {}
             /\ run[k].status = "running" /\ run[k].stage = "resolution"
    <2>1. /\ run'[k].status = "running" /\ run'[k].stage = "resolving"
          /\ run'[k].attempt = run[k].attempt /\ run[k].attempt \in Nat
          /\ worker'[w].pc = "publish" /\ worker'[w].attempt = run[k].attempt
          /\ worker'[w].number = Latest(k).number
      BY <1>1, <1>3, StepFrame, BusyWorker
      DEF ClaimResolution, IInv, TypeOK, RunRow, WorkerState
    <2>2. ASSUME NEW v \in Workers, Claims(v, k)', v # w
          PROVE  worker'[v] = worker[v] /\ Claims(v, k)
      BY <1>1, <2>2, StepFrame DEF Claims, StageOf
    <2>3. ASSUME NEW v \in Workers, ClaimsNow(v, k)', v # w
          PROVE  StageOf(v)' # "resolving"
      <3>1. ClaimsNow(v, k) /\ StageOf(v)' = StageOf(v)
        BY <2>1, <2>2, <2>3 DEF ClaimsNow, Claims, StageOf
      <3> QED  BY <1>1, <1>3, <3>1, StepFrame DEF IInv, RunInv, ClaimsInOrder
    <2>4. ClaimsInOrder(k)'
      BY <1>1, <2>1, <2>2, StepFrame DEF IInv, RunInv, ClaimsInOrder
    <2>5. OneClaim(k)'
      BY <2>1, <2>3 DEF OneClaim, ClaimsNow, Claims, StageOf
    <2>6. Numbers(k)' = Numbers(k) /\ Completed(k)' = Completed(k)
      BY DEF Numbers, Completed, ClaimResolution
    <2>7. Numbered(k)'
      BY <1>1, <2>1, <2>6, StepFrame
      DEF IInv, RunInv, Numbered, IsLatest, ClaimResolution
    <2>8. Progress(k)'
      <3>1. PICK e \in Completed(k) : IsLatest(k, e) /\ e.attempt = run[k].attempt
        BY <1>1, <1>3, StepFrame DEF IInv, RunInv, Progress
      <3>2. worker'[w].number = e.number
        BY <1>1, <1>3, <2>1, <3>1, StepFrame, LatestIsLatest DEF IInv
      <3>3. e \in Completed(k)' /\ IsLatest(k, e)'
        BY <2>6, <3>1 DEF IsLatest
      <3>4. embedding'[k] = run'[k].attempt
        BY <1>1, <1>3, <2>1, StepFrame DEF IInv, RunInv, Progress, ClaimResolution
      <3>5. \A v \in Workers : ClaimsNow(v, k)' /\ StageOf(v)' = "resolving" => v = w
        BY <2>3
      <3> QED  BY <2>1, <3>1, <3>2, <3>3, <3>4, <3>5
               DEF Progress, ClaimsNow, Claims, StageOf
    <2>9. Whole(k)'
      BY <1>1, <1>3, <2>1, StepFrame DEF IInv, RunInv, Whole, ClaimResolution
    <2> QED  BY <2>4, <2>5, <2>7, <2>8, <2>9 DEF RunInv
  <1> QED  BY <1>2, <1>3 DEF ClaimResolution

LEMMA PublishInv ==
  ASSUME IInv, NEW w \in Workers, NEW k, worker[w].key = k, Publish(w)
  PROVE  RunInv(k)'
  <1>1. Step(w) /\ StageOf(w) = "resolving"
    BY StageValues DEF Step, Publish, At, StageOf
  <1>2. CASE ~Current(w)
    <2>1. Go(w, "fail_resolution") /\ UNCHANGED store
      BY <1>2 DEF Publish, store
    <2> QED  BY <1>1, <2>1, StageValues, IdleStepInv DEF PCs, ResolutionSteps
  <1>3. CASE Current(w)
    <2> DEFINE p == [number |-> worker[w].number, attempt |-> worker[w].attempt]
    <2>1. /\ run[k].status = "running" /\ run[k].stage = "resolving"
          /\ run[k].attempt = worker[w].attempt
      BY <1>1, <1>3 DEF Current, StageOf
    <2>2. /\ run'[k].status = "completed" /\ run'[k].attempt = run[k].attempt
          /\ evidence'[k] = evidence[k] \cup {p}
          /\ UNCHANGED <<embedding, extractions>>
          /\ worker'[w] = IdleWorker
      BY <1>1, <1>3, StepFrame, BusyWorker
      DEF Publish, Leave, IInv, TypeOK, RunRow, WorkerState
    <2>3. StageOf(w)' = "none"
      BY <2>2, StageValues DEF StageOf, IdleWorker
    <2>4. \A v \in Workers : Claims(v, k) => worker[v].attempt <= run'[k].attempt
      BY <1>1, <2>2, StepFrame DEF IInv, RunInv, ClaimsInOrder
    <2>5. Numbers(k)' = Numbers(k) /\ Completed(k)' = Completed(k)
      BY <2>2 DEF Numbers, Completed
    <2>6. Numbered(k)'
      BY <1>1, <2>2, <2>5, StepFrame DEF IInv, RunInv, Numbered, IsLatest
    <2>7. Whole(k)'
      <3>1. PICK e \in Completed(k) : /\ e.attempt = run[k].attempt
                                      /\ e.number = worker[w].number
        <4>1. ClaimsNow(w, k)
          BY <1>1, <2>1 DEF ClaimsNow, Claims
        <4> QED  BY <1>1, <2>1, <4>1, StepFrame DEF IInv, RunInv, Progress
      <3>2. /\ e \in extractions[k]
            /\ e = [number |-> p.number, status |-> "completed",
                    attempt |-> p.attempt]
        BY <1>1, <2>1, <3>1, StepFrame DEF Completed, IInv, TypeOK, Extraction
      <3>3. evidence[k] = {} /\ embedding[k] = run[k].attempt
        BY <1>1, <2>1, StepFrame DEF IInv, RunInv, Whole, Progress
      <3> QED  BY <2>1, <2>2, <3>2, <3>3 DEF Whole
    <2> QED  BY <1>1, <2>2, <2>3, <2>4, <2>6, <2>7, StepFrame, NotRunning
             DEF IInv
  <1> QED  BY <1>2, <1>3

LEMMA MarkFailedInv ==
  ASSUME IInv, NEW w \in Workers, NEW k, worker[w].key = k, MarkFailed(w)
  PROVE  RunInv(k)'
  <1>1. Step(w)
    BY DEF Step
  <1>2. CASE run' = run
    BY <1>1, <1>2, IdleStepInv DEF MarkFailed, store
  <1>3. CASE Current(w) /\ run' = [run EXCEPT ![k].status = "failed"]
    <2>1. run[k].status = "running"
      BY <1>3 DEF Current
    <2>2. /\ run'[k].status = "failed" /\ run'[k].attempt = run[k].attempt
          /\ UNCHANGED <<embedding, extractions, evidence>>
          /\ worker'[w] = IdleWorker
      BY <1>1, <1>3, StepFrame, BusyWorker
      DEF MarkFailed, Leave, IInv, TypeOK, RunRow
    <2>3. StageOf(w)' = "none"
      BY <2>2, StageValues DEF StageOf, IdleWorker
    <2>4. \A v \in Workers : Claims(v, k) => worker[v].attempt <= run'[k].attempt
      BY <1>1, <2>2, StepFrame DEF IInv, RunInv, ClaimsInOrder
    <2>5. Numbers(k)' = Numbers(k) /\ Completed(k)' = Completed(k)
      BY <2>2 DEF Numbers, Completed
    <2>6. Numbered(k)'
      BY <1>1, <2>2, <2>5, StepFrame DEF IInv, RunInv, Numbered, IsLatest
    <2>7. Whole(k)'
      BY <1>1, <2>1, <2>2, StepFrame DEF IInv, RunInv, Whole
    <2> QED  BY <1>1, <2>2, <2>3, <2>4, <2>6, <2>7, StepFrame, NotRunning
             DEF IInv
  <1> QED  BY <1>2, <1>3 DEF MarkFailed

LEMMA RecordFailureInv ==
  ASSUME IInv, NEW w \in Workers, NEW k, worker[w].key = k, RecordFailure(w)
  PROVE  RunInv(k)'
  <1>1. Step(w) /\ StageOf(w) = "extracting" /\ Leave(w)
    BY StageValues DEF Step, RecordFailure, At, StageOf
  <1>2. CASE UNCHANGED <<run, extractions>>
    BY <1>1, <1>2, IdleStepInv DEF RecordFailure, store
  <1>3. CASE Recorded(w, "failed") /\ run' = [run EXCEPT ![k].status = "failed"]
    <2>0. PICK e : e = [number |-> worker[w].number, status |-> "failed",
                        attempt |-> worker[w].attempt]
      OBVIOUS
    <2>1. /\ extractions'[k] = extractions[k] \cup {e}
          /\ \A f \in extractions[k] : f.number < e.number /\ f.number \in Nat
          /\ e.number \in Nat /\ e.status = "failed"
          /\ run[k].status = "running"
      BY <1>1, <1>3, <2>0, StepFrame, RecordedLatest
    <2>2. /\ run'[k].status = "failed" /\ run'[k].attempt = run[k].attempt
          /\ UNCHANGED <<embedding, evidence>>
          /\ worker'[w] = IdleWorker
      BY <1>1, <1>3, StepFrame, BusyWorker
      DEF RecordFailure, Leave, IInv, TypeOK, RunRow
    <2>3. StageOf(w)' = "none"
      BY <2>2, StageValues DEF StageOf, IdleWorker
    <2>4. \A v \in Workers : Claims(v, k) => worker[v].attempt <= run'[k].attempt
      BY <1>1, <2>2, StepFrame DEF IInv, RunInv, ClaimsInOrder
    <2>5. Completed(k)' = Completed(k)
      BY <2>1 DEF Completed
    <2>6. Numbered(k)'
      <3>1. \A f, g \in extractions'[k] : f.number = g.number => f = g
        BY <1>1, <2>1, StepFrame DEF IInv, RunInv, Numbered
      <3>2. e.number \in Numbers(k)' /\ \A m \in Numbers(k)' : m <= e.number
        BY <2>1 DEF Numbers
      <3>3. Completed(k)' # {} => \E f \in Completed(k)' : IsLatest(k, f)'
        BY <1>1, <2>5, StepFrame DEF IInv, RunInv, Numbered, IsLatest
      <3> QED  BY <2>2, <3>1, <3>2, <3>3 DEF Numbered
    <2>7. Whole(k)'
      BY <1>1, <2>1, <2>2, StepFrame DEF IInv, RunInv, Whole
    <2> QED  BY <1>1, <2>2, <2>3, <2>4, <2>6, <2>7, StepFrame, NotRunning
             DEF IInv
  <1> QED  BY <1>2, <1>3 DEF RecordFailure

LEMMA StepInv ==
  ASSUME IInv, NEW w \in Workers, NEW k, worker[w].key = k,
         Step(w) \/ StageFails(w) \/ Abort(w)
  PROVE  RunInv(k)'
  <1>1. CASE Reset(w) \/ Claim(w) \/ StoreEmbedding(w) \/ ClaimExtraction(w)
    BY <1>1, ResetInv, ClaimInv, StoreEmbeddingInv, ClaimExtractionInv
  <1>2. CASE StoreExtraction(w) \/ ClaimResolution(w) \/ Publish(w)
    BY <1>2, StoreExtractionInv, ClaimResolutionInv, PublishInv
  <1>3. CASE MarkFailed(w) \/ RecordFailure(w)
    BY <1>3, MarkFailedInv, RecordFailureInv
  <1>4. CASE Embed(w)
    <2>1. Go(w, "store_embedding") /\ UNCHANGED store /\ StageOf(w) = "embedding"
      BY <1>4, StageValues DEF Embed, At, StageOf
    <2> QED  BY <2>1, StageValues, IdleStepInv DEF PCs, EmbeddingSteps
  <1>5. CASE Extract(w)
    <2>1. Go(w, "store_extraction") /\ UNCHANGED store /\ StageOf(w) = "extracting"
      BY <1>5, StageValues DEF Extract, At, StageOf
    <2> QED  BY <2>1, StageValues, IdleStepInv DEF PCs, ExtractionSteps
  <1>6. CASE StageFails(w)
    <2>1. /\ FailurePath(worker[w].pc) \in PCs
          /\ ClaimedStage(FailurePath(worker[w].pc)) = StageOf(w)
      BY <1>6, StageValues
      DEF StageFails, FailurePath, PCs, EmbeddingSteps, ExtractionSteps,
          ResolutionSteps, StageOf
    <2>2. Go(w, FailurePath(worker[w].pc)) /\ UNCHANGED store
      BY <1>6 DEF StageFails
    <2> QED  BY <1>6, <2>1, <2>2, IdleStepInv
  <1>7. CASE Abort(w)
    BY <1>7, IdleStepInv DEF Abort
  <1> QED  BY <1>1, <1>2, <1>3, <1>4, <1>5, <1>6, <1>7 DEF Step

LEMMA InitInv == Init => IInv
  <1> SUFFICES ASSUME Init PROVE IInv
    OBVIOUS
  <1>1. ASSUME NEW k \in Keys PROVE RunInv(k)
    <2>1. /\ run[k].status = "none" /\ extractions[k] = {} /\ evidence[k] = {}
          /\ \A w \in Workers : ~Claims(w, k)
      BY StageValues DEF Init, NoRun, Claims, StageOf, IdleWorker
    <2> QED  BY <2>1 DEF RunInv, ClaimsInOrder, OneClaim, Numbered, Progress,
                         Whole, Completed
  <1> QED  BY <1>1, InitType DEF IInv

LEMMA NextInv == IInv /\ [Next]_vars => IInv'
  <1> SUFFICES ASSUME IInv, [Next]_vars PROVE IInv'
    OBVIOUS
  <1>1. ASSUME NEW w \in Workers, NEW k \in Keys, NEW i \in Inputs,
               NEW entry \in Entries, Accept(w, k, i, entry)
        PROVE  IInv'
    BY <1>1, AcceptType, AcceptInv DEF IInv
  <1>2. ASSUME NEW w \in Workers, Step(w) \/ StageFails(w) \/ Abort(w)
        PROVE  IInv'
    <2>1. TypeOK'
      BY <1>2, StepType, MishapType DEF IInv
    <2>2. ASSUME NEW k \in Keys PROVE RunInv(k)'
      BY <1>2, StepFrame, StepInv
    <2> QED  BY <2>1, <2>2 DEF IInv
  <1>3. CASE UNCHANGED vars
    <2>1. TypeOK'
      BY <1>3 DEF IInv, TypeOK, vars, StageFits, KeyFits
    <2>2. ASSUME NEW k \in Keys PROVE RunInv(k)'
      <3>1. \A v \in Workers : Claims(v, k)' =>
              /\ Claims(v, k) /\ StageOf(v)' = StageOf(v)
              /\ worker'[v].attempt = worker[v].attempt
              /\ worker'[v].number = worker[v].number
        BY <1>3 DEF vars, Claims, StageOf
      <3> QED  BY <1>3, <3>1, Unaffected DEF vars, IInv
    <2> QED  BY <2>1, <2>2 DEF IInv
  <1> QED  BY <1>1, <1>2, <1>3 DEF Next

-----------------------------------------------------------------------------
(* The results.                                                            *)

(* The invariant the others follow from holds in every state, whatever the *)
(* bounds, the keys and the number of pipelines.                           *)
THEOREM Invariance == Spec => []IInv
  BY InitInv, NextInv, PTL DEF Spec

(* Every transaction, claim and failure keeps the row's status and stage   *)
(* together, and works on a key that was accepted.                         *)
THEOREM TypeCorrect == Spec => []TypeOK
  <1>1. IInv => TypeOK
    BY DEF IInv
  <1> QED  BY <1>1, Invariance, PTL

(* At most one of the pipelines that overlap on a key can store a result.  *)
THEOREM OneOwnerAtATime == Spec => []OneOwner
  <1>1. IInv => OneOwner
    BY DEF IInv, RunInv, OneClaim, OneOwner, Owns, Current, ClaimsNow, Claims,
           StageOf
  <1> QED  BY <1>1, Invariance, PTL

(* The number the owner of an extraction was given is above every number   *)
(* recorded, so the store never refuses its result.                        *)
THEOREM NumberStaysFree == Spec => []ExtractionNumberFree
  <1>1. IInv => ExtractionNumberFree
    BY DEF IInv, RunInv, Numbered, ExtractionNumberFree, Owns, Current,
           ClaimsNow, Claims, StageOf
  <1> QED  BY <1>1, Invariance, PTL

(* What is about to be published is what the row's attempt extracted, and  *)
(* the pipeline that publishes it was given that extraction.               *)
THEOREM OwnExtraction == Spec => []ResolvesItsExtraction
  <1>1. IInv => ResolvesItsExtraction
    <2> SUFFICES ASSUME IInv, NEW k \in Keys, run[k].status = "running",
                        run[k].stage \in {"resolution", "resolving"}
                 PROVE  /\ Completed(k) # {}
                        /\ Latest(k).attempt = run[k].attempt
                        /\ \A w \in Workers :
                             Owns(w, k) => worker[w].number = Latest(k).number
      BY DEF ResolvesItsExtraction
    <2>1. PICK e \in Completed(k) : IsLatest(k, e) /\ e.attempt = run[k].attempt
      BY DEF IInv, RunInv, Progress
    <2>2. e = Latest(k)
      BY <2>1, LatestIsLatest DEF IInv
    <2>3. ASSUME NEW w \in Workers, Owns(w, k)
          PROVE  worker[w].number = Latest(k).number
      <3>1. ClaimsNow(w, k) /\ StageOf(w) = run[k].stage
        BY <2>3 DEF Owns, Current, ClaimsNow, Claims, StageOf
      <3>2. StageOf(w) = "resolving"
        BY <3>1, StageRange DEF IInv
      <3>3. PICK f \in Completed(k) : /\ IsLatest(k, f)
                                      /\ worker[w].number = f.number
        BY <3>1, <3>2 DEF IInv, RunInv, Progress
      <3>4. f = Latest(k)
        BY <3>3, LatestIsLatest DEF IInv
      <3> QED  BY <3>3, <3>4
    <2> QED  BY <2>1, <2>2, <2>3
  <1> QED  BY <1>1, Invariance, PTL

(* A run is completed with its vector, its extraction and its evidence,    *)
(* all of one attempt, and has no evidence before.                         *)
THEOREM PublishedWhole == Spec => []CompletedRunIsWhole
  <1>1. IInv => CompletedRunIsWhole
    BY DEF IInv, RunInv, Whole, CompletedRunIsWhole
  <1> QED  BY <1>1, Invariance, PTL

(* No step of a resume, a straggler or a new request changes a completed   *)
(* run.                                                                    *)
THEOREM FinalOnceCompleted == Spec => CompletedIsFinal
  <1> DEFINE Kept(k) == /\ run'[k] = run[k] /\ embedding'[k] = embedding[k]
                        /\ extractions'[k] = extractions[k]
                        /\ evidence'[k] = evidence[k]
  <1>1. IInv /\ [Next]_vars =>
          [\A k \in Keys : run[k].status = "completed" =>
             /\ run'[k] = run[k]
             /\ embedding'[k] = embedding[k]
             /\ extractions'[k] = extractions[k]
             /\ evidence'[k] = evidence[k]]_vars
    <2> SUFFICES ASSUME IInv, Next, NEW k \in Keys, run[k].status = "completed"
                 PROVE  Kept(k)
      BY DEF vars
    <2>1. ASSUME NEW w \in Workers, NEW j \in Keys, NEW i \in Inputs,
                 NEW entry \in Entries, Accept(w, j, i, entry)
          PROVE  Kept(k)
      BY <2>1 DEF Accept, AcceptNew, AcceptKnown, IInv, TypeOK
    <2>2. ASSUME NEW w \in Workers, StageFails(w) \/ Abort(w)
          PROVE  Kept(k)
      BY <2>2 DEF StageFails, Abort, store
    <2>3. ASSUME NEW w \in Workers, Step(w), ~Embed(w), ~Extract(w)
          PROVE  Kept(k)
      <3>1. worker[w].key \in Keys
        BY <2>3, StepFrame
      <3> QED  BY <2>3, <3>1
               DEF Step, Reset, Resettable, Claim, StoreEmbedding,
                   ClaimExtraction, StoreExtraction, Recorded, ClaimResolution,
                   Publish, MarkFailed, RecordFailure, Current, IInv, TypeOK
    <2>4. ASSUME NEW w \in Workers, Embed(w) \/ Extract(w)
          PROVE  Kept(k)
      BY <2>4 DEF Embed, Extract, store
    <2> QED  BY <2>1, <2>2, <2>3, <2>4 DEF Next
  <1> QED  BY <1>1, Invariance, PTL DEF Spec, CompletedIsFinal

-----------------------------------------------------------------------------
(* GraphRun implements GraphPromise.  What the promise speaks of can be     *)
(* read off the rows of the runs.                                           *)

(* An accepted run has a place below those still to be given.              *)
Placed ==
  \A k \in Keys : IF run[k].status = "none" THEN run[k] = NoRun
                  ELSE run[k].sequence < nextSequence

PromiseInv == IInv /\ Placed

(* The graph of a completed run is made from its last attempt, and one     *)
(* that is not completed has no graph.                                     *)
GraphsOfRows ==
  \A k \in Keys :
    MadeFrom(k) = IF run[k].status = "completed" THEN {run[k].attempt} ELSE {}

LEMMA GraphOfRow == IInv => GraphsOfRows
  <1> SUFFICES ASSUME IInv, NEW k \in Keys
               PROVE  MadeFrom(k) = IF run[k].status = "completed" THEN {run[k].attempt} ELSE {}
    BY DEF GraphsOfRows
  <1>1. CASE run[k].status # "completed"
    BY <1>1 DEF MadeFrom, IInv, RunInv, Whole
  <1>2. CASE run[k].status = "completed"
    <2>1. PICK p \in evidence[k] :
            /\ evidence[k] = {p}
            /\ p.attempt = run[k].attempt
            /\ [number |-> p.number, status |-> "completed",
                attempt |-> p.attempt] \in extractions[k]
            /\ embedding[k] = run[k].attempt
      BY <1>2 DEF IInv, RunInv, Whole
    <2>2. \A e, f \in extractions[k] : e.number = f.number => e = f
      BY DEF IInv, RunInv, Numbered
    <2> DEFINE made == [number |-> p.number, status |-> "completed", attempt |-> p.attempt]
    <2>3. {x \in extractions[k] : \E q \in evidence[k] : q.number = x.number} = {made}
      <3>1. made \in extractions[k] /\ made.number = p.number
        BY <2>1
      <3>2. ASSUME NEW x \in extractions[k], p.number = x.number PROVE x = made
        BY <2>2, <3>1, <3>2
      <3> HIDE DEF made
      <3> QED  BY <2>1, <3>1, <3>2
    <2>4. {q.attempt : q \in evidence[k]} = {run[k].attempt}
      BY <2>1
    <2>5. made.attempt = run[k].attempt
      BY <2>1
    <2> HIDE DEF made
    <2>6. {e.attempt : e \in {made}} = {run[k].attempt}
      BY <2>5
    <2> QED  BY <1>2, <2>1, <2>3, <2>4, <2>6 DEF MadeFrom
  <1> QED  BY <1>1, <1>2

(* Rows that keep their inputs and places keep the order of acceptance.    *)
LEMMA OrderKept ==
  ASSUME \A j \in Keys : /\ run'[j].input = run[j].input
                         /\ run'[j].sequence = run[j].sequence
                         /\ run'[j].status = "none" <=> run[j].status = "none"
  PROVE  InputNow' = InputNow /\ EarlierNow' = EarlierNow
  BY DEF InputNow, EarlierNow

(* What a step of a worker may do to the row of its key, and to no other.  *)
RowStep(k) ==
  /\ \A j \in Keys \ {k} : run'[j] = run[j]
  /\ run'[k].input = run[k].input /\ run'[k].sequence = run[k].sequence
  /\ \/ run'[k].status = run[k].status /\ run'[k].attempt = run[k].attempt
     \/ /\ run[k].status = "pending" /\ run'[k].status = "running"
        /\ run'[k].attempt = run[k].attempt + 1
     \/ /\ run[k].status = "running" /\ run'[k].status \in {"failed", "completed"}
        /\ run'[k].attempt = run[k].attempt
     \/ /\ run[k].status \in {"running", "failed"} /\ run'[k].status = "pending"
        /\ run'[k].attempt = run[k].attempt

(* A row that moves on is a step of the promise.                           *)
LEMMA RowMoves ==
  ASSUME PromiseInv, IInv', NEW k \in Keys, run[k].status # "none", RowStep(k)
  PROVE  Promise!Next \/ UNCHANGED <<InputNow, EarlierNow, PhaseNow, TriesNow, GraphNow>>
  <1> DEFINE row == run'[k]
  <1>1. /\ \A j \in Keys \ {k} : run'[j] = run[j]
        /\ row.input = run[k].input /\ row.sequence = run[k].sequence
        /\ row.status # "none"
    BY DEF RowStep
  <1>2. InputNow' = InputNow /\ EarlierNow' = EarlierNow
    BY <1>1, OrderKept
  <1>3. PhaseNow' = [PhaseNow EXCEPT ![k] = row.status]
    BY <1>1 DEF PhaseNow
  <1>4. TriesNow' = [TriesNow EXCEPT ![k] = row.attempt]
    BY <1>1 DEF TriesNow
  <1>5. GraphNow' = [GraphNow EXCEPT ![k] =
                       IF row.status = "completed" THEN {row.attempt} ELSE {}]
    <2>1. \A j \in Keys : MadeFrom(j) =
            IF run[j].status = "completed" THEN {run[j].attempt} ELSE {}
      BY GraphOfRow DEF PromiseInv, GraphsOfRows
    <2>2. GraphsOfRows'
      BY GraphOfRow, PTL
    <2>3. \A j \in Keys : MadeFrom(j)' =
            IF run'[j].status = "completed" THEN {run'[j].attempt} ELSE {}
      BY <2>2 DEF GraphsOfRows
    <2> QED  BY <1>1, <2>1, <2>3 DEF GraphNow
  <1>6. /\ PhaseNow[k] = run[k].status /\ TriesNow[k] = run[k].attempt
        /\ GraphNow[k] = IF run[k].status = "completed" THEN {run[k].attempt} ELSE {}
    BY GraphOfRow DEF PromiseInv, GraphsOfRows, PhaseNow, TriesNow, GraphNow
  <1>7. /\ DOMAIN PhaseNow = Keys /\ DOMAIN TriesNow = Keys /\ DOMAIN GraphNow = Keys
        /\ PhaseNow = [PhaseNow EXCEPT ![k] = PhaseNow[k]]
        /\ TriesNow = [TriesNow EXCEPT ![k] = TriesNow[k]]
        /\ GraphNow = [GraphNow EXCEPT ![k] = GraphNow[k]]
    BY DEF PhaseNow, TriesNow, GraphNow
  <1>8. CASE row.status = run[k].status /\ row.attempt = run[k].attempt
    BY <1>2, <1>3, <1>4, <1>5, <1>6, <1>7, <1>8
  <1>9. CASE /\ run[k].status = "pending" /\ row.status = "running"
             /\ row.attempt = run[k].attempt + 1
    <2>1. Promise!Begin(k)
      BY <1>2, <1>3, <1>4, <1>5, <1>6, <1>7, <1>9 DEF Promise!Begin, Promise!Becomes
    <2> QED  BY <2>1 DEF Promise!Next
  <1>10. CASE /\ run[k].status = "running" /\ row.status = "failed"
              /\ row.attempt = run[k].attempt
    <2>1. Promise!GiveUp(k)
      BY <1>2, <1>3, <1>4, <1>5, <1>6, <1>7, <1>10 DEF Promise!GiveUp, Promise!Becomes
    <2> QED  BY <2>1 DEF Promise!Next
  <1>11. CASE /\ run[k].status = "running" /\ row.status = "completed"
              /\ row.attempt = run[k].attempt
    <2>1. Promise!Finish(k)
      BY <1>2, <1>3, <1>4, <1>5, <1>6, <1>7, <1>11 DEF Promise!Finish, Promise!Becomes
    <2> QED  BY <2>1 DEF Promise!Next
  <1>12. CASE /\ run[k].status \in {"running", "failed"} /\ row.status = "pending"
              /\ row.attempt = run[k].attempt
    <2>1. Promise!Again(k)
      BY <1>2, <1>3, <1>4, <1>5, <1>6, <1>7, <1>12 DEF Promise!Again, Promise!Becomes
    <2> QED  BY <2>1 DEF Promise!Next
  <1> QED  BY <1>8, <1>9, <1>10, <1>11, <1>12 DEF RowStep

LEMMA StageMoves ==
  ASSUME TypeOK, NEW k \in Keys, run[k].status = "running",
         NEW stage, run' = [run EXCEPT ![k].stage = stage]
  PROVE  RowStep(k)
  BY DEF RowStep, TypeOK, RunRow

LEMMA WorkMovesRow ==
  ASSUME TypeOK, NEW w \in Workers, Step(w) \/ StageFails(w) \/ Abort(w),
         NEW k, k = worker[w].key
  PROVE  /\ k \in Keys /\ run[k].status # "none"
         /\ RowStep(k) /\ nextSequence' = nextSequence
  <1> USE DEF store
  <1>1. /\ k \in Keys /\ run[k].status # "none" /\ run[k] \in RunRow
    <2>1. worker[w].pc # "idle"
      BY DEF Step, Reset, Claim, Embed, StoreEmbedding, ClaimExtraction, Extract,
             StoreExtraction, ClaimResolution, Publish, MarkFailed, RecordFailure,
             StageFails, Abort, At
    <2> QED  BY <2>1, BusyWorker DEF TypeOK
  <1>2. nextSequence' = nextSequence
    BY DEF Step, Reset, Claim, Embed, StoreEmbedding, ClaimExtraction, Extract,
           StoreExtraction, ClaimResolution, Publish, MarkFailed, RecordFailure,
           StageFails, Abort
  <1>3. SUFFICES RowStep(k)
    BY <1>1, <1>2
  <1>4. CASE run' = run
    BY <1>4 DEF RowStep
  <1>5. CASE Reset(w)
    <2>1. CASE /\ run[k].status \in Resettable
               /\ run' = [run EXCEPT ![k] = Restarted(run[k])]
      BY <1>1, <2>1 DEF Resettable, Restarted, RowStep, RunRow, TypeOK
    <2> QED  BY <1>1, <1>4, <1>5, <2>1 DEF Reset
  <1>6. CASE Claim(w)
    BY <1>1, <1>6 DEF Claim, NextAttempt, RowStep, RunRow, TypeOK
  <1>7. CASE StoreEmbedding(w) \/ ClaimExtraction(w)
    BY <1>1, <1>4, <1>7, StageMoves DEF StoreEmbedding, ClaimExtraction, Current
  <1>8. CASE StoreExtraction(w)
    BY <1>1, <1>4, <1>8, StageMoves DEF StoreExtraction, Recorded, Current
  <1>9. CASE ClaimResolution(w)
    BY <1>1, <1>4, <1>9, StageMoves DEF ClaimResolution
  <1>10. CASE Publish(w)
    BY <1>1, <1>4, <1>10 DEF Publish, Current, RowStep, RunRow, TypeOK
  <1>11. CASE MarkFailed(w) \/ RecordFailure(w)
    <2>1. CASE run[k].status = "running" /\ run' = [run EXCEPT ![k].status = "failed"]
      BY <1>1, <2>1 DEF RowStep, RunRow, TypeOK
    <2> QED  BY <1>4, <1>11, <2>1 DEF MarkFailed, RecordFailure, Recorded, Current
  <1>12. CASE Embed(w) \/ Extract(w) \/ StageFails(w) \/ Abort(w)
    BY <1>4, <1>12 DEF Embed, Extract, StageFails, Abort
  <1> QED  BY <1>5, <1>6, <1>7, <1>8, <1>9, <1>10, <1>11, <1>12 DEF Step

(* A new key takes its place above all others.                             *)
LEMMA TakePromise ==
  ASSUME PromiseInv, IInv', NEW w \in Workers, NEW k \in Keys, NEW i \in Inputs,
         NEW entry \in Entries, AcceptNew(w, k, i, entry)
  PROVE  Promise!Next
  <1>1. /\ run \in [Keys -> RunRow] /\ run[k].status = "none" /\ nextSequence \in Nat
        /\ \A j \in Keys \ {k} : run'[j] = run[j]
        /\ run'[k].status = "pending" /\ run'[k].attempt = 0 /\ run'[k].input = i
        /\ run'[k].sequence = nextSequence
    BY DEF PromiseInv, IInv, TypeOK, AcceptNew
  <1>2. /\ \A j \in Keys : run[j].sequence \in Nat
        /\ \A j \in Keys : IF run[j].status = "none" THEN run[j].sequence = 0
                           ELSE run[j].sequence < nextSequence
        /\ run[k].attempt = 0
    BY <1>1 DEF PromiseInv, Placed, NoRun, RunRow
  <1>3. EarlierNow' = [EarlierNow EXCEPT ![k] = {j \in Keys : PhaseNow[j] # "none"}]
    <2>1. \A j \in Keys : run'[j].status # "none" /\ run'[j].sequence < run'[k].sequence
                            <=> run[j].status # "none"
      BY <1>1, <1>2
    <2>2. ASSUME NEW l \in Keys \ {k}, NEW j \in Keys
          PROVE  run'[j].status # "none" /\ run'[j].sequence < run'[l].sequence
                   <=> run[j].status # "none" /\ run[j].sequence < run[l].sequence
      <3>1. CASE j = k
        BY <1>1, <1>2, <3>1
      <3>2. CASE j # k
        BY <1>1, <3>2
      <3> QED  BY <3>1, <3>2
    <2>3. EarlierNow'[k] = {j \in Keys : run[j].status # "none"}
      BY <2>1 DEF EarlierNow
    <2>4. \A l \in Keys \ {k} : EarlierNow'[l] = EarlierNow[l]
      BY <2>2 DEF EarlierNow
    <2>5. {j \in Keys : run[j].status # "none"} = {j \in Keys : PhaseNow[j] # "none"}
      BY DEF PhaseNow
    <2>6. DOMAIN EarlierNow = Keys /\ DOMAIN EarlierNow' = Keys
          /\ EarlierNow' = [l \in Keys |-> EarlierNow'[l]]
      BY DEF EarlierNow
    <2> QED  BY <2>3, <2>4, <2>5, <2>6
  <1>4. /\ PhaseNow[k] = "none"
        /\ PhaseNow' = [PhaseNow EXCEPT ![k] = "pending"]
        /\ InputNow' = [InputNow EXCEPT ![k] = i]
    BY <1>1 DEF PhaseNow, InputNow
  <1>5. TriesNow' = TriesNow
    BY <1>1, <1>2 DEF TriesNow
  <1>6. GraphNow' = GraphNow
    <2>1. GraphsOfRows /\ GraphsOfRows'
      BY GraphOfRow, PTL DEF PromiseInv
    <2> QED  BY <1>1, <2>1 DEF GraphsOfRows, GraphNow
  <1>7. Promise!Take(k, i)
    BY <1>3, <1>4, <1>5, <1>6 DEF Promise!Take
  <1> QED  BY <1>7 DEF Promise!Next

LEMMA PromiseInit == Init => Promise!Init
  <1> SUFFICES ASSUME Init PROVE Promise!Init
    OBVIOUS
  <1>1. ASSUME NEW k \in Keys
        PROVE  /\ InputNow[k] = NoInput /\ EarlierNow[k] = {}
               /\ PhaseNow[k] = "none" /\ TriesNow[k] = 0 /\ GraphNow[k] = {}
    BY DEF Init, NoRun, InputNow, EarlierNow, PhaseNow, TriesNow, GraphNow, MadeFrom
  <1>2. /\ InputNow = [k \in Keys |-> NoInput] /\ EarlierNow = [k \in Keys |-> {}]
        /\ PhaseNow = [k \in Keys |-> "none"] /\ TriesNow = [k \in Keys |-> 0]
        /\ GraphNow = [k \in Keys |-> {}]
    BY <1>1 DEF InputNow, EarlierNow, PhaseNow, TriesNow, GraphNow
  <1> QED  BY <1>2 DEF Promise!Init

LEMMA PlacedInit == Init => Placed
  BY DEF Init, Placed, NoRun

LEMMA PlacedNext == IInv /\ Placed /\ [Next]_vars => Placed'
  <1> SUFFICES ASSUME IInv, Placed, [Next]_vars PROVE Placed'
    OBVIOUS
  <1>1. /\ run \in [Keys -> RunRow] /\ nextSequence \in Nat
        /\ \A k \in Keys : run[k].sequence \in Nat
    BY DEF IInv, TypeOK, RunRow
  <1>2. ASSUME NEW w \in Workers, NEW k \in Keys, NEW i \in Inputs,
               NEW entry \in Entries, Accept(w, k, i, entry)
        PROVE  Placed'
    <2>1. CASE AcceptNew(w, k, i, entry)
      <3>1. /\ \A j \in Keys \ {k} : run'[j] = run[j]
            /\ run'[k].status = "pending" /\ run'[k].sequence = nextSequence
            /\ nextSequence' = nextSequence + 1
        BY <1>1, <2>1 DEF AcceptNew
      <3> QED  BY <1>1, <3>1 DEF Placed
    <2>2. CASE AcceptKnown(w, k, i, entry)
      BY <2>2 DEF AcceptKnown, Placed
    <2> QED  BY <1>2, <2>1, <2>2 DEF Accept
  <1>3. ASSUME NEW w \in Workers, Step(w) \/ StageFails(w) \/ Abort(w)
        PROVE  Placed'
    <2>1. PICK k : k = worker[w].key
      OBVIOUS
    <2>2. /\ k \in Keys /\ run[k].status # "none"
          /\ RowStep(k) /\ nextSequence' = nextSequence
      BY <1>3, <2>1, WorkMovesRow DEF IInv
    <2>3. /\ \A j \in Keys \ {k} : run'[j] = run[j]
          /\ run'[k].sequence = run[k].sequence /\ run'[k].status # "none"
      BY <2>2 DEF RowStep
    <2> QED  BY <2>2, <2>3 DEF Placed
  <1>4. CASE UNCHANGED vars
    BY <1>4 DEF vars, Placed
  <1> QED  BY <1>2, <1>3, <1>4 DEF Next

LEMMA PromiseNext ==
  PromiseInv /\ IInv' /\ [Next]_vars =>
    [Promise!Next]_<<InputNow, EarlierNow, PhaseNow, TriesNow, GraphNow>>
  <1> DEFINE Still == UNCHANGED <<InputNow, EarlierNow, PhaseNow, TriesNow, GraphNow>>
  <1> SUFFICES ASSUME PromiseInv, IInv', [Next]_vars PROVE Promise!Next \/ Still
    OBVIOUS
  <1>1. CASE UNCHANGED <<run, embedding, extractions, evidence>>
    BY <1>1 DEF InputNow, EarlierNow, PhaseNow, TriesNow, GraphNow, MadeFrom
  <1>2. ASSUME NEW w \in Workers, NEW k \in Keys, NEW i \in Inputs,
               NEW entry \in Entries, Accept(w, k, i, entry)
        PROVE  Promise!Next \/ Still
    BY <1>1, <1>2, TakePromise DEF Accept, AcceptKnown
  <1>3. ASSUME NEW w \in Workers, Step(w) \/ StageFails(w) \/ Abort(w)
        PROVE  Promise!Next \/ Still
    <2>1. PICK k : k = worker[w].key
      OBVIOUS
    <2>2. k \in Keys /\ run[k].status # "none" /\ RowStep(k)
      BY <1>3, <2>1, WorkMovesRow DEF PromiseInv, IInv
    <2> QED  BY <2>2, RowMoves
  <1>4. CASE UNCHANGED vars
    BY <1>1, <1>4 DEF vars
  <1> QED  BY <1>2, <1>3, <1>4 DEF Next

(* However pipelines overlap, fail and are resumed, the store does what    *)
(* GraphPromise says: a memory is accepted once, in an order that stays,   *)
(* and its graph appears in one step, made by its last attempt alone.      *)
THEOREM PromiseImplemented == Spec => ImplementsPromise
  <1>1. IInv /\ Placed /\ IInv' /\ [Next]_vars
          => [Promise!Next]_<<InputNow, EarlierNow, PhaseNow, TriesNow, GraphNow>>
    BY PromiseNext DEF PromiseInv
  <1> QED  BY <1>1, Invariance, PromiseInit, PlacedInit, PlacedNext, PTL
           DEF Spec, ImplementsPromise, Promise!Spec
=============================================================================
