--------------------------- MODULE MemoryPipeline ---------------------------
(***************************************************************************)
(* The extraction pipeline of memory-pipeline, as its batch program runs   *)
(* it: the windows of a conversation one after the other, an extraction    *)
(* and a grounding call to a language model for each, both answered from   *)
(* a cache on disk when an earlier run left an answer there, and at the    *)
(* end the exact duplicates merged and the files written.  A run may fail, *)
(* be killed, and be started again over the same cache and files.          *)
(*                                                                         *)
(* A raw memory is its canonical content, the evidence it quotes and what  *)
(* validate_extraction makes of it; the model of Windows says which        *)
(* windows there are.  Normalisation, episodes and windows are computed    *)
(* again, with the same result, by every run.                              *)
(***************************************************************************)
EXTENDS Naturals, Sequences, FiniteSets

CONSTANTS NumWindows,      \* windows of the conversation
          Batches,         \* what the extractor may answer: sequences of raw memories
          MaxRetries,      \* attempts of one request (max_retries)
          SemanticAttempts,\* 2 with reasoning_only_retry, else 1
          RepairAttempts,  \* json_repair_attempts
          MaxRuns,         \* bound: how often the program is started
          MaxMishaps,      \* bound: kills, and reads and writes of files that fail
          NoEntry          \* no such file

WindowIds == 1 .. NumWindows
Files == <<"accepted_memories", "prepared", "output">>

ASSUME PipelineAssumption ==
  /\ NumWindows \in Nat \ {0}
  /\ {MaxRetries, RepairAttempts, MaxRuns, MaxMishaps} \subseteq Nat
  /\ SemanticAttempts \in {1, 2}
  /\ \A b \in Batches :
       /\ b # NoEntry /\ DOMAIN b \subseteq Nat
       /\ \A i \in DOMAIN b : b[i].check \in {"valid", "rejected", "quarantined"}

VARIABLES
  failFast,   \* PipelineConfig::fail_fast of this run
  cacheOn,    \* whether the program is given --cache-dir
  pc,         \* where run_memory_pipeline and main stand
  w,          \* the window at hand
  call,       \* the chat completion under way: its stage and the three retry counters
  answer,     \* the parsed answer, before it is cached
  used,       \* extracted_candidates: the batch of each window, NoEntry before
  supported, rejected, quarantined, \* <<window, memory index>>; index 0 is the whole window
  error,      \* what the last failed call of this run ended with
  extracted,  \* cache entries of extraction, by window
  grounded,   \* cache entries of grounding, by window and memories verified
  skipped,    \* history: windows at which this run passed over an unreadable entry
  disk,       \* the files written at the end
  runs, mishaps

run == <<failFast, pc, w, call, answer, used, supported, rejected, quarantined, error>>
cache == <<extracted, grounded>>
vars == <<run, cacheOn, skipped, cache, disk, runs, mishaps>>

Fresh(stage) == [stage |-> stage, repair |-> 0, sem |-> 0, attempt |-> 0]
NoAnswer == [stage |-> "none"]

(* One memory per canonical content: id is a hash of scope and content.    *)
Valid(b) == {i \in DOMAIN b : b[i].check = "valid"}
Ids(b) == {b[i].content : i \in Valid(b)}
HasTwins(b) == Cardinality(Ids(b)) < Cardinality(Valid(b))

(* aggregate_exact_memories: one memory per content, with the evidence of  *)
(* all that were supported.                                                *)
Aggregate(S, u) ==
  LET Content(m) == u[m[1]][m[2]].content
  IN  {[content  |-> c,
        evidence |-> {u[m[1]][m[2]].evidence : m \in {x \in S : Content(x) = c}}] :
         c \in {Content(m) : m \in S}}

Init ==
  /\ failFast = TRUE /\ cacheOn \in BOOLEAN
  /\ pc = "stopped" /\ w = 1 /\ call = Fresh("extract") /\ answer = NoAnswer
  /\ used = [v \in WindowIds |-> NoEntry]
  /\ supported = {} /\ rejected = {} /\ quarantined = {} /\ error = "none"
  /\ skipped = {}
  /\ extracted = [v \in WindowIds |-> NoEntry]
  /\ grounded = {}
  /\ disk = [f \in 1 .. Len(Files) |-> NoEntry]
  /\ runs = 0 /\ mishaps = 0

(* main: the program is started, again after a run that failed, was killed *)
(* or finished, with or without fail_fast.                                 *)
Start(ff) ==
  /\ pc = "stopped" /\ runs < MaxRuns
  /\ runs' = runs + 1 /\ failFast' = ff
  /\ pc' = "look" /\ w' = 1 /\ call' = Fresh("extract") /\ answer' = NoAnswer
  /\ used' = [v \in WindowIds |-> NoEntry]
  /\ supported' = {} /\ rejected' = {} /\ quarantined' = {} /\ error' = "none"
  /\ skipped' = {}
  /\ UNCHANGED <<cacheOn, cache, disk, mishaps>>

(* The loop goes to the next window, or ends.                              *)
NextWindow ==
  /\ call' = Fresh("extract") /\ answer' = NoAnswer
  /\ IF w < NumWindows THEN w' = w + 1 /\ pc' = "look"
                       ELSE w' = w /\ pc' = "write1"

(* A call failed: fail_fast returns the error from the run; otherwise an   *)
(* extraction makes its window an issue, a grounding quarantines every     *)
(* memory it was to verify.                                                *)
Quarantine(batch) == {<<w, i>> : i \in Valid(batch)}

CallFails(why) ==
  /\ error' = why
  /\ IF failFast
       THEN /\ pc' = "stopped" /\ answer' = NoAnswer
            /\ UNCHANGED <<w, call, rejected, quarantined>>
       ELSE /\ NextWindow
            /\ IF call.stage = "extract"
                 THEN rejected' = rejected \cup {<<w, 0>>} /\ UNCHANGED quarantined
                 ELSE quarantined' = quarantined \cup Quarantine(used[w]) /\ UNCHANGED rejected
  /\ UNCHANGED <<failFast, used, supported>>

(* The batch of the window is validated; what is valid goes to grounding.  *)
Extracted(b) ==
  /\ used' = [used EXCEPT ![w] = b]
  /\ rejected' = rejected \cup {<<w, i>> : i \in {j \in DOMAIN b : b[j].check = "rejected"}}
  /\ quarantined' = quarantined \cup {<<w, i>> : i \in {j \in DOMAIN b : b[j].check = "quarantined"}}
  /\ IF Valid(b) = {}
       THEN NextWindow
       ELSE pc' = "look" /\ call' = Fresh("ground") /\ answer' = NoAnswer /\ UNCHANGED w
  /\ UNCHANGED <<failFast, supported, error>>

(* Mutant of Supports. *)
SupportsAny(ids, i) == ids # {}
(* The results by memory id: SUPPORTED is kept, anything else quarantined. *)
Supports(ids, i) == used[w][i].content \in ids

Grounded(ids) ==
  /\ LET yes == {i \in Valid(used[w]) : Supports(ids, i)}
     IN  /\ supported' = supported \cup {<<w, i>> : i \in yes}
         /\ quarantined' = quarantined \cup {<<w, i>> : i \in Valid(used[w]) \ yes}
  /\ NextWindow
  /\ UNCHANGED <<failFast, used, rejected, error>>

Outcome(a) == IF a.stage = "extract" THEN Extracted(a.batch) ELSE Grounded(a.ids)

(* Mutant of Kept: the grounding is asked for again in every run.          *)
KeptExtraction ==
  {[stage |-> "extract", batch |-> b] :
     b \in IF cacheOn /\ call.stage = "extract" THEN {extracted[w]} \ {NoEntry} ELSE {}}

(* The entries the caches hold for the call at hand.                       *)
Kept ==
  IF ~cacheOn THEN {}
  ELSE IF call.stage = "extract"
         THEN {[stage |-> "extract", batch |-> b] : b \in {extracted[w]} \ {NoEntry}}
         ELSE {[stage |-> "ground", ids |-> e.ids] : e \in {x \in grounded : x.w = w /\ x.of = used[w]}}

LookHit ==
  /\ pc = "look"
  /\ \E a \in Kept : Outcome(a)
  /\ UNCHANGED <<cacheOn, skipped, cache, disk, runs, mishaps>>

LookMiss ==
  /\ pc = "look" /\ Kept = {}
  /\ pc' = "ask"
  /\ UNCHANGED <<failFast, w, call, answer, used, supported, rejected, quarantined, error,
                 cacheOn, skipped, cache, disk, runs, mishaps>>

(* cache.get: an entry that is there but cannot be read or decoded is an   *)
(* error of the call, and the model is not asked instead.                  *)
LookFails ==
  /\ pc = "look" /\ Kept # {} /\ mishaps < MaxMishaps
  /\ mishaps' = mishaps + 1
  /\ skipped' = IF failFast THEN skipped ELSE skipped \cup {w}
  /\ CallFails("unread")
  /\ UNCHANGED <<cacheOn, cache, disk, runs>>

(* messages_within_budget, validate_context_budget: the request is too     *)
(* large for the model's window even without its context, and is not sent. *)
OverBudget ==
  /\ pc = "ask" /\ call.sem = 0 /\ call.attempt = 0
  /\ CallFails("budget")
  /\ UNCHANGED <<cacheOn, skipped, cache, disk, runs, mishaps>>

(* send_with_retries: a time-out, a broken connection or body, or one of   *)
(* the retryable statuses is tried again while attempts are left.          *)
Again(c) == [c EXCEPT !.attempt = @ + 1]

AttemptFails ==
  /\ pc = "ask"
  /\ IF call.attempt + 1 < MaxRetries
       THEN /\ call' = Again(call)
            /\ UNCHANGED <<failFast, pc, w, answer, used, supported, rejected, quarantined, error>>
       ELSE CallFails("provider")
  /\ UNCHANGED <<cacheOn, skipped, cache, disk, runs, mishaps>>

(* Any other status, or an answer with neither content nor reasoning.      *)
RequestRefused ==
  /\ pc = "ask"
  /\ CallFails("provider")
  /\ UNCHANGED <<cacheOn, skipped, cache, disk, runs, mishaps>>

(* chat_with_schema: an answer of reasoning only is asked for once more.   *)
ReasoningOnly ==
  /\ pc = "ask"
  /\ IF call.sem + 1 < SemanticAttempts
       THEN /\ call' = [call EXCEPT !.sem = @ + 1, !.attempt = 0]
            /\ UNCHANGED <<failFast, pc, w, answer, used, supported, rejected, quarantined, error>>
       ELSE CallFails("provider")
  /\ UNCHANGED <<cacheOn, skipped, cache, disk, runs, mishaps>>

(* Mutant of Unparsable. *)
UnparsableUncounted(why) ==
  /\ pc = "ask"
  /\ why \in {"twins", "omitted"} => call.stage = "ground"
  /\ why = "twins" <=> (call.stage = "ground" /\ HasTwins(used[w]))
  /\ IF call.repair < RepairAttempts
       THEN /\ call' = [call EXCEPT !.sem = 0, !.attempt = 0]
            /\ UNCHANGED <<failFast, pc, w, answer, used, supported, rejected, quarantined, error>>
       ELSE CallFails(why)
  /\ UNCHANGED <<cacheOn, skipped, cache, disk, runs, mishaps>>

(* Content that does not parse: the model is asked to repair it, else the  *)
(* call fails.  parse_grounding_results refuses a result that leaves out a *)
(* memory, and whatever the model says when two memories share one id.     *)
Unparsable(why) ==
  /\ pc = "ask"
  /\ why \in {"twins", "omitted"} => call.stage = "ground"
  /\ why = "twins" <=> (call.stage = "ground" /\ HasTwins(used[w]))
  /\ IF call.repair < RepairAttempts
       THEN /\ call' = [call EXCEPT !.repair = @ + 1, !.sem = 0, !.attempt = 0]
            /\ UNCHANGED <<failFast, pc, w, answer, used, supported, rejected, quarantined, error>>
       ELSE CallFails(why)
  /\ UNCHANGED <<cacheOn, skipped, cache, disk, runs, mishaps>>

AnswerParsed ==
  /\ pc = "ask"
  /\ \/ /\ call.stage = "extract"
        /\ \E b \in Batches : answer' = [stage |-> "extract", batch |-> b]
     \/ /\ call.stage = "ground" /\ ~HasTwins(used[w])
        /\ \E ids \in SUBSET Ids(used[w]) : answer' = [stage |-> "ground", ids |-> ids]
  /\ pc' = "save"
  /\ UNCHANGED <<failFast, w, call, used, supported, rejected, quarantined, error,
                 cacheOn, skipped, cache, disk, runs, mishaps>>

(* cache.put, a temporary file renamed into place, and on with the answer. *)
Save ==
  /\ pc = "save"
  /\ extracted' = IF cacheOn /\ answer.stage = "extract"
                    THEN [extracted EXCEPT ![w] = answer.batch] ELSE extracted
  /\ grounded' = IF cacheOn /\ answer.stage = "ground"
                   THEN grounded \cup {[w |-> w, of |-> used[w], ids |-> answer.ids]}
                   ELSE grounded
  /\ Outcome(answer)
  /\ UNCHANGED <<cacheOn, skipped, disk, runs, mishaps>>

SaveFails ==
  /\ pc = "save" /\ cacheOn /\ mishaps < MaxMishaps
  /\ mishaps' = mishaps + 1
  /\ CallFails("disk")
  /\ UNCHANGED <<cacheOn, skipped, cache, disk, runs>>

(* write_pipeline_artifacts and write_prepared_output: each file replaced  *)
(* at once, the output of the program last.                                *)
Stage(n) == CASE n = 1 -> "write1" [] n = 2 -> "write2" [] n = 3 -> "write3" [] OTHER -> "stopped"

Write(n) ==
  /\ pc = Stage(n)
  /\ disk' = [disk EXCEPT ![n] = Aggregate(supported, used)]
  /\ pc' = Stage(n + 1)
  /\ UNCHANGED <<failFast, w, call, answer, used, supported, rejected, quarantined, error,
                 cacheOn, skipped, cache, runs, mishaps>>

(* The process is killed, or a write of the last files fails.              *)
Killed ==
  /\ pc # "stopped" /\ mishaps < MaxMishaps
  /\ mishaps' = mishaps + 1
  /\ pc' = "stopped" /\ answer' = NoAnswer
  /\ UNCHANGED <<failFast, w, call, used, supported, rejected, quarantined, error,
                 cacheOn, skipped, cache, disk, runs>>

Reply == \/ OverBudget \/ AttemptFails \/ RequestRefused \/ ReasoningOnly
         \/ \E why \in {"parse", "twins", "omitted"} : Unparsable(why)
         \/ AnswerParsed
Running == \/ LookHit \/ LookMiss \/ Reply \/ Save
           \/ \E n \in 1 .. Len(Files) : Write(n)
Next ==
  \/ \E ff \in BOOLEAN : Start(ff)
  \/ Running \/ LookFails \/ SaveFails \/ Killed

Spec == Init /\ [][Next]_vars

(* A run that is started goes on: every request ends by the client's own   *)
(* time-out, so an answer of some kind always comes.                       *)
FairSpec == Spec /\ WF_vars(Running)
-----------------------------------------------------------------------------
(* Types.                                                                  *)
Token == WindowIds \X Nat
TypeOK ==
  /\ failFast \in BOOLEAN /\ cacheOn \in BOOLEAN
  /\ pc \in {"stopped", "look", "ask", "save", "write1", "write2", "write3"}
  /\ w \in WindowIds
  /\ call \in [stage : {"extract", "ground"}, repair : 0 .. RepairAttempts,
               sem : 0 .. SemanticAttempts - 1, attempt : Nat]
  /\ call.attempt = 0 \/ call.attempt < MaxRetries
  /\ \/ answer = NoAnswer
     \/ pc = "save" /\ answer.stage = call.stage
  /\ used \in [WindowIds -> Batches \cup {NoEntry}]
  /\ extracted \in [WindowIds -> Batches \cup {NoEntry}]
  /\ supported \subseteq Token /\ rejected \subseteq Token /\ quarantined \subseteq Token
  /\ error \in {"none", "budget", "provider", "parse", "twins", "omitted", "disk", "unread"}
  /\ skipped \subseteq WindowIds
  /\ \A e \in grounded : e.w \in WindowIds /\ e.of \in Batches /\ e.ids \subseteq Ids(e.of)
  /\ runs \in 0 .. MaxRuns /\ mishaps \in 0 .. MaxMishaps

Through == IF pc \in {"write1", "write2", "write3"} THEN WindowIds ELSE 1 .. w - 1

(* Nothing the extractor returned is lost: of a window the loop has left,  *)
(* each memory is supported, rejected or quarantined, in one place only,   *)
(* and a window with no batch is itself an issue.  And a memory is         *)
(* supported only if it passed validation and the verifier said SUPPORTED  *)
(* of its content among exactly the memories of its window.                *)
EveryMemoryAccounted ==
  /\ pc # "stopped" =>
       \A v \in Through :
         IF used[v] = NoEntry THEN <<v, 0>> \in rejected
         ELSE \A i \in DOMAIN used[v] :
                Cardinality({s \in {1, 2, 3} :
                               <<v, i>> \in <<supported, rejected, quarantined>>[s]}) = 1
  /\ cacheOn =>
       \A m \in supported :
         /\ used[m[1]][m[2]].check = "valid"
         /\ \E e \in grounded : /\ e.w = m[1] /\ e.of = used[m[1]]
                                /\ used[m[1]][m[2]].content \in e.ids

(* What a run uses is what the cache holds: an answer whose cache entry    *)
(* could not be written is not used, so that a later run can use no other. *)
RunAgreesWithCache ==
  cacheOn => \A v \in WindowIds : used[v] # NoEntry => used[v] = extracted[v]

(* Every window answered for, and what they come to.                       *)
Answers(v) == {e \in grounded : e.w = v /\ e.of = extracted[v]}
AllCached ==
  \A v \in WindowIds : /\ extracted[v] # NoEntry
                       /\ Valid(extracted[v]) = {} \/ Answers(v) # {}
CachedSupport(v) ==
  {<<v, i>> : i \in {j \in Valid(extracted[v]) :
                      \E e \in Answers(v) : extracted[v][j].content \in e.ids}}
CachedResult == Aggregate(UNION {CachedSupport(v) : v \in WindowIds}, extracted)

(* Once a run has answered for every window and written its output, no     *)
(* later run, finished or not, puts another in its place, unless it was    *)
(* told not to fail fast and passed over an entry it could not read.       *)
OutputStays ==
  [][cacheOn /\ skipped = {} /\ AllCached /\ disk[3] = CachedResult
       => disk'[3] = disk[3]]_vars

(* A run that is started ends: retries, repairs and windows run out.       *)
RunEnds == pc # "stopped" ~> pc = "stopped"
=============================================================================
