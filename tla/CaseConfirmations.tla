-------------------------- MODULE CaseConfirmations --------------------------
(***************************************************************************)
(* Confirmations of changes to a case library (memory-mcp, case_service.rs): *)
(* a prepare tool stages an upload, an update or a deletion and returns a     *)
(* token, and a final tool called with that token carries the change out.    *)
(*                                                                          *)
(* Staged changes are kept in memory and expire; what was carried out is in   *)
(* the business database, where a task bears the token as its id.  Handlers   *)
(* run in parallel and await between their steps.                            *)
(*                                                                          *)
(* One document of one library that every principal may use.  The file and    *)
(* the index of the document are those of CaseStore; here a step on them      *)
(* succeeds or fails.  The HTTP server lets MaxInFlight calls of a tool by a   *)
(* principal run at a time (McpSessions).                                    *)
(***************************************************************************)
EXTENDS Naturals, Sequences, FiniteSets

CONSTANTS
  Principals,  \* who may call: a tenant, a user and an agent
  Handlers,    \* calls of a final tool that can be under way at the same time
  None,        \* no token, no document, no task
  MaxInFlight, \* max_in_flight_per_principal_tool
  MaxPending,  \* MAX_PENDING_CASE_CONFIRMATIONS
  MaxTokens,   \* bound on tokens ever issued
  MaxApplied,  \* bound on changes ever carried out
  MaxMishaps   \* bound on failing steps, on handlers that stop and on restarts

ASSUME LimitsAreNaturals ==
  /\ MaxInFlight \in Nat
  /\ MaxPending \in Nat
  /\ MaxTokens \in Nat
  /\ MaxApplied \in Nat
  /\ MaxMishaps \in Nat
ASSUME HandlersAreFinite == IsFiniteSet(Handlers)
ASSUME NoneIsNobody ==
  None \notin Principals \cup Nat \cup {"pending", "running", "completed"}

VARIABLES
  pending,  \* pending[t]: the staged change of token t
  expired,  \* tokens older than CASE_CONFIRMATION_TTL
  document, \* the token whose content the document has; None without document
  tasks,    \* tasks[t]: the status of the ingestion task with id t
  handler,  \* handler[h]: the call h and how far it is
  log,      \* the tokens in the order in which their changes were carried out
  settled,  \* history: tokens whose caller was told that they are used up
  retried,  \* history: tokens whose caller was told to try again
  overlapped, \* history: tokens that two calls have worked on at a time
  counts    \* tokens issued so far, and what went wrong

library == <<document, tasks, log>>
histories == <<settled, retried, overlapped>>
vars == <<pending, expired, library, handler, histories, counts>>

Tokens == 1 .. MaxTokens
Operations == {"upload", "update", "delete"}
ASSUME NoneIsNoChange == None \notin [owner: Principals, op: Operations, executing: BOOLEAN]
Waiting == [pc |-> "idle", token |-> None, who |-> None, op |-> "none", result |-> "none"]
Staged == {t \in Tokens : pending[t] # None}

Init ==
  /\ pending = [t \in Tokens |-> None]
  /\ expired = {}
  /\ document = None
  /\ tasks = [t \in Tokens |-> None]
  /\ handler = [h \in Handlers |-> Waiting]
  /\ log = <<>>
  /\ settled = {} /\ retried = {} /\ overlapped = {}
  /\ counts = [tokens |-> 0, mishaps |-> 0]

Step(h, pc) == handler[h].pc = pc

(* The calls that work on the change of t, from their begin_confirmed_mutation *)
(* to their finish_confirmed_mutation.                                      *)
Executors(t) ==
  {h \in Handlers : handler[h].token = t /\ handler[h].pc \in {"check", "apply", "tidy", "finish"}}

Mishap ==
  /\ counts.mishaps < MaxMishaps
  /\ counts' = [counts EXCEPT !.mishaps = @ + 1]

-----------------------------------------------------------------------------
(* store_pending_mutation: expired changes leave first, also those that are   *)
(* being carried out.                                                       *)
Unexpired == [t \in Tokens |-> IF t \in expired THEN None ELSE pending[t]]

Prepare(p, op) ==
  LET t == counts.tokens + 1 IN
  /\ t \in Tokens
  /\ op = "upload" <=> document = None
  /\ Cardinality(Staged \ expired) < MaxPending
  /\ pending' = [Unexpired EXCEPT ![t] = [owner |-> p, op |-> op, executing |-> FALSE]]
  /\ counts' = [counts EXCEPT !.tokens = t]
  /\ UNCHANGED <<expired, library, handler, histories>>

(* A call that is refused, by a full table or for its token, sweeps as well.  *)
Sweep ==
  /\ Staged \cap expired # {}
  /\ pending' = Unexpired
  /\ UNCHANGED <<expired, library, handler, histories, counts>>

Expire(t) ==
  /\ t \in Staged \ expired
  /\ expired' = expired \cup {t}
  /\ UNCHANGED <<pending, library, handler, histories, counts>>

-----------------------------------------------------------------------------
(* Mutant of MayBegin. *)
MayBeginExecuting(p, t) ==
  /\ t \in Staged \ expired
  /\ pending[t].owner = p

(* begin_confirmed_mutation.                                                *)
MayBegin(p, t) ==
  /\ t \in Staged \ expired
  /\ pending[t].owner = p
  /\ ~pending[t].executing

(* try_acquire_tool of the HTTP server, for the tool of the change.          *)
PermitFree(p, op) ==
  Cardinality({h \in Handlers : handler[h].who = p /\ handler[h].op = op}) < MaxInFlight

Begin(h, p, t) ==
  /\ Step(h, "idle")
  /\ MayBegin(p, t)
  /\ PermitFree(p, pending[t].op)
  /\ pending' = [Unexpired EXCEPT ![t].executing = TRUE]
  /\ handler' = [handler EXCEPT ![h] =
       [pc |-> "check", token |-> t, who |-> p, op |-> pending[t].op, result |-> "none"]]
  /\ overlapped' = overlapped \cup {u \in {t} : Executors(t) # {}}
  /\ UNCHANGED <<expired, library, settled, retried, counts>>

Conclude(h, result) ==
  handler' = [handler EXCEPT ![h].pc = "finish", ![h].result = result]

(* Mutant of CarriedOut. *)
CarriedOutUnknown(h) == handler[h].op = "delete" /\ document = None

(* execute_upload and execute_update know a change that was carried out by    *)
(* its task, and execute_delete by the missing document.                     *)
CarriedOut(h) ==
  IF handler[h].op = "delete" THEN document = None ELSE tasks[handler[h].token] # None

Check(h) ==
  /\ Step(h, "check")
  /\ \/ /\ CarriedOut(h)
        /\ Conclude(h, "done")
     \/ /\ ~CarriedOut(h)
        /\ handler[h].op = "upload" <=> document = None
        /\ handler' = [handler EXCEPT ![h].pc = "apply"]
     \/ /\ ~CarriedOut(h)
        /\ handler[h].op = "upload" <=> document # None
        /\ Conclude(h, "refused")
  /\ UNCHANGED <<pending, expired, library, histories, counts>>

Applied(t) ==
  /\ Len(log) < MaxApplied
  /\ log' = Append(log, t)

(* create_document_with_task: refused by the key of the document or the task. *)
ApplyUpload(h) ==
  LET t == handler[h].token IN
  /\ Step(h, "apply") /\ handler[h].op = "upload"
  /\ \/ /\ document = None /\ tasks[t] = None
        /\ document' = t
        /\ tasks' = [tasks EXCEPT ![t] = "pending"]
        /\ Applied(t)
        /\ Conclude(h, "done")
     \/ /\ document # None \/ tasks[t] # None
        /\ Conclude(h, "again")
        /\ UNCHANGED library
  /\ UNCHANGED <<pending, expired, histories, counts>>

(* update_document_with_task: tasks that wait make way for the new one.       *)
WithoutWaiting == [t \in Tokens |-> IF tasks[t] = "pending" THEN None ELSE tasks[t]]

ApplyUpdate(h) ==
  LET t == handler[h].token IN
  /\ Step(h, "apply") /\ handler[h].op = "update"
  /\ \/ /\ document # None /\ WithoutWaiting[t] = None
        /\ document' = t
        /\ tasks' = [WithoutWaiting EXCEPT ![t] = "pending"]
        /\ Applied(t)
        /\ handler' = [handler EXCEPT ![h].pc = "tidy"]
     \/ /\ document = None \/ WithoutWaiting[t] # None
        /\ Conclude(h, "again")
        /\ UNCHANGED library
  /\ UNCHANGED <<pending, expired, histories, counts>>

(* RagRepository::delete_document.                                          *)
ApplyDelete(h) ==
  /\ Step(h, "apply") /\ handler[h].op = "delete"
  /\ \/ /\ document # None
        /\ document' = None
        /\ tasks' = [t \in Tokens |-> None]
        /\ Applied(handler[h].token)
        /\ handler' = [handler EXCEPT ![h].pc = "tidy"]
     \/ /\ document = None
        /\ Conclude(h, "again")
        /\ UNCHANGED library
  /\ UNCHANGED <<pending, expired, histories, counts>>

(* After the transaction, the records of the index and the files.            *)
Tidy(h) ==
  /\ Step(h, "tidy")
  /\ Conclude(h, "done")
  /\ UNCHANGED <<pending, expired, library, histories, counts>>

(* A step fails with an error that map_embedded_service_error calls Unavailable. *)
Fail(h) ==
  /\ handler[h].pc \in {"check", "apply", "tidy"}
  /\ Mishap
  /\ Conclude(h, "again")
  /\ UNCHANGED <<pending, expired, library, histories>>

Released(t) ==
  IF pending[t] = None THEN pending ELSE [pending EXCEPT ![t].executing = FALSE]

(* Mutant of Finished. *)
FinishedKeepsToken(h) == Released(handler[h].token)

(* finish_confirmed_mutation: a retriable failure keeps the token.           *)
Finished(h) ==
  IF handler[h].result = "again"
  THEN Released(handler[h].token)
  ELSE [pending EXCEPT ![handler[h].token] = None]

Finish(h) ==
  /\ Step(h, "finish")
  /\ pending' = Finished(h)
  /\ LET told == {handler[h].token} IN
     \/ handler[h].result = "again" /\ retried' = retried \cup told /\ UNCHANGED settled
     \/ handler[h].result # "again" /\ settled' = settled \cup told /\ UNCHANGED retried
  /\ handler' = [handler EXCEPT ![h].pc = "guard"]
  /\ UNCHANGED <<expired, library, overlapped, counts>>

(* ConfirmationExecutionGuard::drop, on return ...                           *)
DropGuard(h) ==
  /\ Step(h, "guard")
  /\ pending' = Released(handler[h].token)
  /\ handler' = [handler EXCEPT ![h] = Waiting]
  /\ UNCHANGED <<expired, library, histories, counts>>

(* ... and when the handler is stopped while it awaits.                      *)
Abandon(h) ==
  /\ handler[h].pc \in {"apply", "tidy"}
  /\ Mishap
  /\ pending' = Released(handler[h].token)
  /\ handler' = [handler EXCEPT ![h] = Waiting]
  /\ UNCHANGED <<expired, library, histories>>

-----------------------------------------------------------------------------
(* The ingestion worker takes a task up, and completes it.                   *)
Ingest(t) ==
  /\ tasks[t] \in {"pending", "running"}
  /\ tasks' = [tasks EXCEPT ![t] = IF @ = "pending" THEN "running" ELSE "completed"]
  /\ UNCHANGED <<pending, expired, document, handler, log, histories, counts>>

(* The server starts again: what was staged is forgotten.                    *)
Restart ==
  /\ Mishap
  /\ pending' = [t \in Tokens |-> None]
  /\ handler' = [h \in Handlers |-> Waiting]
  /\ tasks' = [t \in Tokens |-> IF tasks[t] = "running" THEN "pending" ELSE tasks[t]]
  /\ UNCHANGED <<expired, document, log, histories>>

Proceed(h) ==
  \/ Check(h)
  \/ ApplyUpload(h)
  \/ ApplyUpdate(h)
  \/ ApplyDelete(h)
  \/ Tidy(h)
  \/ Finish(h)
  \/ DropGuard(h)

Next ==
  \/ \E p \in Principals, op \in Operations : Prepare(p, op)
  \/ \E h \in Handlers :
       \/ \E p \in Principals, t \in Tokens : Begin(h, p, t)
       \/ Proceed(h)
       \/ Fail(h)
       \/ Abandon(h)
  \/ \E t \in Tokens : Expire(t) \/ Ingest(t)
  \/ Sweep
  \/ Restart

Spec == Init /\ [][Next]_vars

-----------------------------------------------------------------------------
(* The variables keep to their types.                                       *)
TypeOK ==
  /\ pending \in [Tokens -> {None} \cup
       [owner: Principals, op: Operations, executing: BOOLEAN]]
  /\ expired \subseteq Tokens
  /\ document \in Tokens \cup {None}
  /\ tasks \in [Tokens -> {None, "pending", "running", "completed"}]
  /\ handler \in [Handlers ->
       [pc: {"idle", "check", "apply", "tidy", "finish", "guard"},
        token: Tokens \cup {None}, who: Principals \cup {None},
        op: Operations \cup {"none"}, result: {"none", "done", "refused", "again"}]]
  /\ log \in Seq(Tokens)
  /\ {settled, retried, overlapped} \subseteq SUBSET Tokens
  /\ counts \in [tokens: 0 .. MaxTokens, mishaps: 0 .. MaxMishaps]

(* Two calls work on a change at the same time only after one of the token    *)
(* was told to try again: its guard may then take the mark off that a second   *)
(* call has just set, and let a third one in.  And a token marked as executing *)
(* is worked on, whichever way calls end and tokens expire, so that none is    *)
(* blocked for good.                                                        *)
OneExecution ==
  /\ \A t \in Tokens : Cardinality(Executors(t)) > 1 => t \in retried
  /\ \A t \in Staged : pending[t].executing => Executors(t) # {}

(* An answer is true of what was done.  A retry that follows the change itself *)
(* does not repeat it, unless two calls worked on it at a time: between two     *)
(* times a change is carried out another one was.  And success is told only of  *)
(* an upload or update that was carried out.                                 *)
AnswersAreTrue ==
  /\ \A i \in DOMAIN log : i > 1 /\ log[i] = log[i - 1] => log[i] \in overlapped
  /\ \A h \in Handlers :
       handler[h].result = "done" /\ handler[h].op # "delete" =>
         \E i \in DOMAIN log : log[i] = handler[h].token

(* A token that was used up, by success or by a refusal, is used up: no call   *)
(* begins with it any more, and its change is carried out again only by a call *)
(* that overlapped the one that used it up.                                  *)
UsedUpStays ==
  [][\A t \in settled :
       /\ Executors(t)' \subseteq Executors(t)
       /\ log' = Append(log, t) => t \in overlapped]_vars
=============================================================================
