------------------------------ MODULE CaseStore ------------------------------
(***************************************************************************)
(* The case store of memory-cases: documents kept as files and as rows of  *)
(* the business database, the worker that cuts them into chunks and indexes *)
(* the chunks, and the rebuild that replaces the index by a fresh one.      *)
(*                                                                          *)
(* Files, rows and index are three stores without a common transaction.     *)
(* Handlers and the worker hold the read side of two locks for as long as   *)
(* they run, so they exclude a rebuild but not each other: each action below *)
(* is one file operation, one transaction or one call of the index.         *)
(*                                                                          *)
(* One dataset, which exists; the business database is never lost.          *)
(***************************************************************************)
EXTENDS Naturals, Sequences, FiniteSets

CONSTANTS
  Docs,        \* document ids
  Paths,       \* the file names a document may be given
  Contents,    \* what a file may hold
  Parts,       \* Parts[c]: the number of chunks content c is cut into
  Unreadable,  \* the contents the parser refuses
  Writers,     \* requests that can be under way at the same time
  None,        \* no file, no row, no task
  Retained,    \* finished rebuilds that stay known (RETAINED_TERMINAL_INDEX_REBUILDS)
  MaxTasks,    \* bound on ingestion tasks ever created
  MaxRebuilds, \* bound on rebuilds ever started
  MaxMishaps,  \* bound on steps that fail and on crashes
  MaxLosses    \* bound on losses of the index

ASSUME PartsAreCounts == Parts \in [Contents -> Nat]
ASSUME UnreadableIsContent == Unreadable \subseteq Contents
ASSUME NoneIsNothing == None \notin Docs \cup Paths \cup Contents
ASSUME NoneIsNoRow ==
  LET statuses == {"uploaded", "pending", "running", "completed", "failed"}
  IN  /\ None \notin [path: Paths, status: statuses, count: Nat]
      /\ None \notin [doc: Docs, status: statuses]
ASSUME WritersAreFinite == IsFiniteSet(Writers)
ASSUME BoundsAreNaturals ==
  /\ Retained \in Nat
  /\ MaxTasks \in Nat
  /\ MaxRebuilds \in Nat
  /\ MaxMishaps \in Nat
  /\ MaxLosses \in Nat

VARIABLES
  file,     \* file[d][p]: what the file p of document d holds
  row,      \* row[d]: the row of rag_documents
  chunks,   \* chunks[d]: the content the rows of rag_chunks were cut from
  tasks,    \* tasks[t]: the row of rag_tasks of the t-th task
  index,    \* the records of the index; None while its database is missing
  writer,   \* writer[w]: the request w and how far it is
  worker,   \* the ingestion worker
  rebuild,  \* the rebuild under way
  temp,     \* the records of the temporary index database
  history,  \* IndexRebuildStatusStore: the rebuilds still known
  search,   \* TRUE while a search is between its two halves
  ahead,    \* documents whose file was written for a row that never came
  counts    \* tasks and rebuilds created so far, what went wrong, and whether
            \* the worker left a task running or failed behind

vars == <<file, row, chunks, tasks, index, writer, worker, rebuild, temp,
          history, search, ahead, counts>>

stores == <<file, row, chunks, tasks>>
gate == <<rebuild, temp, history>>

TaskIds == 1 .. MaxTasks
MaxParts == CHOOSE n \in {Parts[c] : c \in Contents} :
              \A c \in Contents : Parts[c] <= n

-----------------------------------------------------------------------------
(* The index.  A record's id is its document with the number of its chunk,  *)
(* or 0 for the summary of the document.                                    *)
Record == [doc: Docs, part: 0 .. MaxParts, content: Contents]

RecordsOf(d, c) ==
  IF Parts[c] = 0 THEN {}
  ELSE [doc: {d}, part: 0 .. Parts[c], content: {c}]

Upsert(old, new) ==
  {r \in old : \A n \in new : <<r.doc, r.part>> # <<n.doc, n.part>>} \cup new

RecordsOfRows ==
  UNION {RecordsOf(d, chunks[d]) : d \in {e \in Docs : chunks[e] # None}}

-----------------------------------------------------------------------------
(* The locks.  A handler's session holds the read sides of index_mutations   *)
(* and index_access, a search only that of index_access; a rebuild that      *)
(* waits for a write side keeps new readers out, as tokio's lock does.       *)
HoldsSession(pc) == pc \notin {"idle", "recover"}

(* Mutant of Sessions. *)
SessionsOfWriters == {w \in Writers : HoldsSession(writer[w].pc)}

Sessions ==
  {w \in Writers : HoldsSession(writer[w].pc)}
    \cup (IF HoldsSession(worker.pc) THEN {"worker"} ELSE {})

RebuildWaits == rebuild.pc \in {"lock", "scan", "check", "swap"}
RebuildHolds == rebuild.pc \in {"scan", "check", "swap"}

AccessFree == ~search

MaySession == ~RebuildWaits /\ index # None
MaySearch == rebuild.pc # "swap" /\ index # None

-----------------------------------------------------------------------------
Idle == [pc |-> "idle", op |-> "none", doc |-> None, path |-> None,
         old |-> None, content |-> None, seen |-> {}]

Resting == [pc |-> "idle", task |-> 0, doc |-> None, path |-> None,
            content |-> None, missing |-> FALSE]

NoRebuild == [pc |-> "none", id |-> 0]

Init ==
  /\ file = [d \in Docs |-> [p \in Paths |-> None]]
  /\ row = [d \in Docs |-> None]
  /\ chunks = [d \in Docs |-> None]
  /\ tasks = [t \in TaskIds |-> None]
  /\ index = {}
  /\ writer = [w \in Writers |-> Idle]
  /\ worker = Resting
  /\ rebuild = NoRebuild
  /\ temp = {}
  /\ history = <<>>
  /\ search = FALSE
  /\ ahead = {}
  /\ counts = [tasks |-> 0, rebuilds |-> 0, mishaps |-> 0, losses |-> 0,
               unrecovered |-> FALSE]

-----------------------------------------------------------------------------
(* create_document, update_document and delete_document.                    *)

StartWrite(w, request) ==
  /\ writer[w].pc = "idle"
  /\ writer' = [writer EXCEPT ![w] = request]
  /\ UNCHANGED <<stores, index, worker, gate, search, ahead, counts>>

(* A request that may add a task starts only while MaxTasks leaves room.    *)
RoomForTask ==
  counts.tasks + Cardinality({w \in Writers : writer[w].pc \in {"file", "row"}})
    < MaxTasks

StartCreate(w, d, p, c) ==
  /\ MaySession
  /\ RoomForTask
  /\ StartWrite(w, [Idle EXCEPT !.pc = "file", !.op = "create", !.doc = d,
                                !.path = p, !.content = c])

(* The row is read before anything is written, and its path remembered.     *)
StartUpdate(w, d, p, c) ==
  /\ MaySession
  /\ RoomForTask
  /\ row[d] # None
  /\ StartWrite(w, [Idle EXCEPT !.pc = "file", !.op = "update", !.doc = d,
                                !.path = p, !.content = c, !.old = row[d].path])

(* An update of the name alone keeps the path it has read.                  *)
StartRename(w, d) ==
  /\ MaySession
  /\ RoomForTask
  /\ row[d] # None
  /\ StartWrite(w, [Idle EXCEPT !.pc = "row", !.op = "rename", !.doc = d,
                                !.path = row[d].path, !.old = row[d].path])

StartDelete(w, d) ==
  /\ MaySession
  /\ row[d] # None
  /\ StartWrite(w, [Idle EXCEPT !.pc = "list", !.op = "delete", !.doc = d,
                                !.old = row[d].path])

(* A file of the same name is overwritten where it is.                      *)
WriteFile(w) ==
  LET r == writer[w] IN
  /\ r.pc = "file"
  /\ file' = [file EXCEPT ![r.doc][r.path] = r.content]
  /\ writer' = [writer EXCEPT ![w].pc = "row"]
  /\ UNCHANGED <<row, chunks, tasks, index, worker, gate, search, ahead, counts>>

(* What the request leaves behind when it ends early: a file that was        *)
(* written for a row that was not.                                          *)
GiveUp(w) ==
  LET r == writer[w] IN
  /\ writer' = [writer EXCEPT ![w] = Idle]
  /\ ahead' = IF r.pc = "row" /\ r.op # "rename" THEN ahead \cup {r.doc} ELSE ahead

NewTask(d) == [doc |-> d, status |-> "pending"]
Uploaded(p) == [path |-> p, status |-> "uploaded", count |-> 0]

(* Mutant of AddTask. *)
AddTaskOnce(d, others) ==
  /\ counts' = [counts EXCEPT !.tasks = @ + 1]
  /\ tasks' = IF \E t \in TaskIds : others[t] = [doc |-> d, status |-> "running"]
              THEN others
              ELSE [others EXCEPT ![counts.tasks + 1] = NewTask(d)]

AddTask(d, others) ==
  /\ counts' = [counts EXCEPT !.tasks = @ + 1]
  /\ tasks' = [others EXCEPT ![counts.tasks + 1] = NewTask(d)]

(* RagRepository::create_document_with_task: refused if the id is taken.     *)
CommitCreate(w) ==
  LET r == writer[w] IN
  /\ r.pc = "row" /\ r.op = "create"
  /\ \/ /\ row[r.doc] = None
        /\ row' = [row EXCEPT ![r.doc] = Uploaded(r.path)]
        /\ AddTask(r.doc, tasks)
        /\ writer' = [writer EXCEPT ![w] = Idle]
        /\ ahead' = ahead \ {r.doc}
     \/ /\ row[r.doc] # None
        /\ GiveUp(w)
        /\ UNCHANGED <<row, tasks, counts>>
  /\ UNCHANGED <<file, chunks, index, worker, gate, search>>

(* RagRepository::update_document_with_task: the chunks go, and so do the    *)
(* tasks that wait, but not one that runs.                                  *)
WithoutPending(d) ==
  [t \in TaskIds |-> IF tasks[t] = NewTask(d) THEN None ELSE tasks[t]]

CommitUpdate(w) ==
  LET r == writer[w] IN
  /\ r.pc = "row" /\ r.op \in {"update", "rename"}
  /\ \/ /\ row[r.doc] # None
        /\ row' = [row EXCEPT ![r.doc] = Uploaded(r.path)]
        /\ chunks' = [chunks EXCEPT ![r.doc] = None]
        /\ AddTask(r.doc, WithoutPending(r.doc))
        /\ writer' = [writer EXCEPT ![w].pc = "list"]
        /\ ahead' = ahead \ {r.doc}
     \/ /\ row[r.doc] = None
        /\ GiveUp(w)
        /\ UNCHANGED <<row, chunks, tasks, counts>>
  /\ UNCHANGED <<file, index, worker, gate, search>>

(* MemoryManager::delete_by_filters reads every record of the index, ...     *)
ListRecords(w) ==
  LET r == writer[w] IN
  /\ r.pc = "list"
  /\ index # None
  /\ writer' = [writer EXCEPT ![w].pc = "replace", ![w].seen = index]
  /\ UNCHANGED <<stores, index, worker, gate, search, ahead, counts>>

(* ... and, if any is the document's, writes back all the others it has read. *)
Survivors(w) == {r \in writer[w].seen : r.doc # writer[w].doc}

ReplaceRecords(w) ==
  LET r == writer[w] IN
  /\ r.pc = "replace"
  /\ index # None
  /\ index' = IF Survivors(w) = r.seen THEN index ELSE Survivors(w)
  /\ writer' = [writer EXCEPT ![w].pc = IF r.op = "delete" THEN "row" ELSE "tidy",
                              ![w].seen = {}]
  /\ UNCHANGED <<stores, worker, gate, search, ahead, counts>>

(* RagRepository::delete_document.                                          *)
CommitDelete(w) ==
  LET r == writer[w] IN
  /\ r.pc = "row" /\ r.op = "delete"
  /\ \/ /\ row[r.doc] # None
        /\ row' = [row EXCEPT ![r.doc] = None]
        /\ chunks' = [chunks EXCEPT ![r.doc] = None]
        /\ tasks' = [t \in TaskIds |->
             IF tasks[t] # None /\ tasks[t].doc = r.doc THEN None ELSE tasks[t]]
        /\ writer' = [writer EXCEPT ![w].pc = "tidy"]
     \/ /\ row[r.doc] = None
        /\ writer' = [writer EXCEPT ![w] = Idle]
        /\ UNCHANGED <<row, chunks, tasks>>
  /\ UNCHANGED <<file, index, worker, gate, search, ahead, counts>>

(* remove_replaced_file and remove_document_file_dir.                       *)
RemoveFiles(w) ==
  LET r == writer[w]
      gone == IF r.op = "delete" THEN Paths ELSE {r.old} \ {r.path}
  IN
  /\ r.pc = "tidy"
  /\ file' = [file EXCEPT ![r.doc] =
                [p \in Paths |-> IF p \in gone THEN None ELSE @[p]]]
  /\ writer' = [writer EXCEPT ![w] = Idle]
  /\ UNCHANGED <<row, chunks, tasks, index, worker, gate, search, ahead, counts>>

Mishap ==
  /\ counts.mishaps < MaxMishaps
  /\ counts' = [counts EXCEPT !.mishaps = @ + 1]

(* The request ends with an error: a file or database operation fails, or    *)
(* its client goes away, which drops the future at its next await.           *)
FailWrite(w) ==
  /\ writer[w].pc # "idle"
  /\ Mishap
  /\ GiveUp(w)
  /\ UNCHANGED <<stores, index, worker, gate, search>>

(* The index is gone: the request ends, whatever it has done so far stays.   *)
MissIndex(w) ==
  /\ writer[w].pc \in {"list", "replace"}
  /\ index = None
  /\ GiveUp(w)
  /\ UNCHANGED <<stores, index, worker, gate, search, counts>>

-----------------------------------------------------------------------------
(* run_until_cancelled and run_next_ingestion_task.                         *)

Pending == {t \in TaskIds : tasks[t] # None /\ tasks[t].status = "pending"}
Oldest(t) == t \in Pending /\ \A u \in Pending : t <= u

SetStatus(t, s) ==
  tasks' = [tasks EXCEPT ![t] = IF @ = None THEN None ELSE [@ EXCEPT !.status = s]]
SetDocument(d, s) ==
  row' = [row EXCEPT ![d] = IF @ = None THEN None ELSE [@ EXCEPT !.status = s]]

LeaseTask ==
  /\ worker.pc = "idle"
  /\ MaySession
  /\ \E t \in TaskIds :
     /\ Oldest(t)
     /\ SetStatus(t, "running")
     /\ SetDocument(tasks[t].doc, "running")
     /\ worker' = [Resting EXCEPT !.pc = "read", !.task = t, !.doc = tasks[t].doc]
  /\ UNCHANGED <<file, chunks, index, writer, gate, search, ahead, counts>>

ReadRow ==
  /\ worker.pc = "read"
  /\ worker' = IF row[worker.doc] = None
               THEN [worker EXCEPT !.pc = "fail"]
               ELSE [worker EXCEPT !.pc = "parse", !.path = row[worker.doc].path]
  /\ UNCHANGED <<stores, index, writer, gate, search, ahead, counts>>

(* build_chunks_from_file reads the file as it now is.                      *)
ParseFile ==
  LET c == file[worker.doc][worker.path] IN
  /\ worker.pc = "parse"
  /\ worker' = IF c \in {None} \cup Unreadable
               THEN [worker EXCEPT !.pc = "fail"]
               ELSE [worker EXCEPT !.pc = "store", !.content = c]
  /\ UNCHANGED <<stores, index, writer, gate, search, ahead, counts>>

(* replace_chunks; a chunk of a document without a row breaks a foreign key. *)
StoreChunks ==
  /\ worker.pc = "store"
  /\ \/ /\ row[worker.doc] # None \/ Parts[worker.content] = 0
        /\ chunks' = [chunks EXCEPT ![worker.doc] =
             IF Parts[worker.content] = 0 THEN None ELSE worker.content]
        /\ worker' = [worker EXCEPT !.pc = "embed"]
     \/ /\ row[worker.doc] = None /\ Parts[worker.content] > 0
        /\ worker' = [worker EXCEPT !.pc = "fail"]
        /\ UNCHANGED chunks
  /\ UNCHANGED <<file, row, tasks, index, writer, gate, search, ahead, counts>>

(* MemoryManager::add_many: records of the same id are replaced, others of   *)
(* the document stay.                                                       *)
IndexChunks ==
  /\ worker.pc = "embed"
  /\ \/ /\ index # None
        /\ index' = Upsert(index, RecordsOf(worker.doc, worker.content))
        /\ worker' = [worker EXCEPT !.pc = "finish"]
     \/ /\ index = None
        /\ worker' = [worker EXCEPT !.pc = "fail", !.missing = TRUE]
        /\ UNCHANGED index
  /\ UNCHANGED <<stores, writer, gate, search, ahead, counts>>

(* complete_task asks neither whether the task still is nor whether the      *)
(* document has changed.                                                    *)
CompleteTask ==
  LET d == worker.doc IN
  /\ worker.pc = "finish"
  /\ SetStatus(worker.task, "completed")
  /\ row' = [row EXCEPT ![d] =
       IF @ = None THEN None
       ELSE [@ EXCEPT !.status = "completed", !.count = Parts[worker.content]]]
  /\ worker' = Resting
  /\ UNCHANGED <<file, chunks, index, writer, gate, search, ahead, counts>>

(* A step fails: parsing, embedding, or a transaction.  A failing lease or    *)
(* complete_task, and a fail_task that fails itself, whatever it was to       *)
(* report, are errors of the task and lead straight to the recovery.         *)
FailIngest ==
  /\ \/ worker.pc \in {"read", "parse", "store", "embed", "finish", "fail"}
     \/ worker.pc = "idle" /\ MaySession
  /\ Mishap
  /\ worker' = IF worker.pc \in {"idle", "finish", "fail"}
               THEN [worker EXCEPT !.pc = "recover"]
               ELSE [worker EXCEPT !.pc = "fail",
                                   !.missing = worker.pc = "embed" /\ index = None]
  /\ UNCHANGED <<stores, index, writer, gate, search, ahead>>

(* An error that says the index is missing asks for no recovery.             *)
Failed ==
  \/ /\ worker.missing
     /\ worker' = Resting
     /\ counts' = [counts EXCEPT !.unrecovered = TRUE]
  \/ /\ ~worker.missing
     /\ worker' = [worker EXCEPT !.pc = "recover"]
     /\ UNCHANGED counts

(* Mutant of FailTask. *)
FailTaskForgets ==
  /\ worker.pc = "fail"
  /\ tasks' = [tasks EXCEPT ![worker.task] = None]
  /\ SetDocument(worker.doc, "failed")
  /\ Failed
  /\ UNCHANGED <<file, chunks, index, writer, gate, search, ahead>>

FailTask ==
  /\ worker.pc = "fail"
  /\ SetStatus(worker.task, "failed")
  /\ SetDocument(worker.doc, "failed")
  /\ Failed
  /\ UNCHANGED <<file, chunks, index, writer, gate, search, ahead>>

(* Mutant of Unfinished. *)
UnfinishedRunning == {t \in TaskIds : tasks[t] # None /\ tasks[t].status = "running"}

(* recover_running_tasks: what ran and what failed is pending once more.     *)
Unfinished == {t \in TaskIds : tasks[t] # None /\ tasks[t].status \in {"running", "failed"}}

Recovered ==
  /\ tasks' = [t \in TaskIds |->
       IF t \in Unfinished THEN NewTask(tasks[t].doc) ELSE tasks[t]]
  /\ row' = [d \in Docs |->
       IF row[d] # None /\ \E t \in Unfinished : tasks[t].doc = d
       THEN [row[d] EXCEPT !.status = "uploaded"] ELSE row[d]]

Recover ==
  /\ worker.pc = "recover"
  /\ Recovered
  /\ worker' = Resting
  /\ counts' = [counts EXCEPT !.unrecovered = FALSE]
  /\ UNCHANGED <<file, chunks, index, writer, gate, search, ahead>>

(* A recovery that fails is logged, and the worker goes on.                  *)
FailRecovery ==
  /\ worker.pc = "recover"
  /\ counts.mishaps < MaxMishaps
  /\ counts' = [counts EXCEPT !.mishaps = @ + 1, !.unrecovered = TRUE]
  /\ worker' = Resting
  /\ UNCHANGED <<stores, index, writer, gate, search, ahead>>

-----------------------------------------------------------------------------
(* start_index_rebuild and run_index_rebuild.                               *)

Active(s) == s.state \in {"queued", "running"}

(* prune_terminal_history; the history is in the order of the rebuilds.      *)
Pruned(h) ==
  SelectSeq(h, LAMBDA s :
    \/ Active(s)
    \/ Cardinality({i \in DOMAIN h : ~Active(h[i]) /\ h[i].id >= s.id}) <= Retained)

Report(id, s) ==
  history' = Pruned([i \in DOMAIN history |->
    IF history[i].id = id THEN [history[i] EXCEPT !.state = s] ELSE history[i]])

StartRebuild ==
  LET id == counts.rebuilds + 1 IN
  /\ counts.rebuilds < MaxRebuilds
  /\ \A i \in DOMAIN history : ~Active(history[i])
  /\ history' = Pruned(Append(history, [id |-> id, state |-> "queued"]))
  /\ rebuild' = [pc |-> "queued", id |-> id]
  /\ counts' = [counts EXCEPT !.rebuilds = id]
  /\ UNCHANGED <<stores, index, writer, worker, temp, search, ahead>>

BeginRebuild ==
  /\ rebuild.pc = "queued"
  /\ Report(rebuild.id, "running")
  /\ rebuild' = [rebuild EXCEPT !.pc = "lock"]
  /\ UNCHANGED <<stores, index, writer, worker, temp, search, ahead, counts>>

(* index_mutations.write().                                                 *)
LockMutations ==
  /\ rebuild.pc = "lock"
  /\ Sessions = {}
  /\ rebuild' = [rebuild EXCEPT !.pc = "scan"]
  /\ temp' = {}
  /\ UNCHANGED <<stores, index, writer, worker, history, search, ahead, counts>>

FillTemp ==
  /\ rebuild.pc = "scan"
  /\ temp' = Upsert(temp, RecordsOfRows)
  /\ rebuild' = [rebuild EXCEPT !.pc = "check"]
  /\ UNCHANGED <<stores, index, writer, worker, history, search, ahead, counts>>

(* checkpoint_and_validate_index_database counts what was written.          *)
CheckTemp ==
  /\ rebuild.pc = "check"
  /\ \/ /\ Cardinality(temp) = Cardinality(RecordsOfRows)
        /\ rebuild' = [rebuild EXCEPT !.pc = "swap"]
        /\ UNCHANGED temp
     \/ /\ Cardinality(temp) # Cardinality(RecordsOfRows)
        /\ rebuild' = [rebuild EXCEPT !.pc = "failed"]
        /\ temp' = {}
  /\ UNCHANGED <<stores, index, writer, worker, history, search, ahead, counts>>

(* index_access.write() and atomically_replace_index_database; both locks    *)
(* are released on return.                                                  *)
SwapIndex ==
  /\ rebuild.pc = "swap"
  /\ AccessFree
  /\ index' = temp
  /\ temp' = {}
  /\ rebuild' = [rebuild EXCEPT !.pc = "completed"]
  /\ UNCHANGED <<stores, writer, worker, history, search, ahead, counts>>

FailRebuild ==
  /\ RebuildHolds
  /\ Mishap
  /\ temp' = {}
  /\ rebuild' = [rebuild EXCEPT !.pc = "failed"]
  /\ UNCHANGED <<stores, index, writer, worker, history, search, ahead>>

FinishRebuild ==
  /\ rebuild.pc \in {"completed", "failed"}
  /\ Report(rebuild.id, rebuild.pc)
  /\ rebuild' = NoRebuild
  /\ UNCHANGED <<stores, index, writer, worker, temp, search, ahead, counts>>

(* Mutant of PanicRebuild. *)
PanicRebuildSilent ==
  /\ rebuild.pc # "none"
  /\ Mishap
  /\ rebuild' = NoRebuild
  /\ UNCHANGED <<stores, index, writer, worker, temp, history, search, ahead>>

(* The task panics: the guards release the locks, RebuildTaskGuard the gate; *)
(* the temporary database stays where it is.                                *)
PanicRebuild ==
  /\ rebuild.pc # "none"
  /\ Mishap
  /\ Report(rebuild.id, "failed")
  /\ rebuild' = NoRebuild
  /\ UNCHANGED <<stores, index, writer, worker, temp, search, ahead>>

-----------------------------------------------------------------------------
(* search_dataset: a hybrid search reads the index twice, by similarity and  *)
(* by words, under index_access alone.                                      *)
BeginSearch ==
  /\ ~search
  /\ MaySearch
  /\ search' = TRUE
  /\ UNCHANGED <<stores, index, writer, worker, gate, ahead, counts>>

EndSearch ==
  /\ search
  /\ search' = FALSE
  /\ UNCHANGED <<stores, index, writer, worker, gate, ahead, counts>>

-----------------------------------------------------------------------------
(* The database file of the index disappears.                               *)
LoseIndex ==
  /\ index # None
  /\ counts.losses < MaxLosses
  /\ counts' = [counts EXCEPT !.losses = @ + 1]
  /\ index' = None
  /\ UNCHANGED <<stores, writer, worker, gate, search, ahead>>

(* build_service on a start: a missing index is created only if there is     *)
(* nothing it would have to hold.                                           *)
IndexAtStart ==
  IF index = None /\ \A d \in Docs : chunks[d] = None THEN {} ELSE index

(* The process dies and starts again: files, rows and index stay, the rest   *)
(* is forgotten, and interrupted tasks are put back.                        *)
Restart ==
  /\ counts.mishaps < MaxMishaps
  /\ counts' = [counts EXCEPT !.mishaps = @ + 1, !.unrecovered = FALSE]
  /\ index' = IndexAtStart
  /\ Recovered
  /\ writer' = [w \in Writers |-> Idle]
  /\ worker' = Resting
  /\ rebuild' = NoRebuild
  /\ history' = <<>>
  /\ search' = FALSE
  /\ ahead' = ahead \cup
       {writer[w].doc : w \in {v \in Writers :
          writer[v].pc = "row" /\ writer[v].op \in {"create", "update"}}}
  /\ UNCHANGED <<file, chunks, temp>>

-----------------------------------------------------------------------------
WriterStep(w) ==
  \/ WriteFile(w)
  \/ CommitCreate(w)
  \/ CommitUpdate(w)
  \/ ListRecords(w)
  \/ ReplaceRecords(w)
  \/ CommitDelete(w)
  \/ RemoveFiles(w)
  \/ MissIndex(w)

NewRequest(w) ==
  \E d \in Docs :
    \/ \E p \in Paths, c \in Contents : StartCreate(w, d, p, c) \/ StartUpdate(w, d, p, c)
    \/ StartRename(w, d)
    \/ StartDelete(w, d)

WorkerStep ==
  \/ LeaseTask
  \/ ReadRow
  \/ ParseFile
  \/ StoreChunks
  \/ IndexChunks
  \/ CompleteTask
  \/ FailTask
  \/ Recover

RebuildStep ==
  \/ BeginRebuild
  \/ LockMutations
  \/ FillTemp
  \/ CheckTemp
  \/ SwapIndex
  \/ FinishRebuild

Next ==
  \/ \E w \in Writers : NewRequest(w) \/ WriterStep(w) \/ FailWrite(w)
  \/ WorkerStep
  \/ FailIngest
  \/ FailRecovery
  \/ StartRebuild
  \/ RebuildStep
  \/ FailRebuild
  \/ PanicRebuild
  \/ BeginSearch
  \/ EndSearch
  \/ LoseIndex
  \/ Restart

(* What has been started goes on; nobody has to start anything, and nothing  *)
(* has to fail.                                                             *)
Fairness ==
  /\ \A w \in Writers : WF_vars(WriterStep(w))
  /\ WF_vars(WorkerStep)
  /\ WF_vars(RebuildStep)
  /\ WF_vars(EndSearch)

Spec == Init /\ [][Next]_vars
FairSpec == Spec /\ Fairness

-----------------------------------------------------------------------------
Outstanding(d) ==
  \E t \in TaskIds :
    tasks[t] # None /\ tasks[t].doc = d /\ tasks[t].status # "completed"

Quiet(d) == \A w \in Writers : writer[w].doc # d

(* Nobody forgets a document: as long as it is not completed, a task that    *)
(* the worker or a restart will take up is there for it, whatever updates,    *)
(* failures and restarts have made of its tasks.                             *)
NoForgottenDocument ==
  \A d \in Docs :
    row[d] # None /\ row[d].status # "completed" => Outstanding(d)

(* A document without work under way has the chunks of the file its row      *)
(* names, however an older ingestion of it overlapped its updates, unless a   *)
(* request wrote the file and then failed, or removed it under another one.   *)
IngestedIsCurrent ==
  \A d \in Docs :
    row[d] # None /\ Quiet(d) /\ ~Outstanding(d) =>
      LET c == file[d][row[d].path] IN
      \/ d \in ahead
      \/ c = None
      \/ /\ row[d].status = "completed"
         /\ row[d].count = Parts[c]
         /\ chunks[d] = IF Parts[c] = 0 THEN None ELSE c

(* The index is only ever replaced as a whole.  What a rebuild puts in place  *)
(* holds the records of the chunks then in the business database and no       *)
(* others, and comes between searches, never between the halves of one; and a *)
(* missing index is not replaced by an empty one that hides the loss.         *)
IndexReplacedWhole ==
  [][/\ rebuild.pc = "swap" /\ rebuild'.pc = "completed" =>
          index' = RecordsOfRows /\ chunks' = chunks /\ ~search
     /\ index = None /\ index' # None => index' = RecordsOfRows']_vars

(* A rebuild request is refused only for so long: a rebuild known as active   *)
(* ends, also one whose task panicked.                                       *)
RebuildGateOpens == []<>(\A i \in DOMAIN history : ~Active(history[i]))

Unusable(t) ==
  tasks[t] # None /\ row[tasks[t].doc] # None /\
  file[tasks[t].doc][row[tasks[t].doc].path] \in {None} \cup Unreadable

Settled(t) == tasks[t] = None \/ tasks[t].status = "completed"

(* No task stays open for ever, over failures of the ingestion, of fail_task  *)
(* and of the recovery, and over restarts: it is carried out or withdrawn,    *)
(* unless the index stays lost, some file cannot be ingested, or the worker   *)
(* left tasks behind - a recovery failed, or was not asked for because the     *)
(* index was missing - and neither an error nor a restart recovers them later. *)
TasksSettle ==
  \A t \in TaskIds :
    []<>(Settled(t) \/ index = None \/ counts.unrecovered \/ \E u \in TaskIds : Unusable(u))

(* README.md of ram-a-mem: the records are scoped "so update and delete flows *)
(* do not remove other memories in the same DB".  A flow that takes a         *)
(* document's records out of the index leaves those of the others.            *)
DeleteSparesOthers ==
  [][\A w \in Writers :
       writer[w].pc = "replace" /\ writer'[w].pc # "replace" /\ index' # None =>
         {r \in index : r.doc # writer[w].doc} \subseteq index']_vars
=============================================================================
