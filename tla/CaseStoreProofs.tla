--------------------------- MODULE CaseStoreProofs ---------------------------
(* The case store: what holds for any documents, contents and requests.      *)
EXTENDS CaseStore, FiniteSetTheorems, TLAPS

Statuses == {"uploaded", "pending", "running", "completed", "failed"}
Rows == [path: Paths, status: Statuses, count: Nat]
Tasks == [doc: Docs, status: Statuses]
AnyRecord == [doc: Docs, part: Nat, content: Contents]
Ops == {"none", "create", "update", "rename", "delete"}
Requests ==
  [pc: {"idle", "file", "row", "list", "replace", "tidy"}, op: Ops,
   doc: Docs \cup {None}, path: Paths \cup {None}, old: Paths \cup {None},
   content: Contents \cup {None}, seen: SUBSET AnyRecord]
Works ==
  [pc: {"idle", "read", "parse", "store", "embed", "finish", "fail", "recover"},
   task: Nat, doc: Docs \cup {None}, path: Paths \cup {None},
   content: Contents \cup {None}, missing: BOOLEAN]
Counts ==
  [tasks: Nat, rebuilds: Nat, mishaps: Nat, losses: Nat, unrecovered: BOOLEAN]

Typed ==
  /\ file \in [Docs -> [Paths -> Contents \cup {None}]]
  /\ row \in [Docs -> {None} \cup Rows]
  /\ chunks \in [Docs -> Contents \cup {None}]
  /\ tasks \in [TaskIds -> {None} \cup Tasks]
  /\ index = None \/ index \subseteq AnyRecord
  /\ temp \subseteq AnyRecord
  /\ writer \in [Writers -> Requests]
  /\ worker \in Works
  /\ rebuild \in [pc: {"none", "queued", "lock", "scan", "check", "swap", "completed", "failed"}, id: Nat]
  /\ search \in BOOLEAN
  /\ counts \in Counts

(* A request knows the document it is about, and the file it is to name.     *)
RequestsKnow ==
  \A w \in Writers :
    /\ writer[w].pc # "idle" => writer[w].doc \in Docs
    /\ writer[w].pc = "file" => writer[w].op \in {"create", "update"} /\ writer[w].content \in Contents
    /\ writer[w].pc \in {"file", "row"} /\ writer[w].op # "delete" => writer[w].path \in Paths

(* What a rebuild has collected is what it will put in place, as nobody can   *)
(* change the chunks it was collected from.                                  *)
RebuildAlone ==
  RebuildHolds => /\ \A w \in Writers : writer[w].pc = "idle"
                  /\ worker.pc \in {"idle", "recover"}
Collected ==
  /\ rebuild.pc = "scan" => temp = {}
  /\ rebuild.pc \in {"check", "swap"} => temp = RecordsOfRows

SInv == Typed /\ RequestsKnow /\ RebuildAlone /\ Collected

-----------------------------------------------------------------------------
(* There is room for the tasks of the requests under way.                    *)
Adders == {w \in Writers : writer[w].pc \in {"file", "row"} /\ writer[w].op # "delete"}
Room ==
  /\ counts.tasks + Cardinality(Adders) <= MaxTasks
  /\ \A t \in TaskIds : t > counts.tasks => tasks[t] = None

Busy == worker.pc \in {"read", "parse", "store", "embed", "finish", "fail"}
Open(t, d) == tasks[t] # None /\ tasks[t].doc = d /\ tasks[t].status # "completed"

(* The worker's task, if it still is, is about the worker's document, which   *)
(* nobody takes for completed meanwhile.                                     *)
WorkerKnows ==
  /\ Busy => /\ worker.task \in TaskIds /\ worker.task <= counts.tasks /\ worker.doc \in Docs
             /\ tasks[worker.task] # None => tasks[worker.task].doc = worker.doc
             /\ row[worker.doc] # None => row[worker.doc].status # "completed"
  /\ worker.pc \in {"parse", "store", "embed", "finish"} => worker.path \in Paths
  /\ worker.pc \in {"store", "embed", "finish"} => worker.content \in Contents

(* A file of d that was written for a row not yet there.                     *)
Unsettled(d) ==
  \E w \in Writers : writer[w].doc = d /\ writer[w].pc = "row" /\ writer[w].op \in {"create", "update"}

Cut(c) == IF Parts[c] = 0 THEN None ELSE c
Current(d, p, c) == Unsettled(d) \/ file[d][p] \in {None, c}

(* Unless the document has another task, the worker is at work on the file    *)
(* the row names and on what it holds.                                       *)
WorkIsCurrent ==
  worker.pc \in {"parse", "store", "embed", "finish"}
  /\ row[worker.doc] # None /\ worker.doc \notin ahead
  /\ (\A t \in TaskIds : Open(t, worker.doc) => t = worker.task) =>
       /\ row[worker.doc].path = worker.path
       /\ worker.pc # "parse" => Current(worker.doc, worker.path, worker.content)
       /\ worker.pc \in {"embed", "finish"} => chunks[worker.doc] = Cut(worker.content)

(* A document without a task is as its file is.                              *)
Rest(d) ==
  row[d] # None /\ d \notin ahead /\ (\A t \in TaskIds : ~Open(t, d)) =>
    \E c \in Contents \cup {None} :
      /\ Current(d, row[d].path, c)
      /\ c # None => chunks[d] = Cut(c) /\ row[d].count = Parts[c]
RestIsCurrent == \A d \in Docs : Rest(d)

TInv == Room /\ WorkerKnows /\ NoForgottenDocument /\ WorkIsCurrent /\ RestIsCurrent

-----------------------------------------------------------------------------
(* Types.                                                                    *)
LEMMA Records ==
  ASSUME Typed
  PROVE  /\ \A d \in Docs, c \in Contents : RecordsOf(d, c) \subseteq AnyRecord
         /\ RecordsOfRows \subseteq AnyRecord
  <1>1. ASSUME NEW d \in Docs, NEW c \in Contents PROVE RecordsOf(d, c) \subseteq AnyRecord
    <2>1. Parts[c] \in Nat /\ 0 .. Parts[c] \subseteq Nat
      BY PartsAreCounts
    <2> QED
      BY <2>1 DEF RecordsOf, AnyRecord
  <1>2. \A d \in Docs : chunks[d] # None => chunks[d] \in Contents
    BY DEF Typed
  <1> QED
    BY <1>1, <1>2 DEF RecordsOfRows

LEMMA Shapes ==
  /\ Idle \in Requests /\ Resting \in Works
  /\ \A d \in Docs : NewTask(d) \in Tasks
  /\ \A p \in Paths : Uploaded(p) \in Rows
  /\ \A r \in Rows : r # None
  /\ \A t \in Tasks : t # None
  <1>1. \A r \in Rows : r # None
    BY NoneIsNoRow DEF Rows, Statuses
  <1>2. \A t \in Tasks : t # None
    BY NoneIsNoRow DEF Tasks, Statuses
  <1> QED
    BY <1>1, <1>2 DEF Idle, Requests, Ops, Resting, Works, NewTask, Tasks, Uploaded, Rows, Statuses

LEMMA InitS == Init => SInv
  <1> SUFFICES ASSUME Init PROVE SInv
    OBVIOUS
  <1>1. Typed
    BY Shapes DEF Init, Typed, Counts, NoRebuild
  <1>2. RequestsKnow
    BY DEF Init, RequestsKnow, Idle
  <1>3. RebuildAlone /\ Collected
    BY DEF Init, RebuildAlone, Collected, NoRebuild, RebuildHolds
  <1> QED
    BY <1>1, <1>2, <1>3 DEF SInv

LEMMA MishapType ==
  ASSUME Typed, Mishap
  PROVE  counts' \in Counts /\ counts'.tasks = counts.tasks
  BY DEF Typed, Mishap, Counts

LEMMA StatusTypes ==
  ASSUME Typed, NEW s \in Statuses
  PROVE  /\ \A t \in TaskIds : SetStatus(t, s) => tasks' \in [TaskIds -> {None} \cup Tasks]
         /\ \A d \in Docs : SetDocument(d, s) => row' \in [Docs -> {None} \cup Rows]
  <1>1. ASSUME NEW t \in TaskIds, SetStatus(t, s) PROVE tasks' \in [TaskIds -> {None} \cup Tasks]
    <2>1. tasks[t] # None => [tasks[t] EXCEPT !.status = s] \in Tasks
      BY DEF Typed, Tasks
    <2> QED
      BY <1>1, <2>1 DEF SetStatus, Typed
  <1>2. ASSUME NEW d \in Docs, SetDocument(d, s) PROVE row' \in [Docs -> {None} \cup Rows]
    <2>1. row[d] # None => [row[d] EXCEPT !.status = s] \in Rows
      BY DEF Typed, Rows
    <2> QED
      BY <1>2, <2>1 DEF SetDocument, Typed
  <1> QED
    BY <1>1, <1>2

LEMMA RecoveredTypes ==
  ASSUME Typed, Recovered
  PROVE  tasks' \in [TaskIds -> {None} \cup Tasks] /\ row' \in [Docs -> {None} \cup Rows]
  <1>1. \A t \in Unfinished : t \in TaskIds /\ tasks[t].doc \in Docs
    BY DEF Unfinished, Typed, Tasks
  <1>2. \A d \in Docs : row[d] # None => [row[d] EXCEPT !.status = "uploaded"] \in Rows
    BY DEF Typed, Rows, Statuses
  <1> QED
    BY <1>1, <1>2, Shapes DEF Recovered, Typed

(* The steps of a request keep the types.                                    *)
LEMMA GiveUpType ==
  ASSUME Typed, NEW w \in Writers, GiveUp(w) PROVE writer' \in [Writers -> Requests]
  BY Shapes DEF Typed, GiveUp

LEMMA StartTypes ==
  ASSUME Typed, NEW w \in Writers, NewRequest(w) PROVE Typed'
  <1>1. PICK q : StartWrite(w, q) /\ q \in Requests
    <2>1. \A d \in Docs : row[d] # None => row[d].path \in Paths
      BY DEF Typed, Rows
    <2> QED
      <3>1. CASE \E d \in Docs, p \in Paths, c \in Contents : StartCreate(w, d, p, c)
        <4>1. PICK d \in Docs, p \in Paths, c \in Contents : StartCreate(w, d, p, c)
          BY <3>1
        <4>2. StartWrite(w, [Idle EXCEPT !.pc = "file", !.op = "create", !.doc = d, !.path = p, !.content = c])
          BY <4>1 DEF StartCreate
        <4>3. [Idle EXCEPT !.pc = "file", !.op = "create", !.doc = d, !.path = p, !.content = c] \in Requests
          BY <2>1, <4>1, Shapes DEF StartCreate, Requests, Ops
        <4> QED
          BY <4>2, <4>3
      <3>2. CASE \E d \in Docs, p \in Paths, c \in Contents : StartUpdate(w, d, p, c)
        <4>1. PICK d \in Docs, p \in Paths, c \in Contents : StartUpdate(w, d, p, c)
          BY <3>2
        <4>2. StartWrite(w, [Idle EXCEPT !.pc = "file", !.op = "update", !.doc = d, !.path = p, !.content = c,
                                !.old = row[d].path])
          BY <4>1 DEF StartUpdate
        <4>3. [Idle EXCEPT !.pc = "file", !.op = "update", !.doc = d, !.path = p, !.content = c,
                                !.old = row[d].path] \in Requests
          BY <2>1, <4>1, Shapes DEF StartUpdate, Requests, Ops
        <4> QED
          BY <4>2, <4>3
      <3>3. CASE \E d \in Docs : StartRename(w, d)
        <4>1. PICK d \in Docs : StartRename(w, d)
          BY <3>3
        <4>2. StartWrite(w, [Idle EXCEPT !.pc = "row", !.op = "rename", !.doc = d, !.path = row[d].path,
                                !.old = row[d].path])
          BY <4>1 DEF StartRename
        <4>3. [Idle EXCEPT !.pc = "row", !.op = "rename", !.doc = d, !.path = row[d].path,
                                !.old = row[d].path] \in Requests
          BY <2>1, <4>1, Shapes DEF StartRename, Requests, Ops
        <4> QED
          BY <4>2, <4>3
      <3>4. CASE \E d \in Docs : StartDelete(w, d)
        <4>1. PICK d \in Docs : StartDelete(w, d)
          BY <3>4
        <4>2. StartWrite(w, [Idle EXCEPT !.pc = "list", !.op = "delete", !.doc = d, !.old = row[d].path])
          BY <4>1 DEF StartDelete
        <4>3. [Idle EXCEPT !.pc = "list", !.op = "delete", !.doc = d, !.old = row[d].path] \in Requests
          BY <2>1, <4>1, Shapes DEF StartDelete, Requests, Ops
        <4> QED
          BY <4>2, <4>3
      <3> QED
        BY <3>1, <3>2, <3>3, <3>4 DEF NewRequest
  <1>2. writer' \in [Writers -> Requests]
    BY <1>1 DEF StartWrite, Typed
  <1> QED
    BY <1>1, <1>2 DEF StartWrite, Typed, stores, gate

LEMMA AddTaskType ==
  ASSUME Typed, NEW d \in Docs, NEW others \in [TaskIds -> {None} \cup Tasks], AddTask(d, others)
  PROVE  /\ tasks' \in [TaskIds -> {None} \cup Tasks]
         /\ counts' \in Counts
  <1>1. NewTask(d) \in Tasks /\ counts.tasks + 1 \in Nat
    BY Shapes DEF Typed, Counts
  <1>2. tasks' = [others EXCEPT ![counts.tasks + 1] = NewTask(d)]
        /\ counts' = [counts EXCEPT !.tasks = counts.tasks + 1]
    BY DEF AddTask
  <1>3. tasks' \in [TaskIds -> {None} \cup Tasks]
    BY <1>1, <1>2
  <1>4. counts' \in Counts
    BY <1>1, <1>2 DEF Typed, Counts
  <1> QED
    BY <1>3, <1>4

LEMMA WriterTypes ==
  ASSUME SInv, NEW w \in Writers, WriterStep(w) PROVE Typed'
  <1> DEFINE r == writer[w]
  <1>0. Typed /\ r \in Requests /\ (r.pc # "idle" => r.doc \in Docs)
    BY DEF SInv, Typed, RequestsKnow
  <1>1. CASE WriteFile(w)
    <2>1. r.path \in Paths /\ r.content \in Contents /\ r.doc \in Docs
      BY <1>1 DEF WriteFile, SInv, RequestsKnow
    <2>2. file' \in [Docs -> [Paths -> Contents \cup {None}]]
      BY <1>0, <1>1, <2>1 DEF WriteFile, Typed
    <2>3. writer' \in [Writers -> Requests]
      BY <1>0, <1>1 DEF WriteFile, Typed, Requests
    <2> QED
      BY <1>0, <1>1, <2>2, <2>3 DEF WriteFile, Typed, gate
  <1>2. CASE CommitCreate(w)
    <2>1. r.path \in Paths /\ r.doc \in Docs
      BY <1>2 DEF CommitCreate, SInv, RequestsKnow
    <2>2. /\ row' \in [Docs -> {None} \cup Rows] /\ tasks' \in [TaskIds -> {None} \cup Tasks]
          /\ counts' \in Counts
      <3>1. CASE row[r.doc] = None
        <4>1. AddTask(r.doc, tasks) /\ tasks \in [TaskIds -> {None} \cup Tasks]
          BY <1>0, <1>2, <3>1 DEF CommitCreate, Typed
        <4>2. row' \in [Docs -> {None} \cup Rows]
          <5>1. Uploaded(r.path) \in Rows
            BY <2>1, Shapes
          <5> QED
            BY <1>0, <1>2, <2>1, <3>1, <5>1 DEF CommitCreate, Typed
        <4> QED
          BY <1>0, <2>1, <4>1, <4>2, AddTaskType
      <3>2. CASE row[r.doc] # None
        BY <1>0, <1>2, <3>2 DEF CommitCreate, Typed
      <3> QED
        BY <3>1, <3>2
    <2>3. writer' \in [Writers -> Requests]
      BY <1>0, <1>2, Shapes, GiveUpType DEF CommitCreate, Typed
    <2> QED
      BY <1>0, <1>2, <2>2, <2>3 DEF CommitCreate, Typed, gate
  <1>3. CASE CommitUpdate(w)
    <2>1. r.path \in Paths /\ r.doc \in Docs
      BY <1>3 DEF CommitUpdate, SInv, RequestsKnow
    <2>2. /\ row' \in [Docs -> {None} \cup Rows] /\ tasks' \in [TaskIds -> {None} \cup Tasks]
          /\ chunks' \in [Docs -> Contents \cup {None}]
          /\ counts' \in Counts
      <3>1. CASE row[r.doc] # None
        <4>1. WithoutPending(r.doc) \in [TaskIds -> {None} \cup Tasks]
          BY <1>0 DEF WithoutPending, Typed
        <4>2. AddTask(r.doc, WithoutPending(r.doc))
          BY <1>3, <3>1 DEF CommitUpdate
        <4>3. row' \in [Docs -> {None} \cup Rows] /\ chunks' \in [Docs -> Contents \cup {None}]
          <5>1. Uploaded(r.path) \in Rows
            BY <2>1, Shapes
          <5> QED
            BY <1>0, <1>3, <2>1, <3>1, <5>1 DEF CommitUpdate, Typed
        <4> QED
          BY <1>0, <2>1, <4>1, <4>2, <4>3, AddTaskType
      <3>2. CASE row[r.doc] = None
        BY <1>0, <1>3, <3>2 DEF CommitUpdate, Typed
      <3> QED
        BY <3>1, <3>2
    <2>3. writer' \in [Writers -> Requests]
      <3>1. CASE row[r.doc] # None
        <4>1. [r EXCEPT !.pc = "list"] \in Requests
          BY <1>0 DEF Requests
        <4> QED
          BY <1>0, <1>3, <3>1, <4>1 DEF CommitUpdate, Typed
      <3>2. CASE row[r.doc] = None
        BY <1>0, <1>3, <3>2, GiveUpType DEF CommitUpdate
      <3> QED
        BY <3>1, <3>2
    <2> QED
      BY <1>0, <1>3, <2>2, <2>3 DEF CommitUpdate, Typed, gate
  <1>4. CASE ListRecords(w)
    <2>1. writer' \in [Writers -> Requests]
      BY <1>0, <1>4 DEF ListRecords, Typed, Requests
    <2> QED
      BY <1>0, <1>4, <2>1 DEF ListRecords, Typed, gate, stores
  <1>5. CASE ReplaceRecords(w)
    <2>1. writer' \in [Writers -> Requests]
      BY <1>0, <1>5 DEF ReplaceRecords, Typed, Requests
    <2>2. index' \subseteq AnyRecord
      BY <1>0, <1>5 DEF ReplaceRecords, Typed, Requests, Survivors
    <2> QED
      BY <1>0, <1>5, <2>1, <2>2 DEF ReplaceRecords, Typed, gate, stores
  <1>6. CASE CommitDelete(w)
    <2>1. /\ row' \in [Docs -> {None} \cup Rows] /\ tasks' \in [TaskIds -> {None} \cup Tasks]
          /\ chunks' \in [Docs -> Contents \cup {None}]
      BY <1>0, <1>6 DEF CommitDelete, Typed
    <2>2. writer' \in [Writers -> Requests]
      <3>1. [r EXCEPT !.pc = "tidy"] \in Requests
        BY <1>0 DEF Requests
      <3> QED
        BY <1>0, <1>6, <3>1, Shapes DEF CommitDelete, Typed
    <2> QED
      BY <1>0, <1>6, <2>1, <2>2 DEF CommitDelete, Typed, gate
  <1>7. CASE RemoveFiles(w)
    <2>1. r.doc \in Docs
      BY <1>0, <1>7 DEF RemoveFiles
    <2>2. file' \in [Docs -> [Paths -> Contents \cup {None}]]
      BY <1>0, <1>7, <2>1 DEF RemoveFiles, Typed
    <2>3. writer' \in [Writers -> Requests]
      BY <1>0, <1>7, Shapes DEF RemoveFiles, Typed
    <2> QED
      BY <1>0, <1>7, <2>2, <2>3 DEF RemoveFiles, Typed, gate
  <1>8. CASE MissIndex(w)
    BY <1>0, <1>8, GiveUpType DEF MissIndex, Typed, gate, stores
  <1> QED
    BY <1>1, <1>2, <1>3, <1>4, <1>5, <1>6, <1>7, <1>8 DEF WriterStep

(* So do the worker's, ...                                                   *)
WorkerAny == WorkerStep \/ FailIngest \/ FailRecovery

LEMMA WorkerTypes ==
  ASSUME SInv, WorkerKnows, WorkerAny PROVE Typed'
  <1>0. Typed /\ worker \in Works /\ {"running", "completed", "failed"} \subseteq Statuses
    BY DEF SInv, Typed, Statuses
  <1>1. CASE LeaseTask
    <2>1. PICK t \in TaskIds :
            /\ t \in Pending /\ SetStatus(t, "running") /\ SetDocument(tasks[t].doc, "running")
            /\ worker' = [Resting EXCEPT !.pc = "read", !.task = t, !.doc = tasks[t].doc]
      BY <1>1 DEF LeaseTask, Oldest
    <2>2. tasks[t].doc \in Docs /\ t \in Nat
      BY <1>0, <2>1 DEF Pending, Typed, Tasks, TaskIds
    <2>3. worker' \in Works
      BY <2>1, <2>2, Shapes DEF Works
    <2> QED
      BY <1>0, <1>1, <2>1, <2>2, <2>3, StatusTypes DEF LeaseTask, Typed, gate
  <1>2. CASE ReadRow
    <2>1. worker.doc \in Docs
      BY <1>2 DEF ReadRow, WorkerKnows, Busy
    <2>2. row[worker.doc] # None => row[worker.doc].path \in Paths
      BY <1>0, <2>1 DEF Typed, Rows
    <2>3. worker' \in Works
      BY <1>0, <1>2, <2>2 DEF ReadRow, Works
    <2> QED
      BY <1>0, <1>2, <2>3 DEF ReadRow, Typed, gate, stores
  <1>3. CASE ParseFile
    <2>1. worker.doc \in Docs /\ worker.path \in Paths
      BY <1>3 DEF ParseFile, WorkerKnows, Busy
    <2>2. file[worker.doc][worker.path] \in Contents \cup {None}
      BY <1>0, <2>1 DEF Typed
    <2>3. worker' \in Works
      BY <1>0, <1>3, <2>2 DEF ParseFile, Works
    <2> QED
      BY <1>0, <1>3, <2>3 DEF ParseFile, Typed, gate, stores
  <1>4. CASE StoreChunks
    <2>1. worker.doc \in Docs /\ worker.content \in Contents
      BY <1>4 DEF StoreChunks, WorkerKnows, Busy
    <2>2. chunks' \in [Docs -> Contents \cup {None}]
      BY <1>0, <1>4, <2>1 DEF StoreChunks, Typed
    <2>3. worker' \in Works
      BY <1>0, <1>4 DEF StoreChunks, Works
    <2> QED
      BY <1>0, <1>4, <2>2, <2>3 DEF StoreChunks, Typed, gate
  <1>5. CASE IndexChunks
    <2>1. RecordsOf(worker.doc, worker.content) \subseteq AnyRecord
      BY <1>0, <1>5, Records DEF IndexChunks, WorkerKnows, Busy
    <2>2. index' = None \/ index' \subseteq AnyRecord
      BY <1>0, <1>5, <2>1 DEF IndexChunks, Typed, Upsert
    <2>3. worker' \in Works
      BY <1>0, <1>5 DEF IndexChunks, Works
    <2> QED
      BY <1>0, <1>5, <2>2, <2>3 DEF IndexChunks, Typed, gate, stores
  <1>6. CASE CompleteTask
    <2>1. worker.doc \in Docs /\ worker.content \in Contents /\ worker.task \in TaskIds
      BY <1>6 DEF CompleteTask, WorkerKnows, Busy
    <2>2. row' \in [Docs -> {None} \cup Rows]
      <3>1. row[worker.doc] # None =>
              [row[worker.doc] EXCEPT !.status = "completed", !.count = Parts[worker.content]] \in Rows
        <4>1. Parts[worker.content] \in Nat /\ (row[worker.doc] # None => row[worker.doc] \in Rows)
          BY <1>0, <2>1, PartsAreCounts DEF Typed
        <4> QED
          BY <4>1 DEF Rows, Statuses
      <3> QED
        BY <1>0, <1>6, <2>1, <3>1 DEF CompleteTask, Typed
    <2>3. worker' \in Works /\ SetStatus(worker.task, "completed")
      BY <1>6, Shapes DEF CompleteTask
    <2> QED
      BY <1>0, <1>6, <2>1, <2>2, <2>3, StatusTypes DEF CompleteTask, Typed, gate
  <1>7. CASE FailTask
    <2>1. worker.doc \in Docs /\ worker.task \in TaskIds
      BY <1>7 DEF FailTask, WorkerKnows, Busy
    <2>2. worker' \in Works /\ counts' \in Counts
      BY <1>0, <1>7, Shapes DEF FailTask, Failed, Works, Typed, Counts
    <2> QED
      BY <1>0, <1>7, <2>1, <2>2, StatusTypes DEF FailTask, Typed, gate
  <1>8. CASE Recover
    <2>1. counts' \in Counts
      BY <1>0, <1>8 DEF Recover, Typed, Counts
    <2> QED
      BY <1>0, <1>8, <2>1, RecoveredTypes, Shapes DEF Recover, Typed, gate
  <1>10. CASE FailRecovery
    <2>1. counts' \in Counts
      <3>1. counts \in Counts /\ counts.mishaps + 1 \in Nat
        BY <1>0 DEF Typed, Counts
      <3>2. counts' = [counts EXCEPT !.mishaps = counts.mishaps + 1, !.unrecovered = TRUE]
        BY <1>10 DEF FailRecovery
      <3> QED
        BY <3>1, <3>2 DEF Counts
    <2> QED
      BY <1>0, <1>10, <2>1, Shapes DEF FailRecovery, Typed, gate, stores
  <1>9. CASE FailIngest
    <2>1. worker' \in Works
      BY <1>0, <1>9 DEF FailIngest, Works
    <2> QED
      BY <1>0, <1>9, <2>1, MishapType DEF FailIngest, Typed, gate, stores
  <1> QED
    BY <1>1, <1>2, <1>3, <1>4, <1>5, <1>6, <1>7, <1>8, <1>9, <1>10 DEF WorkerAny, WorkerStep

(* ... and everybody else's.                                                 *)
RebuildAny == StartRebuild \/ RebuildStep \/ FailRebuild \/ PanicRebuild
SearchAny == BeginSearch \/ EndSearch \/ LoseIndex

LEMMA OtherTypes ==
  ASSUME SInv, RebuildAny \/ SearchAny \/ Restart \/ (\E w \in Writers : FailWrite(w)) \/ UNCHANGED vars
  PROVE Typed'
  <1>0. Typed
    BY DEF SInv
  <1> USE DEF stores, gate
  <1>1. CASE StartRebuild
    BY <1>0, <1>1 DEF StartRebuild, Typed, Counts
  <1>2. CASE BeginRebuild
    BY <1>0, <1>2 DEF BeginRebuild, Typed
  <1>3. CASE LockMutations
    BY <1>0, <1>3 DEF LockMutations, Typed
  <1>4. CASE FillTemp
    BY <1>0, <1>4, Records DEF FillTemp, Typed, Upsert
  <1>5. CASE CheckTemp
    BY <1>0, <1>5 DEF CheckTemp, Typed
  <1>6. CASE SwapIndex
    BY <1>0, <1>6 DEF SwapIndex, Typed
  <1>7. CASE FinishRebuild
    BY <1>0, <1>7 DEF FinishRebuild, Typed, NoRebuild
  <1>8. CASE FailRebuild
    BY <1>0, <1>8, MishapType DEF FailRebuild, Typed
  <1>9. CASE PanicRebuild
    BY <1>0, <1>9, MishapType DEF PanicRebuild, Typed, NoRebuild
  <1>10. CASE SearchAny
    <2>1. CASE LoseIndex
      <3>1. counts' \in Counts
        BY <1>0, <2>1 DEF LoseIndex, Typed, Counts
      <3> QED
        BY <1>0, <2>1, <3>1 DEF LoseIndex, Typed
    <2> QED
      BY <1>0, <1>10, <2>1 DEF SearchAny, BeginSearch, EndSearch, Typed
  <1>11. CASE Restart
    <2>1. writer' \in [Writers -> Requests] /\ worker' \in Works
      BY <1>11, Shapes DEF Restart
    <2>2. counts' \in Counts
      <3>1. counts \in Counts /\ counts.mishaps + 1 \in Nat
        BY <1>0 DEF Typed, Counts
      <3>2. counts' = [counts EXCEPT !.mishaps = counts.mishaps + 1, !.unrecovered = FALSE]
        BY <1>11 DEF Restart
      <3> QED
        BY <3>1, <3>2 DEF Counts
    <2> QED
      BY <1>0, <1>11, <2>1, <2>2, RecoveredTypes DEF Restart, Typed, NoRebuild, IndexAtStart
  <1>12. ASSUME NEW w \in Writers, FailWrite(w) PROVE Typed'
    BY <1>0, <1>12, MishapType, GiveUpType DEF FailWrite, Typed
  <1>13. CASE UNCHANGED vars
    BY <1>0, <1>13 DEF vars, Typed
  <1> QED
    BY <1>1, <1>2, <1>3, <1>4, <1>5, <1>6, <1>7, <1>8, <1>9, <1>10, <1>11, <1>12, <1>13 DEF RebuildAny, RebuildStep

-----------------------------------------------------------------------------
(* The rebuild.                                                              *)
LEMMA UpsertEmpty == \A new : Upsert({}, new) = new
  BY DEF Upsert

(* Nobody else changes what a rebuild that holds its lock works with.         *)
LEMMA RebuildUndisturbed ==
  ASSUME SInv, UNCHANGED <<rebuild, temp>>,
         RebuildHolds => chunks' = chunks /\ (\A w \in Writers : writer'[w].pc = "idle")
                         /\ worker'.pc \in {"idle", "recover"}
  PROVE  RebuildAlone' /\ Collected'
  BY DEF SInv, RebuildAlone, Collected, RebuildHolds, RecordsOfRows

LEMMA GiveUpKnows ==
  ASSUME SInv, NEW w \in Writers, GiveUp(w)
  PROVE  RequestsKnow' /\ (RebuildHolds => \A v \in Writers : writer'[v].pc = "idle")
  <1>1. writer \in [Writers -> Requests] /\ writer' = [writer EXCEPT ![w] = Idle]
    BY DEF SInv, Typed, GiveUp
  <1>2. RequestsKnow'
    BY <1>1 DEF SInv, RequestsKnow, Idle
  <1> QED
    BY <1>1, <1>2 DEF SInv, RebuildAlone, Idle

LEMMA WriterKnows ==
  ASSUME SInv, NEW w \in Writers, NewRequest(w) \/ WriterStep(w) \/ FailWrite(w)
  PROVE  RequestsKnow' /\ RebuildAlone' /\ Collected'
  <1>0. writer \in [Writers -> Requests] /\ RequestsKnow
    BY DEF SInv, Typed
  <1>1. CASE NewRequest(w)
    <2>1. ~RebuildHolds /\ UNCHANGED <<rebuild, temp>>
      BY <1>1 DEF NewRequest, StartCreate, StartUpdate, StartRename, StartDelete, StartWrite,
                  MaySession, RebuildWaits, RebuildHolds, gate
    <2>2. RebuildAlone' /\ Collected'
      BY <2>1, RebuildUndisturbed
    <2>3. \A d \in Docs : row[d] # None => row[d].path \in Paths
      BY DEF SInv, Typed, Rows
    <2>4. RequestsKnow'
      <3>1. CASE \E d \in Docs, p \in Paths, c \in Contents : StartCreate(w, d, p, c)
        BY <1>0, <3>1, Shapes DEF StartCreate, StartWrite, RequestsKnow, Idle
      <3>2. CASE \E d \in Docs, p \in Paths, c \in Contents : StartUpdate(w, d, p, c)
        BY <1>0, <3>2, Shapes DEF StartUpdate, StartWrite, RequestsKnow, Idle
      <3>3. CASE \E d \in Docs : StartRename(w, d)
        BY <1>0, <2>3, <3>3, Shapes DEF StartRename, StartWrite, RequestsKnow, Idle
      <3>4. CASE \E d \in Docs : StartDelete(w, d)
        BY <1>0, <3>4, Shapes DEF StartDelete, StartWrite, RequestsKnow, Idle
      <3> QED
        BY <1>1, <3>1, <3>2, <3>3, <3>4 DEF NewRequest
    <2> QED
      BY <2>2, <2>4
  <1>2. CASE WriterStep(w)
    <2>1. writer[w].pc # "idle" /\ UNCHANGED <<rebuild, temp>>
      BY <1>2 DEF WriterStep, WriteFile, CommitCreate, CommitUpdate, ListRecords, ReplaceRecords, CommitDelete,
                  RemoveFiles, MissIndex, gate
    <2>2. ~RebuildHolds
      BY <2>1 DEF SInv, RebuildAlone
    <2>3. RebuildAlone' /\ Collected'
      BY <2>1, <2>2, RebuildUndisturbed
    <2>4. RequestsKnow'
      BY <1>0, <1>2, GiveUpKnows
         DEF WriterStep, WriteFile, CommitCreate, CommitUpdate, ListRecords, ReplaceRecords, CommitDelete,
             RemoveFiles, MissIndex, RequestsKnow, Idle, Requests
    <2> QED
      BY <2>3, <2>4
  <1>3. CASE FailWrite(w)
    BY <1>3, GiveUpKnows, RebuildUndisturbed DEF FailWrite, stores, gate, SInv, RebuildAlone
  <1> QED
    BY <1>1, <1>2, <1>3

LEMMA WorkerUndisturbed ==
  ASSUME SInv, WorkerAny PROVE RequestsKnow' /\ RebuildAlone' /\ Collected'
  <1>1. UNCHANGED <<writer, rebuild, temp>> /\ RequestsKnow'
    BY DEF WorkerAny, WorkerStep, LeaseTask, ReadRow, ParseFile, StoreChunks, IndexChunks, CompleteTask, FailTask,
           Recover, FailIngest, FailRecovery, gate, SInv, RequestsKnow
  <1>2. CASE RebuildHolds
    <2>1. Recover \/ FailRecovery
      BY <1>2 DEF WorkerAny, WorkerStep, LeaseTask, ReadRow, ParseFile, StoreChunks, IndexChunks, CompleteTask, FailTask,
                  FailIngest, SInv, RebuildAlone, MaySession, RebuildWaits, RebuildHolds
    <2>2. worker'.pc = "idle" /\ chunks' = chunks
      BY <2>1 DEF Recover, FailRecovery, Resting, stores
    <2> QED
      BY <1>1, <1>2, <2>2, RebuildUndisturbed DEF SInv, RebuildAlone
  <1> QED
    BY <1>1, <1>2, RebuildUndisturbed

LEMMA RebuildKnows ==
  ASSUME SInv, RebuildAny \/ SearchAny \/ Restart \/ UNCHANGED vars
  PROVE RequestsKnow' /\ RebuildAlone' /\ Collected'
  <1> USE DEF stores, gate
  <1>0. RequestsKnow /\ RebuildAlone /\ Collected
    BY DEF SInv, Typed
  <1>1. CASE Restart
    BY <1>1 DEF Restart, RequestsKnow, Idle, RebuildAlone, Collected, RebuildHolds, NoRebuild
  <1>2. CASE SearchAny \/ UNCHANGED vars
    BY <1>0, <1>2 DEF SearchAny, BeginSearch, EndSearch, LoseIndex, vars, RequestsKnow, RebuildAlone, Collected,
                      RebuildHolds, RecordsOfRows
  <1>3. CASE RebuildAny
    <2>1. UNCHANGED <<writer, worker, chunks>> /\ RequestsKnow'
      BY <1>0, <1>3 DEF RebuildAny, RebuildStep, StartRebuild, BeginRebuild, LockMutations, FillTemp, CheckTemp,
                        SwapIndex, FinishRebuild, FailRebuild, PanicRebuild, RequestsKnow
    <2>2. RecordsOfRows' = RecordsOfRows
      BY <2>1 DEF RecordsOfRows
    <2>3. rebuild \in [pc: {"none", "queued", "lock", "scan", "check", "swap", "completed", "failed"}, id: Nat]
      BY DEF SInv, Typed
    <2>4. CASE LockMutations
      <3>1. \A w \in Writers : writer[w].pc \in {"idle", "recover"}
        BY <2>4 DEF LockMutations, Sessions, HoldsSession
      <3>2. worker.pc \in {"idle", "recover"}
        BY <2>4 DEF LockMutations, Sessions, HoldsSession
      <3>3. \A w \in Writers : writer[w].pc = "idle"
        BY <3>1 DEF SInv, Typed, Requests
      <3>4. rebuild'.pc = "scan" /\ temp' = {}
        BY <2>3, <2>4 DEF LockMutations
      <3> QED
        BY <2>1, <3>2, <3>3, <3>4 DEF RebuildAlone, Collected
    <2>5. CASE FillTemp
      <3>1. rebuild.pc = "scan" /\ rebuild'.pc = "check" /\ temp' = RecordsOfRows
        BY <1>0, <2>3, <2>5, UpsertEmpty DEF FillTemp, Collected
      <3> QED
        BY <1>0, <2>1, <2>2, <3>1 DEF RebuildAlone, Collected, RebuildHolds
    <2>6. CASE CheckTemp
      <3>1. rebuild.pc = "check" /\ (rebuild'.pc = "failed" \/ (rebuild'.pc = "swap" /\ temp' = temp))
        BY <2>3, <2>6 DEF CheckTemp
      <3> QED
        BY <1>0, <2>1, <2>2, <3>1 DEF RebuildAlone, Collected, RebuildHolds
    <2>7. ASSUME StartRebuild \/ BeginRebuild \/ SwapIndex \/ FinishRebuild \/ FailRebuild \/ PanicRebuild
          PROVE  rebuild'.pc \in {"none", "queued", "lock", "completed", "failed"}
      BY <2>3, <2>7 DEF StartRebuild, BeginRebuild, SwapIndex, FinishRebuild, FailRebuild, PanicRebuild, NoRebuild
    <2>8. rebuild'.pc \in {"none", "queued", "lock", "completed", "failed"} => RebuildAlone' /\ Collected'
      BY DEF RebuildAlone, Collected, RebuildHolds
    <2> QED
      BY <1>3, <2>1, <2>4, <2>5, <2>6, <2>7, <2>8 DEF RebuildAny, RebuildStep
  <1> QED
    BY <1>1, <1>2, <1>3

-----------------------------------------------------------------------------
(* What a step may do to a document without undoing what is known of it: its  *)
(* row keeps path and count or goes, its files stay or go, unless a request   *)
(* has written one, and its tasks stay open.                                 *)
Untouched(d) ==
  /\ row'[d] # None => /\ row[d] # None /\ row'[d].path = row[d].path /\ row'[d].count = row[d].count
                       /\ row'[d].status = row[d].status \/ (row'[d].status # "completed" /\ \E t \in TaskIds : Open(t, d))
  /\ chunks'[d] = chunks[d]
  /\ \A p \in Paths : file'[d][p] \in {file[d][p], None} \/ Unsettled(d)'
  /\ Unsettled(d) => Unsettled(d)' \/ d \in ahead'
  /\ d \in ahead => d \in ahead'
  /\ \A t \in TaskIds : Open(t, d) => Open(t, d)'

LEMMA RestKept ==
  ASSUME Typed, NEW d \in Docs, Rest(d), Untouched(d) PROVE Rest(d)'
  <1> SUFFICES ASSUME row'[d] # None, d \notin ahead', \A t \in TaskIds : ~Open(t, d)'
               PROVE  \E c \in Contents \cup {None} :
                        /\ Current(d, row[d].path, c)'
                        /\ c # None => chunks'[d] = Cut(c) /\ row'[d].count = Parts[c]
    BY DEF Rest, Cut
  <1>1. /\ row[d] # None /\ d \notin ahead /\ (\A t \in TaskIds : ~Open(t, d))
        /\ row'[d].path = row[d].path /\ row'[d].count = row[d].count /\ chunks'[d] = chunks[d]
    BY DEF Untouched
  <1>2. PICK c \in Contents \cup {None} :
          Current(d, row[d].path, c) /\ (c # None => chunks[d] = Cut(c) /\ row[d].count = Parts[c])
    BY <1>1 DEF Rest
  <1>3. row[d].path \in Paths
    BY <1>1 DEF Typed, Rows
  <1>4. Current(d, row[d].path, c)'
    BY <1>1, <1>2, <1>3 DEF Untouched, Current
  <1> QED
    BY <1>1, <1>2, <1>4

Forgotten(d) == row[d] # None /\ row[d].status # "completed" => Outstanding(d)

LEMMA RememberedKept ==
  ASSUME NEW d \in Docs, Forgotten(d), Untouched(d) PROVE Forgotten(d)'
  BY DEF Forgotten, Untouched, Outstanding, Open

(* Or it takes the document away, or gives it one more task.                 *)
Gone(d) == row'[d] = None
Added(d) == \E t \in TaskIds : t > counts.tasks /\ Open(t, d)' /\ row'[d].status # "completed"

(* The worker's own document, while it works at it.                          *)
LEMMA WorkKept ==
  ASSUME SInv, WorkerKnows, WorkIsCurrent, UNCHANGED worker,
         Busy => Untouched(worker.doc) \/ Gone(worker.doc) \/ Added(worker.doc)
  PROVE  WorkIsCurrent'
  <1> SUFFICES ASSUME worker.pc \in {"parse", "store", "embed", "finish"},
                      row'[worker.doc] # None, worker.doc \notin ahead',
                      \A t \in TaskIds : Open(t, worker.doc)' => t = worker.task
               PROVE  /\ row'[worker.doc].path = worker.path
                      /\ worker.pc # "parse" => Current(worker.doc, worker.path, worker.content)'
                      /\ worker.pc \in {"embed", "finish"} => chunks'[worker.doc] = Cut(worker.content)
    BY DEF WorkIsCurrent, Cut
  <1>0. worker.doc \in Docs /\ worker.path \in Paths /\ worker.task <= counts.tasks
        /\ worker.task \in Nat /\ counts.tasks \in Nat
    BY DEF Busy, WorkerKnows, SInv, Typed, Counts, Works
  <1>1. Untouched(worker.doc)
    <2>1. ~Added(worker.doc)
      <3>1. SUFFICES ASSUME NEW t \in TaskIds, t > counts.tasks, Open(t, worker.doc)' PROVE FALSE
        BY DEF Added
      <3>2. t = worker.task /\ t \in Nat
        BY <3>1 DEF TaskIds
      <3> QED
        BY <1>0, <3>1, <3>2
    <2> QED
      BY <2>1 DEF Busy, Gone
  <1>2. /\ row[worker.doc] # None /\ worker.doc \notin ahead
        /\ \A t \in TaskIds : Open(t, worker.doc) => t = worker.task
    BY <1>1 DEF Untouched
  <1>3. /\ row[worker.doc].path = worker.path
        /\ worker.pc # "parse" => Current(worker.doc, worker.path, worker.content)
        /\ worker.pc \in {"embed", "finish"} => chunks[worker.doc] = Cut(worker.content)
    BY <1>2 DEF WorkIsCurrent
  <1>4. worker.pc # "parse" => Current(worker.doc, worker.path, worker.content)'
    BY <1>0, <1>1, <1>3 DEF Untouched, Current
  <1> QED
    BY <1>1, <1>2, <1>3, <1>4 DEF Untouched

LEMMA WorkVacuous ==
  ASSUME worker'.pc \notin {"parse", "store", "embed", "finish"} PROVE WorkIsCurrent'
  BY DEF WorkIsCurrent

(* A document that has a task besides the worker's needs nothing else.        *)
LEMMA NewlyOpen ==
  ASSUME NEW d \in Docs, NEW t \in TaskIds, Open(t, d)'
  PROVE  Rest(d)' /\ Forgotten(d)'
  BY DEF Rest, Forgotten, Outstanding, Open

LEMMA GoneRests ==
  ASSUME NEW d \in Docs, Gone(d) PROVE Rest(d)' /\ Forgotten(d)'
  BY DEF Gone, Rest, Forgotten

LEMMA TInvParts == TInv <=> /\ Room /\ WorkerKnows /\ WorkIsCurrent
                            /\ \A d \in Docs : Rest(d) /\ Forgotten(d)
  BY DEF TInv, NoForgottenDocument, RestIsCurrent, Forgotten

-----------------------------------------------------------------------------
(* Room for tasks.                                                           *)
LEMMA AddersFinite == \A S \in SUBSET Writers : IsFiniteSet(S) /\ Cardinality(S) \in Nat
  BY WritersAreFinite, FS_Subset, FS_CardinalityType

LEMMA RoomKept ==
  ASSUME SInv, Room, counts'.tasks = counts.tasks, Adders' \subseteq Adders,
         \A t \in TaskIds : tasks[t] = None => tasks'[t] = None
  PROVE  Room'
  <1>1. Cardinality(Adders') <= Cardinality(Adders) /\ Cardinality(Adders') \in Nat /\ Cardinality(Adders) \in Nat
    <2>1. Adders \in SUBSET Writers
      BY DEF Adders
    <2>2. Adders' \in SUBSET Adders
      OBVIOUS
    <2>3. PICK A, B : A = Adders /\ B = Adders'
      OBVIOUS
    <2> QED
      BY <2>1, <2>2, <2>3, AddersFinite, FS_Subset
  <1> QED
    BY <1>1, BoundsAreNaturals DEF Room, SInv, Typed, Counts

LEMMA RoomTaken ==
  ASSUME SInv, Room, NEW w \in Writers, w \in Adders, counts'.tasks = counts.tasks + 1,
         Adders' \subseteq Adders \ {w},
         \A t \in TaskIds : tasks[t] = None => tasks'[t] = None \/ t = counts.tasks + 1
  PROVE  Room' /\ counts.tasks + 1 \in TaskIds /\ tasks[counts.tasks + 1] = None
  <1>1. PICK A, B : A = Adders /\ B = Adders'
    OBVIOUS
  <1>2. A \in SUBSET Writers /\ B \in SUBSET (A \ {w}) /\ w \in A /\ A \ {w} \in SUBSET Writers
    BY <1>1 DEF Adders
  <1>3. /\ Cardinality(A \ {w}) = Cardinality(A) - 1 /\ Cardinality(B) <= Cardinality(A \ {w})
        /\ Cardinality(A) \in Nat /\ Cardinality(B) \in Nat /\ Cardinality(A \ {w}) \in Nat
    <2>1. Cardinality(A) \in Nat /\ IsFiniteSet(A) /\ IsFiniteSet(A \ {w}) /\ Cardinality(A \ {w}) \in Nat
      BY <1>2, AddersFinite
    <2>2. B \in SUBSET Writers
      BY <1>2
    <2> QED
      BY <1>2, <2>1, <2>2, AddersFinite, FS_Subset, FS_RemoveElement
  <1>4. counts.tasks \in Nat /\ MaxTasks \in Nat
    BY BoundsAreNaturals DEF SInv, Typed, Counts
  <1>5. counts.tasks + Cardinality(A) <= MaxTasks
    BY <1>1 DEF Room
  <1>6. counts.tasks + 1 \in TaskIds /\ tasks[counts.tasks + 1] = None
    BY <1>3, <1>4, <1>5 DEF TaskIds, Room
  <1>7. counts'.tasks + Cardinality(B) <= MaxTasks
    BY <1>3, <1>4, <1>5
  <1>8. \A t \in TaskIds : t > counts'.tasks => tasks'[t] = None
    BY <1>4 DEF TaskIds, Room
  <1> QED
    BY <1>1, <1>6, <1>7, <1>8 DEF Room

LEMMA RoomClaimed ==
  ASSUME SInv, Room, NEW w \in Writers, RoomForTask, Adders' \subseteq Adders \cup {w},
         UNCHANGED <<counts, tasks>>
  PROVE  Room'
  <1> DEFINE all == {v \in Writers : writer[v].pc \in {"file", "row"}}
  <1>1. PICK A, B : A = Adders' /\ B = all
    OBVIOUS
  <1>2. A \in SUBSET (B \cup {w}) /\ B \in SUBSET Writers
    BY <1>1 DEF Adders
  <1>3. counts.tasks + Cardinality(B) < MaxTasks
    BY <1>1 DEF RoomForTask
  <1>4. IsFiniteSet(B) /\ Cardinality(B) \in Nat
    BY <1>2, AddersFinite
  <1>5. IsFiniteSet(B \cup {w}) /\ Cardinality(B \cup {w}) <= Cardinality(B) + 1 /\ Cardinality(B \cup {w}) \in Nat
    <2>1. IsFiniteSet(B \cup {w})
          /\ Cardinality(B \cup {w}) = IF w \in B THEN Cardinality(B) ELSE Cardinality(B) + 1
      BY <1>4, FS_AddElement
    <2>2. Cardinality(B \cup {w}) \in Nat
      BY <2>1, FS_CardinalityType
    <2> QED
      BY <1>4, <2>1, <2>2
  <1>6. Cardinality(A) <= Cardinality(B \cup {w}) /\ Cardinality(A) \in Nat
    BY <1>2, <1>5, FS_Subset, FS_CardinalityType
  <1>7. counts.tasks \in Nat /\ MaxTasks \in Nat
    BY BoundsAreNaturals DEF SInv, Typed, Counts
  <1>8. counts.tasks + Cardinality(A) <= MaxTasks
    BY <1>3, <1>4, <1>5, <1>6, <1>7
  <1> QED
    BY <1>1, <1>8 DEF Room

-----------------------------------------------------------------------------
(* A step that is not the worker's.                                          *)
LEMMA WorkerLeftAlone ==
  ASSUME SInv, TInv, UNCHANGED worker, Room', counts'.tasks \in Nat, counts'.tasks >= counts.tasks,
         \A d \in Docs : Untouched(d) \/ Gone(d) \/ Added(d),
         \A t \in TaskIds : t <= counts.tasks => tasks'[t] \in {None, tasks[t]}
  PROVE  TInv'
  <1>0. Typed /\ WorkerKnows /\ WorkIsCurrent /\ (\A d \in Docs : Rest(d) /\ Forgotten(d))
    BY TInvParts DEF SInv
  <1>1. ASSUME NEW d \in Docs PROVE Rest(d)' /\ Forgotten(d)'
    <2>1. CASE Untouched(d)
      BY <1>0, <2>1, RestKept, RememberedKept
    <2>2. CASE Gone(d)
      BY <2>2, GoneRests
    <2>3. CASE Added(d)
      BY <2>3, NewlyOpen DEF Added
    <2> QED
      BY <2>1, <2>2, <2>3
  <1>2. WorkerKnows'
    <2>1. ASSUME Busy
          PROVE  /\ worker.task <= counts'.tasks
                 /\ tasks'[worker.task] # None => tasks'[worker.task].doc = worker.doc
                 /\ row'[worker.doc] # None => row'[worker.doc].status # "completed"
      <3>1. worker.task \in TaskIds /\ worker.task <= counts.tasks /\ worker.doc \in Docs
            /\ worker.task \in Nat /\ counts.tasks \in Nat
            /\ (tasks[worker.task] # None => tasks[worker.task].doc = worker.doc)
            /\ (row[worker.doc] # None => row[worker.doc].status # "completed")
        BY <1>0, <2>1 DEF WorkerKnows, Typed, Counts, Works
      <3>2. row'[worker.doc] # None => row'[worker.doc].status # "completed"
        BY <3>1 DEF Untouched, Gone, Added
      <3> QED
        BY <3>1, <3>2
    <2> QED
      BY <1>0, <2>1 DEF WorkerKnows, Busy
  <1>3. WorkIsCurrent'
    <2>1. Busy => worker.doc \in Docs
      BY <1>0 DEF WorkerKnows
    <2> QED
      BY <1>0, <2>1, WorkKept
  <1> QED
    BY <1>1, <1>2, <1>3 DEF TInv, NoForgottenDocument, RestIsCurrent, Forgotten

(* Stores that stay as they are.                                             *)
LEMMA StoresKept ==
  ASSUME NEW d \in Docs, UNCHANGED stores, d \in ahead => d \in ahead',
         Unsettled(d) => Unsettled(d)' \/ d \in ahead'
  PROVE  Untouched(d)
  BY DEF stores, Untouched, Open

LEMMA GiveUpKeeps ==
  ASSUME SInv, Room, NEW w \in Writers, GiveUp(w), counts'.tasks = counts.tasks, UNCHANGED stores
  PROVE  Room' /\ \A d \in Docs : Untouched(d)
  <1>1. writer \in [Writers -> Requests] /\ writer' = [writer EXCEPT ![w] = Idle]
    BY DEF SInv, Typed, GiveUp
  <1>2. ASSUME NEW d \in Docs PROVE Untouched(d)
    <2>1. d \in ahead => d \in ahead'
      BY DEF GiveUp
    <2>2. Unsettled(d) => Unsettled(d)' \/ d \in ahead'
      <3>1. SUFFICES ASSUME NEW v \in Writers, writer[v].doc = d, writer[v].pc = "row",
                            writer[v].op \in {"create", "update"}
                     PROVE  Unsettled(d)' \/ d \in ahead'
        BY DEF Unsettled
      <3>2. CASE v = w
        BY <3>1, <3>2 DEF GiveUp
      <3>3. CASE v # w
        BY <1>1, <3>1, <3>3 DEF Unsettled
      <3> QED
        BY <3>2, <3>3
    <2> QED
      BY <2>1, <2>2, StoresKept
  <1>3. Adders' \subseteq Adders
    BY <1>1 DEF Adders, Idle
  <1> QED
    BY <1>2, <1>3, RoomKept DEF stores

-----------------------------------------------------------------------------
(* The steps of a request.                                                   *)
LEMMA OthersUnsettled ==
  ASSUME Typed, NEW w \in Writers, NEW q, writer' = [writer EXCEPT ![w] = q], NEW d \in Docs,
         writer[w].doc # d \/ writer[w].pc # "row" \/ writer[w].op \notin {"create", "update"}
  PROVE  Unsettled(d) => Unsettled(d)'
  <1> SUFFICES ASSUME NEW v \in Writers, writer[v].doc = d, writer[v].pc = "row",
                      writer[v].op \in {"create", "update"}
               PROVE  Unsettled(d)'
    BY DEF Unsettled
  <1>1. v # w
    OBVIOUS
  <1>2. writer'[v] = writer[v]
    BY <1>1 DEF Typed
  <1> QED
    BY <1>2 DEF Unsettled

LEMMA NewRequestKeeps ==
  ASSUME SInv, TInv, NEW w \in Writers, NewRequest(w) PROVE TInv'
  <1>0. Typed /\ Room
    BY DEF SInv, TInv
  <1>1. PICK q : /\ StartWrite(w, q)
                 /\ q.pc \in {"file", "row", "list"} /\ (q.pc \notin {"file", "row"} \/ RoomForTask)
    <2>1. ASSUME NEW d \in Docs, NEW p \in Paths, NEW c \in Contents, StartCreate(w, d, p, c)
          PROVE  \E q : StartWrite(w, q) /\ q.pc = "file" /\ RoomForTask
      <3>1. [Idle EXCEPT !.pc = "file", !.op = "create", !.doc = d, !.path = p, !.content = c].pc = "file"
        BY DEF Idle
      <3> QED
        BY <2>1, <3>1 DEF StartCreate
    <2>2. ASSUME NEW d \in Docs, NEW p \in Paths, NEW c \in Contents, StartUpdate(w, d, p, c)
          PROVE  \E q : StartWrite(w, q) /\ q.pc = "file" /\ RoomForTask
      <3>1. [Idle EXCEPT !.pc = "file", !.op = "update", !.doc = d, !.path = p, !.content = c,
                         !.old = row[d].path].pc = "file"
        BY DEF Idle
      <3> QED
        BY <2>2, <3>1 DEF StartUpdate
    <2>3. ASSUME NEW d \in Docs, StartRename(w, d)
          PROVE  \E q : StartWrite(w, q) /\ q.pc = "row" /\ RoomForTask
      <3>1. [Idle EXCEPT !.pc = "row", !.op = "rename", !.doc = d, !.path = row[d].path,
                         !.old = row[d].path].pc = "row"
        BY DEF Idle
      <3> QED
        BY <2>3, <3>1 DEF StartRename
    <2>4. ASSUME NEW d \in Docs, StartDelete(w, d)
          PROVE  \E q : StartWrite(w, q) /\ q.pc = "list"
      <3>1. [Idle EXCEPT !.pc = "list", !.op = "delete", !.doc = d, !.old = row[d].path].pc = "list"
        BY DEF Idle
      <3> QED
        BY <2>4, <3>1 DEF StartDelete
    <2>5. \E q : StartWrite(w, q) /\ q.pc \in {"file", "row", "list"} /\ (q.pc = "list" \/ RoomForTask)
      BY <2>1, <2>2, <2>3, <2>4 DEF NewRequest
    <2> QED
      BY <2>5
  <1>2. writer' = [writer EXCEPT ![w] = q] /\ writer[w].pc = "idle"
        /\ UNCHANGED <<stores, worker, ahead, counts>>
    BY <1>1 DEF StartWrite
  <1>3. ASSUME NEW d \in Docs PROVE Untouched(d)
    BY <1>0, <1>2, OthersUnsettled, StoresKept
  <1>4. Room'
    <2>1. CASE q.pc \in {"file", "row"}
      <3>1. Adders' \subseteq Adders \cup {w}
        BY <1>0, <1>2 DEF Adders, Typed
      <3> QED
        BY <1>0, <1>1, <1>2, <2>1, <3>1, RoomClaimed DEF stores
    <2>2. CASE q.pc \notin {"file", "row"}
      <3>1. Adders' \subseteq Adders
        BY <1>0, <1>2, <2>2 DEF Adders, Typed
      <3> QED
        BY <1>0, <1>2, <3>1, RoomKept DEF stores
    <2> QED
      BY <2>1, <2>2
  <1> QED
    BY <1>0, <1>2, <1>3, <1>4, WorkerLeftAlone DEF stores, Typed, Counts

LEMMA WriteFileKeeps ==
  ASSUME SInv, TInv, NEW w \in Writers, WriteFile(w) PROVE TInv'
  <1> DEFINE e == writer[w].doc
  <1>0. Typed /\ Room /\ e \in Docs /\ writer[w].pc = "file" /\ writer[w].op \in {"create", "update"}
    BY DEF SInv, TInv, WriteFile, RequestsKnow
  <1>1. writer' = [writer EXCEPT ![w] = [writer[w] EXCEPT !.pc = "row"]]
        /\ UNCHANGED <<row, chunks, tasks, worker, ahead, counts>>
        /\ file' = [file EXCEPT ![e][writer[w].path] = writer[w].content]
    BY DEF WriteFile
  <1>2. writer'[w].pc = "row" /\ writer'[w].op = writer[w].op /\ writer'[w].doc = e
    BY <1>0, <1>1 DEF Typed, Requests
  <1>3. Unsettled(e)'
    BY <1>0, <1>2 DEF Unsettled
  <1>4. ASSUME NEW d \in Docs PROVE Untouched(d)
    <2>1. Unsettled(d) => Unsettled(d)'
      BY <1>0, <1>1, OthersUnsettled
    <2>2. d # e => file'[d] = file[d]
      BY <1>0, <1>1 DEF Typed
    <2> QED
      BY <1>1, <1>3, <2>1, <2>2 DEF Untouched, Open
  <1>5. Room'
    <2>1. Adders' \subseteq Adders
      BY <1>0, <1>1, <1>2 DEF Adders, Typed
    <2> QED
      BY <1>0, <1>1, <2>1, RoomKept
  <1> QED
    BY <1>0, <1>1, <1>4, <1>5, WorkerLeftAlone DEF Typed, Counts

(* Tasks of d may have gone.                                                 *)
Thinned(others, d) ==
  /\ others \in [TaskIds -> {None} \cup Tasks]
  /\ \A t \in TaskIds : others[t] \in {None, tasks[t]}
  /\ \A t \in TaskIds : others[t] # tasks[t] => tasks[t].doc = d
ChunksKept(d) == \A e \in Docs : e # d => chunks'[e] = chunks[e]

(* A commit of a row: a task is added for the document.                      *)
Commit(w, q, others) ==
  /\ row' = [row EXCEPT ![writer[w].doc] = Uploaded(writer[w].path)]
  /\ ChunksKept(writer[w].doc)
  /\ AddTask(writer[w].doc, others)
  /\ writer' = [writer EXCEPT ![w] = q]
  /\ ahead' = ahead \ {writer[w].doc}
  /\ UNCHANGED <<file, worker>>

LEMMA CommitKeeps ==
  ASSUME SInv, TInv, NEW w \in Writers, NEW q, q.pc \in {"idle", "list"}, NEW others,
         Thinned(others, writer[w].doc),
         w \in Adders, Commit(w, q, others)
  PROVE  TInv'
  <1> PICK e, new : e = writer[w].doc /\ new = counts.tasks + 1
    OBVIOUS
  <1>0. Typed /\ Room /\ e \in Docs /\ new \in Nat /\ counts.tasks \in Nat /\ writer[w].pc # "idle"
        /\ Thinned(others, e) /\ ChunksKept(e)
        /\ row' = [row EXCEPT ![e] = Uploaded(writer[w].path)] /\ AddTask(e, others)
        /\ writer' = [writer EXCEPT ![w] = q] /\ ahead' = ahead \ {e} /\ UNCHANGED <<file, worker>>
    BY DEF Commit, SInv, TInv, Typed, Counts, RequestsKnow, Adders
  <1>1. counts'.tasks = new /\ tasks' = [others EXCEPT ![new] = NewTask(e)]
    BY <1>0 DEF AddTask, Typed
  <1>2. Room' /\ new \in TaskIds /\ tasks[new] = None
    <2>1. Adders' \subseteq Adders \ {w}
      BY <1>0 DEF Adders, Typed
    <2>2. \A t \in TaskIds : tasks[t] = None => tasks'[t] = None \/ t = new
      BY <1>0, <1>1 DEF Thinned
    <2> QED
      BY <1>0, <1>1, <2>1, <2>2, RoomTaken
  <1>3. \A t \in TaskIds : t <= counts.tasks => tasks'[t] \in {None, tasks[t]}
    BY <1>0, <1>1 DEF TaskIds, Thinned
  <1>4. Added(e)
    <2>1. Open(new, e)'
      <3>1. tasks'[new] = NewTask(e) /\ NewTask(e) # None
        BY <1>0, <1>1, <1>2, Shapes DEF Thinned
      <3> QED
        BY <3>1 DEF Open, NewTask
    <2>2. row'[e].status # "completed"
      BY <1>0 DEF Typed, Uploaded
    <2> QED
      BY <1>0, <1>2, <2>1, <2>2 DEF Added
  <1>5. ASSUME NEW d \in Docs, d # e PROVE Untouched(d)
    <2>1. Unsettled(d) => Unsettled(d)'
      BY <1>0, <1>5, OthersUnsettled
    <2>2. row'[d] = row[d]
      BY <1>0, <1>5 DEF Typed
    <2>3. ASSUME NEW t \in TaskIds, Open(t, d) PROVE Open(t, d)'
      <3>1. t # new /\ others[t] = tasks[t]
        BY <1>0, <1>2, <1>5, <2>3 DEF Open, Thinned
      <3>2. tasks'[t] = tasks[t]
        BY <1>1, <3>1
      <3> QED
        BY <2>3, <3>2 DEF Open
    <2> QED
      BY <1>0, <1>5, <2>1, <2>2, <2>3 DEF Untouched, ChunksKept
  <1> QED
    BY <1>0, <1>1, <1>2, <1>3, <1>4, <1>5, WorkerLeftAlone

LEMMA CommitsKeep ==
  ASSUME SInv, TInv, NEW w \in Writers, CommitCreate(w) \/ CommitUpdate(w) PROVE TInv'
  <1> DEFINE r == writer[w]
  <1>0. Typed /\ Room /\ r.pc = "row" /\ r.doc \in Docs /\ w \in Adders /\ r \in Requests
    BY DEF SInv, TInv, Typed, RequestsKnow, Adders, CommitCreate, CommitUpdate
  <1>1. CASE CommitCreate(w) /\ row[r.doc] = None
    <2>1. Idle.pc \in {"idle", "list"} /\ Thinned(tasks, r.doc)
      BY <1>0 DEF Idle, Typed, Thinned
    <2>2. ChunksKept(r.doc)
      BY <1>1 DEF CommitCreate, ChunksKept
    <2>3. Commit(w, Idle, tasks)
      BY <1>1, <2>2 DEF CommitCreate, Commit
    <2> QED
      BY <1>0, <1>1, <2>1, <2>3, CommitKeeps
  <1>2. CASE CommitUpdate(w) /\ row[r.doc] # None
    <2>0. PICK q, others : q = [r EXCEPT !.pc = "list"] /\ others = WithoutPending(r.doc)
      OBVIOUS
    <2>1. q.pc \in {"idle", "list"}
      BY <1>0, <2>0 DEF Requests
    <2>2. Thinned(others, r.doc)
      BY <1>0, <2>0 DEF Thinned, WithoutPending, Typed, NewTask
    <2>3. /\ row' = [row EXCEPT ![r.doc] = Uploaded(r.path)]
          /\ chunks' = [chunks EXCEPT ![r.doc] = None]
          /\ AddTask(r.doc, others)
          /\ writer' = [writer EXCEPT ![w] = q]
          /\ ahead' = ahead \ {r.doc}
          /\ UNCHANGED <<file, worker>>
      <3>1. AddTask(r.doc, WithoutPending(r.doc)) /\ UNCHANGED <<file, worker>>
        BY <1>2 DEF CommitUpdate
      <3>2. AddTask(r.doc, others)
        BY <2>0, <3>1
      <3> QED
        BY <1>2, <2>0, <3>1, <3>2 DEF CommitUpdate
    <2>4. ChunksKept(r.doc)
      BY <1>0, <2>3 DEF Typed, ChunksKept
    <2>5. Commit(w, q, others)
      BY <2>3, <2>4 DEF Commit
    <2> QED
      BY <1>0, <2>1, <2>2, <2>5, CommitKeeps
  <1>3. CASE GiveUp(w) /\ UNCHANGED <<stores, worker, counts>>
    BY <1>0, <1>3, GiveUpKeeps, WorkerLeftAlone DEF Typed, Counts, stores
  <1> QED
    BY <1>1, <1>2, <1>3 DEF CommitCreate, CommitUpdate, stores

(* The steps of a request that touch neither rows nor tasks.                  *)
LEMMA IndexStepsKeep ==
  ASSUME SInv, TInv, NEW w \in Writers, ListRecords(w) \/ ReplaceRecords(w) \/ MissIndex(w) \/ FailWrite(w)
  PROVE TInv'
  <1>0. Typed /\ Room
    BY DEF SInv, TInv
  <1>1. CASE MissIndex(w) \/ FailWrite(w)
    <2>1. GiveUp(w) /\ UNCHANGED <<stores, worker>> /\ counts'.tasks = counts.tasks
      BY <1>0, <1>1, MishapType DEF MissIndex, FailWrite
    <2> QED
      BY <1>0, <2>1, GiveUpKeeps, WorkerLeftAlone DEF Typed, Counts, stores
  <1>2. CASE ListRecords(w) \/ ReplaceRecords(w)
    <2>1. PICK q : writer' = [writer EXCEPT ![w] = q] /\ (q.pc \in {"replace", "tidy"} \/ (q.pc = "row" /\ q.op = "delete"))
      <3>1. writer[w] \in Requests
        BY <1>0 DEF Typed
      <3>2. CASE ListRecords(w)
        <4>1. PICK q : q = [writer[w] EXCEPT !.pc = "replace", !.seen = index]
          OBVIOUS
        <4>2. writer' = [writer EXCEPT ![w] = q] /\ q.pc = "replace"
          BY <3>1, <3>2, <4>1 DEF ListRecords, Requests
        <4> QED
          BY <4>2
      <3>3. CASE ReplaceRecords(w)
        <4>1. PICK q : q = [writer[w] EXCEPT !.pc = IF writer[w].op = "delete" THEN "row" ELSE "tidy", !.seen = {}]
          OBVIOUS
        <4>2. writer' = [writer EXCEPT ![w] = q] /\ (q.pc = "tidy" \/ (q.pc = "row" /\ q.op = "delete"))
          BY <3>1, <3>3, <4>1 DEF ReplaceRecords, Requests
        <4> QED
          BY <4>2
      <3> QED
        BY <1>2, <3>2, <3>3
    <2>2. UNCHANGED <<stores, worker, ahead, counts>> /\ writer[w].pc \in {"list", "replace"}
      BY <1>2 DEF ListRecords, ReplaceRecords
    <2>3. \A d \in Docs : Untouched(d)
      BY <1>0, <2>1, <2>2, OthersUnsettled, StoresKept
    <2>4. Adders' \subseteq Adders
      BY <1>0, <2>1 DEF Adders, Typed
    <2>5. Room'
      BY <1>0, <2>2, <2>4, RoomKept DEF stores
    <2> QED
      BY <1>0, <2>2, <2>3, <2>5, WorkerLeftAlone DEF Typed, Counts, stores
  <1> QED
    BY <1>1, <1>2

LEMMA DeletesKeep ==
  ASSUME SInv, TInv, NEW w \in Writers, CommitDelete(w) \/ RemoveFiles(w) PROVE TInv'
  <1> DEFINE e == writer[w].doc
  <1>0. Typed /\ Room /\ e \in Docs /\ writer[w] \in Requests
        /\ (writer[w].pc # "row" \/ writer[w].op \notin {"create", "update"})
    BY DEF SInv, TInv, Typed, RequestsKnow, CommitDelete, RemoveFiles
  <1>1. PICK q : writer' = [writer EXCEPT ![w] = q] /\ q.pc \in {"idle", "tidy"}
    <2>1. Idle.pc = "idle" /\ [writer[w] EXCEPT !.pc = "tidy"].pc = "tidy"
      BY <1>0 DEF Requests, Idle
    <2>2. \/ writer' = [writer EXCEPT ![w] = Idle]
          \/ writer' = [writer EXCEPT ![w] = [writer[w] EXCEPT !.pc = "tidy"]]
      BY DEF CommitDelete, RemoveFiles
    <2> QED
      BY <2>1, <2>2
  <1>2. UNCHANGED <<worker, ahead, counts>>
    BY DEF CommitDelete, RemoveFiles
  <1>3. \A t \in TaskIds : tasks'[t] \in {None, tasks[t]}
    BY <1>0 DEF CommitDelete, RemoveFiles
  <1>4. Room'
    <2>1. Adders' \subseteq Adders
      BY <1>0, <1>1 DEF Adders, Typed
    <2> QED
      BY <1>0, <1>2, <1>3, <2>1, RoomKept
  <1>5. ASSUME NEW d \in Docs PROVE Untouched(d) \/ Gone(d)
    <2>0. Unsettled(d) => Unsettled(d)'
      BY <1>0, <1>1, OthersUnsettled
    <2>1. CASE RemoveFiles(w)
      <3>1. \A p \in Paths : file'[d][p] \in {file[d][p], None}
        BY <1>0, <2>1 DEF RemoveFiles, Typed
      <3> QED
        BY <1>2, <2>0, <2>1, <3>1 DEF RemoveFiles, Untouched, Open
    <2>2. CASE CommitDelete(w) /\ row[e] = None
      BY <1>2, <2>0, <2>2 DEF CommitDelete, Untouched, Open
    <2>3. CASE CommitDelete(w) /\ row[e] # None /\ d = e
      BY <1>0, <2>3 DEF CommitDelete, Typed, Gone
    <2>4. CASE CommitDelete(w) /\ row[e] # None /\ d # e
      <3>1. row'[d] = row[d] /\ chunks'[d] = chunks[d] /\ file' = file
        BY <1>0, <2>4 DEF CommitDelete, Typed
      <3>2. \A t \in TaskIds : Open(t, d) => Open(t, d)'
        BY <1>0, <2>4 DEF CommitDelete, Open
      <3> QED
        BY <1>2, <2>0, <3>1, <3>2 DEF Untouched
    <2> QED
      BY <2>1, <2>2, <2>3, <2>4
  <1> QED
    BY <1>0, <1>2, <1>3, <1>4, <1>5, WorkerLeftAlone DEF Typed, Counts

LEMMA WriterKeeps ==
  ASSUME SInv, TInv, NEW w \in Writers, NewRequest(w) \/ WriterStep(w) \/ FailWrite(w) PROVE TInv'
  BY NewRequestKeeps, WriteFileKeeps, CommitsKeep, IndexStepsKeep, DeletesKeep DEF WriterStep

(* The rebuild and the searches touch none of it.                            *)
LEMMA ReadersKeep ==
  ASSUME SInv, TInv, RebuildAny \/ SearchAny \/ UNCHANGED vars PROVE TInv'
  <1>0. Typed /\ Room
    BY DEF SInv, TInv
  <1>1. UNCHANGED <<stores, writer, worker, ahead>>
    BY DEF RebuildAny, RebuildStep, StartRebuild, BeginRebuild, LockMutations, FillTemp, CheckTemp, SwapIndex,
           FinishRebuild, FailRebuild, PanicRebuild, SearchAny, BeginSearch, EndSearch, LoseIndex, vars, stores
  <1>2. counts'.tasks = counts.tasks
    BY <1>0, MishapType
       DEF Counts, RebuildAny, RebuildStep, StartRebuild, BeginRebuild, LockMutations, FillTemp, CheckTemp, SwapIndex,
           FinishRebuild, FailRebuild, PanicRebuild, SearchAny, BeginSearch, EndSearch, LoseIndex, vars, Typed
  <1>3. \A d \in Docs : Untouched(d)
    BY <1>1, StoresKept DEF Unsettled
  <1>4. Room'
    BY <1>0, <1>1, <1>2, RoomKept DEF stores, Adders
  <1> QED
    BY <1>0, <1>1, <1>2, <1>3, <1>4, WorkerLeftAlone DEF Typed, Counts, stores

-----------------------------------------------------------------------------
(* The steps of the worker.                                                  *)
AllRest == \A d \in Docs : Rest(d) /\ Forgotten(d)

LEMMA AllKept ==
  ASSUME Typed, AllRest, \A d \in Docs : Untouched(d) PROVE AllRest'
  BY RestKept, RememberedKept DEF AllRest

LEMMA TInvFromParts ==
  ASSUME Room', WorkerKnows', WorkIsCurrent', AllRest' PROVE TInv'
  BY DEF TInv, NoForgottenDocument, RestIsCurrent, Forgotten, AllRest

LEMMA TInvToParts ==
  ASSUME SInv, TInv
  PROVE  /\ Typed /\ Room /\ WorkerKnows /\ WorkIsCurrent /\ AllRest
         /\ worker \in Works /\ counts.tasks \in Nat
  BY TInvParts DEF SInv, AllRest, Typed, Counts

(* A step that leaves requests and stores alone.                             *)
LEMMA OnlyWorker ==
  ASSUME SInv, TInv, UNCHANGED <<stores, writer, ahead>>, counts'.tasks = counts.tasks
  PROVE  Room' /\ AllRest'
  <1>1. \A d \in Docs : Untouched(d)
    BY StoresKept DEF Unsettled
  <1>2. Room'
    BY TInvToParts, RoomKept DEF Adders, stores
  <1> QED
    BY <1>1, <1>2, TInvToParts, AllKept

(* A task and its document change their status together.                     *)
LEMMA StatusKept ==
  ASSUME SInv, TInv, NEW t \in TaskIds, NEW e \in Docs, NEW s \in Statuses, s # "completed",
         tasks[t] # None => tasks[t].doc = e,
         row[e] # None => \E u \in TaskIds : Open(u, e),
         SetStatus(t, s), SetDocument(e, s), UNCHANGED <<file, chunks, writer, ahead>>,
         counts'.tasks = counts.tasks
  PROVE  Room' /\ AllRest' /\ (\A u \in TaskIds : tasks'[u] # None => tasks'[u].doc = tasks[u].doc)
         /\ (row'[e] # None => row'[e].status = s)
  <1>0. Typed /\ Room /\ AllRest
    BY TInvToParts
  <1>1. ASSUME NEW u \in TaskIds
        PROVE  /\ tasks'[u] # None => tasks[u] # None /\ tasks'[u].doc = tasks[u].doc
               /\ tasks[u] # None => tasks'[u] # None /\ (tasks[u].status # "completed" => tasks'[u].status # "completed")
    <2>1. tasks[u] \in {None} \cup Tasks
      BY <1>0 DEF Typed
    <2>2. CASE u # t \/ tasks[u] = None
      BY <1>0, <2>2 DEF SetStatus, Typed
    <2>3. CASE u = t /\ tasks[u] # None
      <3>1. PICK o : o = [tasks[u] EXCEPT !.status = s]
        OBVIOUS
      <3>2. tasks'[u] = o
        BY <1>0, <2>3, <3>1 DEF SetStatus, Typed
      <3>3. tasks[u] \in Tasks
        BY <2>1, <2>3
      <3>4. o.doc = tasks[u].doc /\ o.status = s
        BY <3>1, <3>3 DEF Tasks
      <3>5. o # None
        <4>1. o \in Tasks
          BY <3>1, <3>3 DEF Tasks
        <4> QED
          BY <4>1, Shapes
      <3> QED
        BY <2>3, <3>2, <3>4, <3>5
    <2> QED
      BY <2>2, <2>3
  <1>2. ASSUME NEW d \in Docs PROVE Untouched(d) /\ (d = e /\ row'[d] # None => row'[d].status = s)
    <2>1. row'[d] # None => /\ row[d] # None /\ row'[d].path = row[d].path /\ row'[d].count = row[d].count
                            /\ row'[d].status = row[d].status \/ (d = e /\ row'[d].status = s)
                            /\ d = e => row'[d].status = s
      <3>1. row[d] \in {None} \cup Rows
        BY <1>0 DEF Typed
      <3>2. d # e => row'[d] = row[d]
        BY <1>0 DEF SetDocument, Typed
      <3>3. d = e => row'[d] = IF row[d] = None THEN None ELSE [row[d] EXCEPT !.status = s]
        BY <1>0 DEF SetDocument, Typed
      <3> QED
        BY <3>1, <3>2, <3>3 DEF Rows
    <2>2. \A u \in TaskIds : Open(u, d) => Open(u, d)'
      BY <1>1 DEF Open
    <2>3. Unsettled(d) => Unsettled(d)'
      BY DEF Unsettled
    <2> QED
      BY <2>1, <2>2, <2>3 DEF Untouched
  <1>3. Room'
    BY <1>0, <1>1, RoomKept DEF Adders
  <1> QED
    BY <1>0, <1>1, <1>2, <1>3, AllKept

LEMMA LeaseKeeps ==
  ASSUME SInv, TInv, LeaseTask PROVE TInv'
  <1>0. Typed /\ Room /\ WorkerKnows /\ AllRest /\ counts.tasks \in Nat
    BY TInvToParts
  <1>1. PICK t \in TaskIds :
          /\ t \in Pending /\ SetStatus(t, "running") /\ SetDocument(tasks[t].doc, "running")
          /\ worker' = [Resting EXCEPT !.pc = "read", !.task = t, !.doc = tasks[t].doc]
    BY DEF LeaseTask, Oldest
  <1>2. PICK e : e = tasks[t].doc
    OBVIOUS
  <1>3. e \in Docs /\ tasks[t] # None /\ Open(t, e)
    BY <1>0, <1>1, <1>2 DEF Pending, Typed, Tasks, Open
  <1>4. /\ Room' /\ AllRest' /\ (tasks'[t] # None => tasks'[t].doc = e)
        /\ (row'[e] # None => row'[e].status # "completed")
    <2>1. UNCHANGED <<file, chunks, writer, ahead, counts>>
      BY DEF LeaseTask
    <2> QED
      BY <1>1, <1>2, <1>3, <2>1, StatusKept DEF Statuses
  <1>5. worker'.pc = "read" /\ worker'.task = t /\ worker'.doc = e
    BY <1>1, <1>2 DEF Resting
  <1>6. t <= counts.tasks /\ counts' = counts
    BY <1>0, <1>3 DEF Room, TaskIds, LeaseTask
  <1>7. WorkerKnows'
    BY <1>3, <1>4, <1>5, <1>6 DEF WorkerKnows, Busy
  <1> QED
    BY <1>4, <1>5, <1>7, WorkVacuous, TInvFromParts

LEMMA ReadKeeps ==
  ASSUME SInv, TInv, ReadRow PROVE TInv'
  <1>0. Typed /\ WorkerKnows /\ worker \in Works /\ worker.doc \in Docs /\ worker.pc = "read" /\ Busy
        /\ UNCHANGED <<stores, writer, ahead, counts>>
    BY TInvToParts DEF ReadRow, WorkerKnows, Busy
  <1>1. Room' /\ AllRest'
    BY <1>0, OnlyWorker
  <1>2. CASE row[worker.doc] = None
    <2>1. worker'.pc = "fail" /\ worker'.task = worker.task /\ worker'.doc = worker.doc
      BY <1>0, <1>2 DEF ReadRow, Works
    <2>2. WorkerKnows'
      BY <1>0, <2>1 DEF WorkerKnows, Busy, stores
    <2> QED
      BY <1>1, <2>1, <2>2, WorkVacuous, TInvFromParts
  <1>3. CASE row[worker.doc] # None
    <2>1. worker'.pc = "parse" /\ worker'.task = worker.task /\ worker'.doc = worker.doc
          /\ worker'.path = row[worker.doc].path
      BY <1>0, <1>3 DEF ReadRow, Works
    <2>2. row[worker.doc].path \in Paths
      BY <1>0, <1>3 DEF Typed, Rows
    <2>3. WorkerKnows'
      BY <1>0, <2>1, <2>2 DEF WorkerKnows, Busy, stores
    <2>4. WorkIsCurrent'
      BY <1>0, <2>1 DEF WorkIsCurrent, stores
    <2> QED
      BY <1>1, <2>3, <2>4, TInvFromParts
  <1> QED
    BY <1>2, <1>3

(* A step of the worker that ends its work early.                            *)
LEMMA EndsEarly ==
  ASSUME SInv, TInv, Busy, UNCHANGED <<stores, writer, ahead>>, counts'.tasks = counts.tasks,
         worker'.pc \in {"fail", "recover"}, worker'.task = worker.task, worker'.doc = worker.doc
  PROVE  TInv'
  <1>0. WorkerKnows /\ Room' /\ AllRest'
    BY TInvToParts, OnlyWorker
  <1>1. WorkerKnows'
    BY <1>0 DEF WorkerKnows, Busy, stores
  <1> QED
    BY <1>0, <1>1, WorkVacuous, TInvFromParts

LEMMA ParseKeeps ==
  ASSUME SInv, TInv, ParseFile PROVE TInv'
  <1> PICK c : c = file[worker.doc][worker.path]
    OBVIOUS
  <1>0. Typed /\ WorkerKnows /\ WorkIsCurrent /\ worker \in Works /\ worker.doc \in Docs /\ worker.path \in Paths
        /\ worker.pc = "parse" /\ Busy /\ UNCHANGED <<stores, writer, ahead, counts>>
        /\ c \in Contents \cup {None}
    BY TInvToParts DEF ParseFile, WorkerKnows, Busy, Typed
  <1>1. CASE c \in {None} \cup Unreadable
    <2>1. worker'.pc = "fail" /\ worker'.task = worker.task /\ worker'.doc = worker.doc
      BY <1>0, <1>1 DEF ParseFile, Works
    <2> QED
      BY <1>0, <2>1, EndsEarly
  <1>2. CASE c \notin {None} \cup Unreadable
    <2>1. worker' = [worker EXCEPT !.pc = "store", !.content = c]
      BY <1>2 DEF ParseFile
    <2>2. /\ worker'.pc = "store" /\ worker'.task = worker.task /\ worker'.doc = worker.doc
          /\ worker'.path = worker.path /\ worker'.content = c
      BY <1>0, <2>1 DEF Works
    <2>3. WorkerKnows'
      BY <1>0, <1>2, <2>2 DEF WorkerKnows, Busy, stores
    <2>4. WorkIsCurrent'
      <3>1. SUFFICES ASSUME row[worker.doc] # None, worker.doc \notin ahead,
                            \A t \in TaskIds : Open(t, worker.doc) => t = worker.task
                     PROVE  row[worker.doc].path = worker.path
        BY <1>0, <2>2 DEF WorkIsCurrent, Current, Open, stores
      <3> QED
        BY <1>0, <3>1 DEF WorkIsCurrent
    <2> QED
      BY <1>0, <2>3, <2>4, OnlyWorker, TInvFromParts
  <1> QED
    BY <1>1, <1>2

LEMMA StoreKeeps ==
  ASSUME SInv, TInv, StoreChunks PROVE TInv'
  <1> PICK e, c : e = worker.doc /\ c = worker.content
    OBVIOUS
  <1>0. Typed /\ Room /\ WorkerKnows /\ WorkIsCurrent /\ AllRest /\ worker \in Works
        /\ e \in Docs /\ c \in Contents
        /\ worker.pc = "store" /\ Busy /\ UNCHANGED <<file, row, tasks, writer, ahead, counts>>
    BY TInvToParts DEF StoreChunks, WorkerKnows, Busy
  <1>1. CASE UNCHANGED chunks /\ worker' = [worker EXCEPT !.pc = "fail"]
    <2>1. worker'.pc = "fail" /\ worker'.task = worker.task /\ worker'.doc = worker.doc
      BY <1>0, <1>1 DEF Works
    <2> QED
      BY <1>0, <1>1, <2>1, EndsEarly DEF stores
  <1>2. CASE /\ chunks' = [chunks EXCEPT ![e] = Cut(c)]
             /\ worker' = [worker EXCEPT !.pc = "embed"]
    <2>1. /\ worker'.pc = "embed" /\ worker'.task = worker.task /\ worker'.doc = worker.doc
          /\ worker'.path = worker.path /\ worker'.content = c
      BY <1>0, <1>2 DEF Works
    <2>2. Room'
      BY <1>0, RoomKept DEF Adders
    <2>3. WorkerKnows'
      BY <1>0, <2>1 DEF WorkerKnows, Busy
    <2>4. WorkIsCurrent'
      <3>1. chunks'[e] = Cut(c)
        BY <1>0, <1>2 DEF Typed
      <3>2. SUFFICES ASSUME row[e] # None, e \notin ahead, \A t \in TaskIds : Open(t, e) => t = worker.task
                     PROVE  row[e].path = worker.path /\ Current(e, worker.path, c)
        BY <1>0, <2>1, <3>1 DEF WorkIsCurrent, Current, Open, Unsettled, Cut
      <3> QED
        BY <1>0, <3>2 DEF WorkIsCurrent
    <2>5. ASSUME NEW d \in Docs PROVE Rest(d)' /\ Forgotten(d)'
      <3>1. Forgotten(d)'
        BY <1>0 DEF AllRest, Forgotten, Outstanding
      <3>2. CASE d = e
        <4>1. CASE row[e] = None
          <5>1. row'[d] = None
            BY <1>0, <3>2, <4>1
          <5> QED
            BY <5>1, GoneRests DEF Gone
        <4>2. CASE row[e] # None
          <5>1. row[e].status # "completed"
            BY <1>0, <4>2 DEF WorkerKnows
          <5>2. \E t \in TaskIds : Open(t, e)
            BY <1>0, <4>2, <5>1 DEF AllRest, Forgotten, Outstanding, Open
          <5>3. \E t \in TaskIds : Open(t, e)'
            BY <1>0, <5>2 DEF Open
          <5> QED
            BY <3>2, <5>3, NewlyOpen
        <4> QED
          BY <3>1, <4>1, <4>2
      <3>3. CASE d # e
        <4>1. chunks'[d] = chunks[d]
          BY <1>0, <1>2, <3>3 DEF Typed
        <4>2. Untouched(d)
          BY <1>0, <4>1 DEF Untouched, Open, Unsettled
        <4> QED
          BY <1>0, <3>1, <4>2, RestKept DEF AllRest
      <3> QED
        BY <3>1, <3>2, <3>3
    <2>6. AllRest'
      BY <2>5 DEF AllRest
    <2> QED
      BY <2>2, <2>3, <2>4, <2>6, TInvFromParts
  <1> QED
    BY <1>1, <1>2 DEF StoreChunks, Cut

LEMMA EmbedKeeps ==
  ASSUME SInv, TInv, IndexChunks PROVE TInv'
  <1>0. Typed /\ WorkerKnows /\ WorkIsCurrent /\ worker \in Works /\ worker.pc = "embed" /\ Busy
        /\ UNCHANGED <<stores, writer, ahead, counts>>
    BY TInvToParts DEF IndexChunks, Busy
  <1>1. CASE index = None
    <2>1. worker'.pc = "fail" /\ worker'.task = worker.task /\ worker'.doc = worker.doc
      BY <1>0, <1>1 DEF IndexChunks, Works
    <2> QED
      BY <1>0, <2>1, EndsEarly
  <1>2. CASE index # None
    <2>1. /\ worker'.pc = "finish" /\ worker'.task = worker.task /\ worker'.doc = worker.doc
          /\ worker'.path = worker.path /\ worker'.content = worker.content
      BY <1>0, <1>2 DEF IndexChunks, Works
    <2>2. WorkerKnows'
      BY <1>0, <2>1 DEF WorkerKnows, Busy, stores
    <2>3. WorkIsCurrent'
      BY <1>0, <2>1 DEF WorkIsCurrent, Current, Open, Unsettled, Cut, stores
    <2> QED
      BY <1>0, <2>2, <2>3, OnlyWorker, TInvFromParts
  <1> QED
    BY <1>1, <1>2

LEMMA FailTaskKeeps ==
  ASSUME SInv, TInv, FailTask PROVE TInv'
  <1> PICK e : e = worker.doc
    OBVIOUS
  <1>0. Typed /\ WorkerKnows /\ AllRest /\ worker.pc = "fail" /\ Busy /\ e \in Docs /\ worker.task \in TaskIds
        /\ (tasks[worker.task] # None => tasks[worker.task].doc = e)
        /\ (row[e] # None => row[e].status # "completed")
    BY TInvToParts DEF FailTask, WorkerKnows, Busy
  <1>1. row[e] # None => \E u \in TaskIds : Open(u, e)
    BY <1>0 DEF AllRest, Forgotten, Outstanding, Open
  <1>2. Room' /\ AllRest'
    <2>1. counts'.tasks = counts.tasks
      BY <1>0 DEF FailTask, Failed, Typed, Counts
    <2>2. SetStatus(worker.task, "failed") /\ SetDocument(e, "failed") /\ UNCHANGED <<file, chunks, writer, ahead>>
      BY DEF FailTask
    <2> QED
      BY <1>0, <1>1, <2>1, <2>2, StatusKept DEF Statuses
  <1>3. worker'.pc \in {"idle", "recover"}
    BY <1>0, TInvToParts DEF FailTask, Failed, Resting, Works
  <1>4. WorkerKnows'
    BY <1>3 DEF WorkerKnows, Busy
  <1> QED
    BY <1>2, <1>3, <1>4, WorkVacuous, TInvFromParts

LEMMA CompleteKeeps ==
  ASSUME SInv, TInv, CompleteTask PROVE TInv'
  <1> PICK e, t, c : e = worker.doc /\ t = worker.task /\ c = worker.content
    OBVIOUS
  <1>0. Typed /\ Room /\ WorkerKnows /\ WorkIsCurrent /\ AllRest /\ worker.pc = "finish" /\ Busy
        /\ e \in Docs /\ t \in TaskIds /\ c \in Contents /\ worker.path \in Paths
        /\ (tasks[t] # None => tasks[t].doc = e)
    BY TInvToParts DEF CompleteTask, WorkerKnows, Busy
  <1>1. UNCHANGED <<file, chunks, writer, ahead, counts>> /\ SetStatus(t, "completed")
    BY DEF CompleteTask
  <1>2. worker'.pc = "idle"
    BY DEF CompleteTask, Resting
  <1>3. \A u \in TaskIds : u # t => tasks'[u] = tasks[u]
    BY <1>0, <1>1 DEF SetStatus, Typed
  <1>4. Room'
    <2>1. tasks[t] = None => tasks'[t] = None
      BY <1>0, <1>1 DEF SetStatus, Typed
    <2> QED
      BY <1>0, <1>1, <1>3, <2>1, RoomKept DEF Adders
  <1>5. ASSUME NEW d \in Docs, d # e PROVE Rest(d)' /\ Forgotten(d)'
    <2>1. row'[d] = row[d]
      BY <1>0, <1>5 DEF CompleteTask, Typed
    <2>2. \A u \in TaskIds : Open(u, d) => Open(u, d)'
      BY <1>0, <1>3, <1>5 DEF Open
    <2>3. Untouched(d)
      BY <1>1, <2>1, <2>2 DEF Untouched, Unsettled
    <2> QED
      BY <1>0, <2>3, RestKept, RememberedKept DEF AllRest
  <1>6. Rest(e)' /\ Forgotten(e)'
    <2>1. row'[e] # None => /\ row[e] # None /\ row'[e].status = "completed" /\ row'[e].count = Parts[c]
                            /\ row'[e].path = row[e].path
      <3>1. row[e] \in {None} \cup Rows
        BY <1>0 DEF Typed
      <3>2. row'[e] = IF row[e] = None THEN None
                      ELSE [row[e] EXCEPT !.status = "completed", !.count = Parts[c]]
        BY <1>0 DEF CompleteTask, Typed
      <3> QED
        BY <3>1, <3>2 DEF Rows
    <2>2. Forgotten(e)'
      BY <2>1 DEF Forgotten
    <2>3. Rest(e)'
      <3>1. SUFFICES ASSUME row'[e] # None, e \notin ahead, \A u \in TaskIds : ~Open(u, e)'
                     PROVE  /\ Current(e, row[e].path, c)'
                            /\ chunks'[e] = Cut(c) /\ row'[e].count = Parts[c]
        BY <1>0, <1>1 DEF Rest, Cut
      <3>2. \A u \in TaskIds : Open(u, e) => u = t
        BY <1>3, <3>1 DEF Open
      <3>3. row[e].path = worker.path /\ Current(e, worker.path, c) /\ chunks[e] = Cut(c)
        BY <1>0, <2>1, <3>1, <3>2 DEF WorkIsCurrent
      <3> QED
        BY <1>1, <2>1, <3>1, <3>3 DEF Current, Unsettled
    <2> QED
      BY <2>2, <2>3
  <1>7. AllRest'
    BY <1>5, <1>6 DEF AllRest
  <1>8. WorkerKnows'
    BY <1>2 DEF WorkerKnows, Busy
  <1> QED
    BY <1>2, <1>4, <1>7, <1>8, WorkVacuous, TInvFromParts

(* What was interrupted is put back.                                         *)
LEMMA RecoveredKeeps ==
  ASSUME SInv, TInv, Recovered, UNCHANGED <<file, chunks>>, counts'.tasks = counts.tasks, ahead \subseteq ahead',
         \A d \in Docs : Unsettled(d) => Unsettled(d)' \/ d \in ahead',
         Adders' \subseteq Adders
  PROVE  Room' /\ AllRest'
  <1>0. Typed /\ Room /\ AllRest
    BY TInvToParts
  <1>1. ASSUME NEW t \in TaskIds
        PROVE  /\ tasks[t] = None => tasks'[t] = None
               /\ \A d \in Docs : Open(t, d) => Open(t, d)'
    <2>1. tasks'[t] = IF t \in Unfinished THEN NewTask(tasks[t].doc) ELSE tasks[t]
      BY DEF Recovered
    <2>2. t \in Unfinished => tasks[t] # None /\ tasks[t].doc \in Docs
      BY <1>0 DEF Unfinished, Typed, Tasks
    <2>3. t \in Unfinished => NewTask(tasks[t].doc) # None
      BY <2>2, Shapes
    <2> QED
      BY <2>1, <2>2, <2>3 DEF Open, NewTask
  <1>2. ASSUME NEW d \in Docs PROVE Untouched(d)
    <2>1. row'[d] # None => /\ row[d] # None /\ row'[d].path = row[d].path /\ row'[d].count = row[d].count
                            /\ row'[d].status = row[d].status \/ (row'[d].status # "completed" /\ \E t \in Unfinished : tasks[t].doc = d)
      <3>1. row[d] \in {None} \cup Rows
        BY <1>0 DEF Typed
      <3>2. row'[d] = IF row[d] # None /\ \E t \in Unfinished : tasks[t].doc = d
                      THEN [row[d] EXCEPT !.status = "uploaded"] ELSE row[d]
        BY DEF Recovered
      <3> QED
        BY <3>1, <3>2 DEF Rows
    <2>2. (\E t \in Unfinished : tasks[t].doc = d) => \E t \in TaskIds : Open(t, d)
      BY DEF Unfinished, Open
    <2> QED
      BY <1>1, <2>1, <2>2 DEF Untouched
  <1> QED
    BY <1>0, <1>1, <1>2, RoomKept, AllKept

LEMMA WorkerKeeps ==
  ASSUME SInv, TInv, WorkerAny PROVE TInv'
  <1>0. worker \in Works /\ Typed
    BY TInvToParts
  <1>1. CASE Recover
    <2>1. UNCHANGED <<file, chunks, writer, ahead>> /\ Recovered /\ worker'.pc = "idle"
          /\ counts'.tasks = counts.tasks
      BY <1>0, <1>1 DEF Recover, Resting, Typed, Counts
    <2>2. Room' /\ AllRest'
      BY <2>1, RecoveredKeeps DEF Unsettled, Adders
    <2>3. WorkerKnows'
      BY <2>1 DEF WorkerKnows, Busy
    <2> QED
      BY <2>1, <2>2, <2>3, WorkVacuous, TInvFromParts
  <1>2. CASE FailIngest
    <2>1. UNCHANGED <<stores, writer, ahead>> /\ counts'.tasks = counts.tasks
      BY <1>0, <1>2, MishapType DEF FailIngest
    <2>2. worker'.pc \in {"fail", "recover"} /\ worker'.task = worker.task /\ worker'.doc = worker.doc
      BY <1>0, <1>2 DEF FailIngest, Works
    <2>3. CASE Busy
      BY <2>1, <2>2, <2>3, EndsEarly
    <2>4. CASE ~Busy
      <3>1. worker'.pc = "recover"
        BY <1>0, <1>2, <2>4 DEF FailIngest, Busy, Works
      <3>2. WorkerKnows'
        BY <3>1 DEF WorkerKnows, Busy
      <3> QED
        BY <2>1, <3>1, <3>2, OnlyWorker, WorkVacuous, TInvFromParts
    <2> QED
      BY <2>3, <2>4
  <1>3. CASE FailRecovery
    <2>1. UNCHANGED <<stores, writer, ahead>> /\ worker'.pc = "idle" /\ counts'.tasks = counts.tasks
      BY <1>0, <1>3 DEF FailRecovery, Resting, Typed, Counts
    <2>2. WorkerKnows'
      BY <2>1 DEF WorkerKnows, Busy
    <2> QED
      BY <2>1, <2>2, OnlyWorker, WorkVacuous, TInvFromParts
  <1> QED
    BY <1>1, <1>2, <1>3, LeaseKeeps, ReadKeeps, ParseKeeps, StoreKeeps, EmbedKeeps, CompleteKeeps, FailTaskKeeps
       DEF WorkerAny, WorkerStep

LEMMA RestartKeeps ==
  ASSUME SInv, TInv, Restart PROVE TInv'
  <1>0. Typed
    BY TInvToParts
  <1>1. /\ UNCHANGED <<file, chunks>> /\ Recovered /\ worker'.pc = "idle"
        /\ \A w \in Writers : writer'[w].pc = "idle"
        /\ counts'.tasks = counts.tasks
    BY <1>0 DEF Restart, Resting, Idle, Typed, Counts
  <1>2. ahead \subseteq ahead' /\ \A d \in Docs : Unsettled(d) => d \in ahead'
    BY DEF Restart, Unsettled
  <1>3. Adders' \subseteq Adders
    BY <1>1 DEF Adders
  <1>4. Room' /\ AllRest'
    BY <1>1, <1>2, <1>3, RecoveredKeeps
  <1>5. WorkerKnows'
    BY <1>1 DEF WorkerKnows, Busy
  <1> QED
    BY <1>1, <1>4, <1>5, WorkVacuous, TInvFromParts

-----------------------------------------------------------------------------
LEMMA InitT == Init => TInv
  <1> SUFFICES ASSUME Init PROVE TInv
    OBVIOUS
  <1>1. \A d \in Docs : row[d] = None
    BY DEF Init
  <1>2. Room
    <2>1. Adders = {}
      BY DEF Init, Adders, Idle
    <2>2. \A t \in TaskIds : tasks[t] = None
      BY DEF Init
    <2>3. counts.tasks = 0
      BY DEF Init
    <2> QED
      BY <2>1, <2>2, <2>3, FS_EmptySet, BoundsAreNaturals DEF Room
  <1>3. WorkerKnows /\ WorkIsCurrent
    BY DEF Init, WorkerKnows, WorkIsCurrent, Busy, Resting
  <1>4. NoForgottenDocument /\ RestIsCurrent
    BY <1>1 DEF NoForgottenDocument, RestIsCurrent, Rest
  <1> QED
    BY <1>2, <1>3, <1>4 DEF TInv

(* SInv and TInv hold throughout.  They are one induction: the worker's steps *)
(* keep the types only because it knows its document.                        *)
THEOREM CaseStoreInvariance == Spec => [](SInv /\ TInv)
  <1>1. Init => SInv /\ TInv
    BY InitS, InitT
  <1>2. SInv /\ TInv /\ [Next]_vars => SInv' /\ TInv'
    <2> SUFFICES ASSUME SInv, TInv, [Next]_vars PROVE SInv' /\ TInv'
      OBVIOUS
    <2>1. ASSUME NEW w \in Writers, NewRequest(w) \/ WriterStep(w) \/ FailWrite(w) PROVE SInv' /\ TInv'
      <3>1. Typed'
        BY <2>1, StartTypes, WriterTypes, OtherTypes DEF SInv
      <3>2. RequestsKnow' /\ RebuildAlone' /\ Collected'
        BY <2>1, WriterKnows
      <3> QED
        BY <2>1, <3>1, <3>2, WriterKeeps DEF SInv
    <2>2. CASE WorkerAny
      <3>1. Typed'
        BY <2>2, WorkerTypes DEF TInv
      <3> QED
        BY <2>2, <3>1, WorkerUndisturbed, WorkerKeeps DEF SInv
    <2>3. CASE RebuildAny \/ SearchAny \/ Restart \/ UNCHANGED vars
      BY <2>3, OtherTypes, RebuildKnows, ReadersKeep, RestartKeeps DEF SInv
    <2> QED
      BY <2>1, <2>2, <2>3 DEF Next, WorkerAny, RebuildAny, SearchAny
  <1> QED
    BY <1>1, <1>2, PTL DEF Spec

(* No document is forgotten: whatever updates, failures, crashes and a lost   *)
(* index make of its tasks, one is left for as long as it is not completed.   *)
THEOREM NobodyForgotten == Spec => []NoForgottenDocument
  BY CaseStoreInvariance, PTL DEF TInv

(* A document nobody is at work on has the chunks of its file, although the   *)
(* worker completes tasks without asking whether the document has changed     *)
(* since it read it: the task of the change is there until it is carried out. *)
THEOREM IngestedCurrent == Spec => []IngestedIsCurrent
  <1>1. ASSUME SInv, TInv PROVE IngestedIsCurrent
    <2> SUFFICES ASSUME NEW d \in Docs, row[d] # None, Quiet(d), ~Outstanding(d),
                        d \notin ahead, file[d][row[d].path] # None
                 PROVE  /\ row[d].status = "completed"
                        /\ row[d].count = Parts[file[d][row[d].path]]
                        /\ chunks[d] = Cut(file[d][row[d].path])
      BY DEF IngestedIsCurrent, Cut
    <2>1. row[d].status = "completed"
      BY <1>1, TInvParts DEF Forgotten
    <2>2. \A t \in TaskIds : ~Open(t, d)
      BY DEF Outstanding, Open
    <2>3. ~Unsettled(d)
      BY DEF Quiet, Unsettled
    <2>4. PICK c \in Contents \cup {None} :
            Current(d, row[d].path, c) /\ (c # None => chunks[d] = Cut(c) /\ row[d].count = Parts[c])
      BY <1>1, <2>2, TInvParts DEF Rest
    <2>5. file[d][row[d].path] = c
      BY <2>3, <2>4 DEF Current
    <2> QED
      BY <2>1, <2>4, <2>5
  <1> QED
    BY <1>1, CaseStoreInvariance, PTL

(* The index is only ever replaced as a whole: what a rebuild has collected is *)
(* still what the business database holds when it puts it in place, and only a *)
(* start with nothing to index creates an empty index.                       *)
THEOREM ReplacedWhole == Spec => IndexReplacedWhole
  <1> DEFINE A == /\ rebuild.pc = "swap" /\ rebuild'.pc = "completed" =>
                       index' = RecordsOfRows /\ chunks' = chunks /\ ~search
                  /\ index = None /\ index' # None => index' = RecordsOfRows'
  <1>1. ASSUME SInv, [Next]_vars PROVE [A]_vars
    <2>1. CASE SwapIndex
      <3>1. rebuild.pc = "swap" /\ index' = temp /\ ~search /\ UNCHANGED chunks
        BY <2>1 DEF SwapIndex, AccessFree, stores
      <3>2. temp = RecordsOfRows
        BY <1>1, <3>1 DEF SInv, Collected
      <3>3. RecordsOfRows' = RecordsOfRows
        BY <3>1 DEF RecordsOfRows
      <3> QED
        BY <3>1, <3>2, <3>3
    <2>2. CASE Restart
      <3>1. rebuild'.pc = "none" /\ UNCHANGED chunks /\ index' = IndexAtStart
        BY <2>2 DEF Restart, NoRebuild
      <3>2. index = None /\ index' # None => index' = {} /\ \A d \in Docs : chunks'[d] = None
        BY <3>1 DEF IndexAtStart
      <3>3. (\A d \in Docs : chunks'[d] = None) => RecordsOfRows' = {}
        BY DEF RecordsOfRows
      <3> QED
        BY <3>1, <3>2, <3>3
    <2>3. CASE RebuildAny /\ ~SwapIndex
      <3>1. rebuild \in [pc: {"none", "queued", "lock", "scan", "check", "swap", "completed", "failed"}, id: Nat]
        BY <1>1 DEF SInv, Typed
      <3>2. UNCHANGED index /\ ~(rebuild.pc = "swap" /\ rebuild'.pc = "completed")
        BY <2>3, <3>1 DEF RebuildAny, RebuildStep, StartRebuild, BeginRebuild, LockMutations, FillTemp, CheckTemp,
                          FinishRebuild, FailRebuild, PanicRebuild, NoRebuild
      <3> QED
        BY <3>2
    <2>4. ASSUME \/ \E w \in Writers : NewRequest(w) \/ WriterStep(w) \/ FailWrite(w)
                 \/ WorkerAny
                 \/ SearchAny
          PROVE  A
      <3>1. UNCHANGED rebuild
        BY <2>4 DEF NewRequest, StartCreate, StartUpdate, StartRename, StartDelete, StartWrite, WriterStep, WriteFile,
                    CommitCreate, CommitUpdate, ListRecords, ReplaceRecords, CommitDelete, RemoveFiles, MissIndex,
                    FailWrite, WorkerAny, WorkerStep, LeaseTask, ReadRow, ParseFile, StoreChunks, IndexChunks, CompleteTask,
                    FailTask, Recover, FailIngest, FailRecovery, SearchAny, BeginSearch, EndSearch, LoseIndex, gate
      <3>2. index = None => index' = None
        BY <2>4 DEF NewRequest, StartCreate, StartUpdate, StartRename, StartDelete, StartWrite, WriterStep, WriteFile,
                    CommitCreate, CommitUpdate, ListRecords, ReplaceRecords, CommitDelete, RemoveFiles, MissIndex,
                    FailWrite, WorkerAny, WorkerStep, LeaseTask, ReadRow, ParseFile, StoreChunks, IndexChunks, CompleteTask,
                    FailTask, Recover, FailIngest, FailRecovery, SearchAny, BeginSearch, EndSearch, LoseIndex
      <3> QED
        BY <3>1, <3>2
    <2> QED
      BY <1>1, <2>1, <2>2, <2>3, <2>4 DEF Next, WorkerAny, RebuildAny, SearchAny
  <1>2. SInv /\ [Next]_vars => [A]_vars
    BY <1>1
  <1>3. Spec => [][A]_vars
    BY <1>2, CaseStoreInvariance, PTL DEF Spec
  <1> QED
    BY <1>3 DEF IndexReplacedWhole
=============================================================================
