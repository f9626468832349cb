------------------------------ MODULE KvProofs ------------------------------
(***************************************************************************)
(* Machine-checked proofs about KvManager and KvDaemon, for all constants  *)
(* that satisfy their assumptions.                                         *)
(*                                                                         *)
(* The coordinator: its variables keep to their types, fork ids tell forks *)
(* apart, the reference counts are right, no chunk stays on the            *)
(* accelerator unnoticed, and KvManager implements ChunkLedger.            *)
(*                                                                         *)
(* The daemon: the reference counts survive crashes and restarts, the      *)
(* session store says what the memory says, and pinned rows stay.  What    *)
(* the coordinator does inside the daemon is a step of DropNext of         *)
(* KvManager, and the lemmas of the first part apply to it.  Three kinds   *)
(* of step are the daemon's own: a fork_end with an id of an earlier       *)
(* process, a client that hangs up between two calls, and the restart.     *)
(***************************************************************************)
EXTENDS KvDaemon, KvManagerRefinement, FiniteSetTheorems, TLAPS

(* Counting changes one natural number per chunk into another.             *)
LEMMA AdjustedType ==
  ASSUME refcounts \in [Chunks -> Nat], NEW drop, NEW add
  PROVE  Adjusted(drop, add) \in [Chunks -> Nat]
  BY DEF Adjusted

LEMMA IdleRequestType == IdleRequest \in Request
  BY DEF Request

(* Only the idle request is in pc "idle".                                  *)
LEMMA ActiveType ==
  ASSUME TypeOK, NEW r \in Requests, req[r].pc # "idle"
  PROVE  req[r] \in ActiveRequest
  BY DEF TypeOK, Request, IdleRequest

(* A request that has done its critical section is a request.              *)
LEMMA ProceedType ==
  ASSUME TypeOK, NEW r \in Requests, NEW s \in Sessions,
         NEW evict \in SUBSET Chunks, NEW hashes \in SUBSET Chunks,
         NEW op \in Operations, Proceed(r, op, s, evict, hashes)
  PROVE  req' \in [Requests -> Request]
  BY DEF TypeOK, Proceed, NextCall, Request, ActiveRequest

(* A request moves on to a later stage.                                    *)
LEMMA AdvanceType ==
  ASSUME TypeOK, NEW r \in Requests, req[r].pc # "idle",
         NEW pc \in {"fork_read", "fork_id", "fork_inserted",
                     "evict", "prefetch", "done"},
         Advance(r, pc)
  PROVE  req' \in [Requests -> Request]
  BY ActiveType DEF TypeOK, Advance, Request, ActiveRequest

LEMMA EvictableType ==
  ASSUME NEW drop \in SUBSET Chunks
  PROVE  Evictable(drop) \in SUBSET Chunks
  BY DEF Evictable

(* A fork_end selects snapshots.                                           *)
LEMMA SelectionsType ==
  ASSUME TypeOK, NEW s \in Sessions, NEW chosen \in Selections(s)
  PROVE  /\ chosen \subseteq snapshots
         /\ UNION {f.hashes : f \in chosen} \in SUBSET Chunks
  BY DEF TypeOK, Selections, SelectById, SelectLatest, Snapshot

(* An empty coordinator has the types.                                     *)
THEOREM InitType == Init => TypeOK
  BY IdleRequestType, FS_EmptySet DEF Init, TypeOK

LEMMA EventType ==
  ASSUME TypeOK, NEW r \in Requests, NEW s \in Sessions, Event(r, s)
  PROVE  TypeOK'
  <1>1. CASE TurnStart(r, s)
    <2>1. req' \in [Requests -> Request]
      BY <1>1, ProceedType DEF TurnStart, TypeOK, Operations
    <2> QED  BY <1>1, <2>1 DEF TurnStart, TypeOK, stateVars, forkVars, backendVars
  <1>2. CASE TurnEndNoKv(r, s)
    <2>1. req' \in [Requests -> Request]
      BY <1>2, ProceedType DEF TurnEndNoKv, Operations
    <2> QED  BY <1>2, <2>1 DEF TurnEndNoKv, TypeOK, forkVars, backendVars
  <1>3. ASSUME NEW new \in SUBSET Chunks, TurnEnd(r, s, new)
        PROVE  TypeOK'
    <2>1. req' \in [Requests -> Request]
      BY <1>3, ProceedType, EvictableType DEF TurnEnd, TypeOK, Operations
    <2>2. refcounts' \in [Chunks -> Nat]
      BY <1>3, AdjustedType DEF TurnEnd, TypeOK
    <2>3. /\ open' \subseteq Sessions
          /\ map' \in [Sessions -> SUBSET Chunks]
          /\ turns' \in [Sessions -> Nat]
          /\ \A t \in Sessions \ open' : map'[t] = {} /\ turns'[t] = 0
      BY <1>3 DEF TurnEnd, TypeOK
    <2>4. resident' \subseteq Chunks
      BY <1>3 DEF TurnEnd, TypeOK
    <2> QED  BY <1>3, <2>1, <2>2, <2>3, <2>4 DEF TurnEnd, TypeOK, forkVars
  <1>4. ASSUME NEW new \in SUBSET Chunks, OnSnapshotRestore(r, s, new)
        PROVE  TypeOK'
    <2>1. req' \in [Requests -> Request]
      BY <1>4, ProceedType, EvictableType DEF OnSnapshotRestore, TypeOK, Operations
    <2>2. refcounts' \in [Chunks -> Nat]
      BY <1>4, AdjustedType DEF OnSnapshotRestore, TypeOK
    <2> QED  BY <1>4, <2>1, <2>2 DEF OnSnapshotRestore, TypeOK, forkVars, backendVars
  <1>5. CASE OnSessionClose(r, s)
    <2>1. req' \in [Requests -> Request]
      BY <1>5, ProceedType, EvictableType DEF OnSessionClose, TypeOK, Operations
    <2>2. refcounts' \in [Chunks -> Nat]
      BY <1>5, AdjustedType DEF OnSessionClose, TypeOK
    <2> QED  BY <1>5, <2>1, <2>2 DEF OnSessionClose, TypeOK, forkVars, backendVars
  <1>6. CASE ForkRead(r, s)
    <2>1. req' \in [Requests -> Request]
      BY <1>6 DEF ForkRead, TypeOK, Request, ActiveRequest, Operations
    <2> QED  BY <1>6, <2>1 DEF ForkRead, TypeOK, stateVars, forkVars, backendVars
  <1>7. CASE ForkEnd(r, s)
    <2>1. PICK chosen \in Selections(s) :
            /\ snapshots' = snapshots \ chosen
            /\ refcounts' = Adjusted(UNION {f.hashes : f \in chosen}, {})
            /\ Proceed(r, "session_fork_end", s,
                       Evictable(UNION {f.hashes : f \in chosen}), {})
            /\ UNCHANGED <<stateVars, nextForkId, uncounted, issued,
                           backendVars, drops>>
      BY <1>7 DEF ForkEnd
    <2>2. req' \in [Requests -> Request]
      BY <2>1, SelectionsType, ProceedType, EvictableType DEF Operations
    <2>3. refcounts' \in [Chunks -> Nat]
      BY <2>1, AdjustedType DEF TypeOK
    <2>4. snapshots' \subseteq Snapshot /\ IsFiniteSet(snapshots')
      BY <2>1, FS_Subset DEF TypeOK
    <2> QED  BY <2>1, <2>2, <2>3, <2>4 DEF TypeOK, stateVars, backendVars
  <1> QED  BY <1>1, <1>2, <1>3, <1>4, <1>5, <1>6, <1>7 DEF Event

LEMMA CallOfType ==
  ASSUME TypeOK, NEW r \in Requests, Calling(r)
  PROVE  CallOf(r) \in BackendCall
  BY ActiveType DEF Calling, CallOf, At, ActiveRequest, BackendCall

(* An answered request goes on or is done; it remains a request.           *)
LEMMA AnsweredType ==
  ASSUME TypeOK, NEW r \in Requests, Calling(r), Answered(r)
  PROVE  req' \in [Requests -> Request]
  <1>1. req[r] \in ActiveRequest
    BY ActiveType DEF Calling
  <1>2. /\ req[r].op \in Operations
        /\ req[r].session \in Sessions
        /\ (IF At(r, "evict") THEN req[r].hashes ELSE {}) \in SUBSET Chunks
    BY <1>1 DEF ActiveRequest
  <1> QED  BY <1>2, ProceedType DEF Answered

LEMMA ApplyType ==
  ASSUME TypeOK, NEW call \in BackendCall, Apply(call)
  PROVE  resident' \subseteq Chunks /\ stray' \subseteq Chunks
  BY DEF TypeOK, Apply, BackendCall

LEMMA GiveUpType ==
  ASSUME TypeOK, NEW call \in BackendCall, GiveUp(call)
  PROVE  stray' \subseteq Chunks
  BY DEF TypeOK, GiveUp, BackendCall

LEMMA ContinueType ==
  ASSUME TypeOK, Continue
  PROVE  TypeOK'
  <1>1. ASSUME NEW r \in Requests, ForkTakeId(r)
        PROVE  TypeOK'
    <2>1. req[r] \in ActiveRequest
      BY <1>1, ActiveType DEF ForkTakeId, At
    <2>2. req' \in [Requests -> Request]
      BY <1>1, <2>1 DEF ForkTakeId, TypeOK, Request, ActiveRequest
    <2> QED  BY <1>1, <2>2 DEF ForkTakeId, TypeOK, stateVars, backendVars
  <1>2. ASSUME NEW r \in Requests, ForkInsert(r)
        PROVE  TypeOK'
    <2>1. SnapshotOf(r) \in Snapshot
      BY <1>2, ActiveType DEF ForkInsert, At, SnapshotOf, Snapshot, ActiveRequest
    <2>2. req' \in [Requests -> Request]
      BY <1>2, AdvanceType DEF ForkInsert, At
    <2>3. /\ snapshots' \subseteq Snapshot /\ IsFiniteSet(snapshots')
          /\ uncounted' \subseteq Snapshot /\ IsFiniteSet(uncounted')
      BY <1>2, <2>1, FS_AddElement DEF ForkInsert, TypeOK
    <2> QED  BY <1>2, <2>2, <2>3 DEF ForkInsert, TypeOK, stateVars, backendVars
  <1>3. ASSUME NEW r \in Requests, ForkCount(r)
        PROVE  TypeOK'
    <2>1. req' \in [Requests -> Request]
      BY <1>3, AdvanceType DEF ForkCount, At
    <2>2. refcounts' \in [Chunks -> Nat]
      BY <1>3, AdjustedType DEF ForkCount, TypeOK
    <2>3. uncounted' \subseteq Snapshot /\ IsFiniteSet(uncounted')
      BY <1>3, FS_Subset DEF ForkCount, TypeOK
    <2> QED  BY <1>3, <2>1, <2>2, <2>3 DEF ForkCount, TypeOK, stateVars, backendVars
  <1>4. ASSUME NEW r \in Requests, BackendAnswers(r)
        PROVE  TypeOK'
    <2>1. Calling(r) /\ Answered(r)
      BY <1>4 DEF BackendAnswers, BackendApplies, BackendRefuses, BackendTimesOut
    <2>2. CallOf(r) \in BackendCall /\ req' \in [Requests -> Request]
      BY <2>1, CallOfType, AnsweredType
    <2>3. /\ resident' \subseteq Chunks
          /\ stray' \subseteq Chunks
          /\ late' \subseteq BackendCall
      BY <1>4, <2>2, ApplyType, GiveUpType
         DEF BackendAnswers, BackendApplies, BackendRefuses, BackendTimesOut, TypeOK
    <2>4. UNCHANGED <<stateVars, refcounts, forkVars, drops>>
      BY <1>4 DEF BackendAnswers, BackendApplies, BackendRefuses, BackendTimesOut
    <2> QED  BY <2>2, <2>3, <2>4 DEF TypeOK, stateVars, forkVars
  <1>5. ASSUME NEW call \in late, LateApplies(call) \/ LateLost(call)
        PROVE  TypeOK'
    <2>1. call \in BackendCall
      BY <1>5 DEF TypeOK
    <2> QED  BY <1>5, <2>1, ApplyType
             DEF LateApplies, LateLost, TypeOK, stateVars, forkVars
  <1> QED  BY <1>1, <1>2, <1>3, <1>4, <1>5 DEF Continue, ForkStep

LEMMA DropType ==
  ASSUME TypeOK, ClientDrops
  PROVE  TypeOK'
  <1>1. ASSUME NEW r \in Requests, DropFork(r)
        PROVE  TypeOK'
    <2>1. req' \in [Requests -> Request]
      BY <1>1, IdleRequestType DEF DropFork, TypeOK
    <2> QED  BY <1>1, <2>1 DEF DropFork, Drop, TypeOK, stateVars, forkVars, backendVars
  <1>2. ASSUME NEW r \in Requests, DropCall(r)
        PROVE  TypeOK'
    <2>1. req' \in [Requests -> Request]
      BY <1>2, IdleRequestType DEF DropCall, TypeOK
    <2>2. CallOf(r) \in BackendCall
      BY <1>2, CallOfType DEF DropCall
    <2>3. stray' \subseteq Chunks /\ late' \subseteq BackendCall
      BY <1>2, <2>2, GiveUpType DEF DropCall, TypeOK
    <2> QED  BY <1>2, <2>1, <2>3 DEF DropCall, Drop, TypeOK, stateVars, forkVars
  <1>3. ASSUME NEW s \in Sessions, DropClose(s)
        PROVE  TypeOK'
    BY <1>3 DEF DropClose, Drop, TypeOK, forkVars, backendVars
  <1>4. ASSUME NEW s \in Sessions, DropForkEnd(s)
        PROVE  TypeOK'
    <2>1. snapshots' \subseteq Snapshot /\ IsFiniteSet(snapshots')
      BY <1>4, FS_Subset DEF DropForkEnd, TypeOK
    <2> QED  BY <1>4, <2>1 DEF DropForkEnd, Drop, TypeOK, stateVars, backendVars
  <1>5. ASSUME NEW s \in Sessions, NEW new \in SUBSET Chunks, DropTurnEnd(s, new)
        PROVE  TypeOK'
    <2>1. /\ open' \subseteq Sessions
          /\ turns' \in [Sessions -> Nat]
          /\ \A t \in Sessions \ open' : map'[t] = {} /\ turns'[t] = 0
      BY <1>5 DEF DropTurnEnd, TypeOK
    <2>2. resident' \subseteq Chunks /\ stray' \subseteq Chunks
      BY <1>5 DEF DropTurnEnd, TypeOK
    <2> QED  BY <1>5, <2>1, <2>2 DEF DropTurnEnd, Drop, TypeOK, forkVars
  <1> QED  BY <1>1, <1>2, <1>3, <1>4, <1>5 DEF ClientDrops

LEMMA ReturnType ==
  ASSUME TypeOK, NEW r \in Requests, Return(r)
  PROVE  TypeOK'
  <1>1. req' \in [Requests -> Request]
    BY IdleRequestType DEF Return, TypeOK
  <1>2. issued' \subseteq Nat
    BY ActiveType DEF Return, At, TypeOK, ActiveRequest
  <1> QED  BY <1>1, <1>2 DEF Return, TypeOK, stateVars, backendVars

LEMMA TypeStep == TypeOK /\ [DropNext]_vars => TypeOK'
  <1> SUFFICES ASSUME TypeOK, [DropNext]_vars
               PROVE  TypeOK'
    OBVIOUS
  <1>1. CASE UNCHANGED vars
    BY <1>1 DEF vars, TypeOK
  <1>2. CASE DropNext
    BY <1>2, EventType, ReturnType, ContinueType, DropType DEF DropNext, Next
  <1> QED  BY <1>1, <1>2

(* Every reachable state of the coordinator is well typed.                 *)
THEOREM TypeCorrect == DropSpec => []TypeOK
  BY InitType, TypeStep, PTL DEF DropSpec

(***************************************************************************)
(* Fork ids.  Most steps neither number, record nor count a fork: they     *)
(* change requests that are not forks, and at most remove snapshots.       *)
(***************************************************************************)
NotAFork(q) == q.op # "session_fork"
                 /\ q.pc \notin {"fork_read", "fork_id", "fork_inserted"}

LEMMA NumberingFrame ==
  ASSUME Numbering, snapshots' \subseteq snapshots,
         UNCHANGED <<nextForkId, uncounted, issued>>,
         \A q \in Requests : req'[q] = req[q] \/ NotAFork(req'[q])
  PROVE  Numbering'
  BY DEF Numbering, NotAFork, HasId, At, Calling, ForkIds, SnapshotOf

LEMMA NumberingInit == Init => Numbering
  BY DEF Init, Numbering, IdleRequest, HasId, At, Calling, ForkIds

(* A request that proceeds with an operation other than a fork.            *)
LEMMA ProceedNotAFork ==
  ASSUME TypeOK, NEW r \in Requests, NEW op, op # "session_fork",
         NEW s, NEW evict, NEW hashes, Proceed(r, op, s, evict, hashes)
  PROVE  \A q \in Requests : req'[q] = req[q] \/ NotAFork(req'[q])
  BY DEF TypeOK, Proceed, NextCall, NotAFork

LEMMA NumberingEvent ==
  ASSUME TypeOK, Numbering, NEW r \in Requests, NEW s \in Sessions, Event(r, s)
  PROVE  Numbering'
  <1>1. CASE TurnStart(r, s)
    BY <1>1, ProceedNotAFork, NumberingFrame DEF TurnStart, forkVars
  <1>2. CASE TurnEndNoKv(r, s)
    BY <1>2, ProceedNotAFork, NumberingFrame DEF TurnEndNoKv, forkVars
  <1>3. ASSUME NEW new \in SUBSET Chunks, TurnEnd(r, s, new)
        PROVE  Numbering'
    BY <1>3, ProceedNotAFork, NumberingFrame DEF TurnEnd, forkVars
  <1>4. ASSUME NEW new \in SUBSET Chunks, OnSnapshotRestore(r, s, new)
        PROVE  Numbering'
    BY <1>4, ProceedNotAFork, NumberingFrame DEF OnSnapshotRestore, forkVars
  <1>5. CASE OnSessionClose(r, s)
    BY <1>5, ProceedNotAFork, NumberingFrame DEF OnSessionClose, forkVars
  <1>6. CASE ForkRead(r, s)
    <2>1. /\ UNCHANGED <<snapshots, nextForkId, uncounted, issued>>
          /\ \A q \in Requests : q # r => req'[q] = req[q]
          /\ req'[r].pc = "fork_read" /\ req'[r].op = "session_fork"
      BY <1>6 DEF ForkRead, forkVars, TypeOK
    <2> QED  BY <2>1 DEF Numbering, HasId, At, Calling, ForkIds, SnapshotOf
  <1>7. CASE ForkEnd(r, s)
    <2>1. PICK chosen \in Selections(s) :
            /\ snapshots' = snapshots \ chosen
            /\ Proceed(r, "session_fork_end", s,
                       Evictable(UNION {f.hashes : f \in chosen}), {})
            /\ UNCHANGED <<nextForkId, uncounted, issued>>
      BY <1>7 DEF ForkEnd
    <2> QED  BY <2>1, ProceedNotAFork, NumberingFrame
  <1> QED  BY <1>1, <1>2, <1>3, <1>4, <1>5, <1>6, <1>7 DEF Event

LEMMA NumberingFork ==
  ASSUME TypeOK, Numbering, NEW r \in Requests, ForkStep(r)
  PROVE  Numbering'
  <1>1. CASE ForkTakeId(r)
    <2>1. /\ \A q \in Requests : q # r => req'[q] = req[q]
          /\ req'[r].pc = "fork_id" /\ req'[r].op = "session_fork"
          /\ req'[r].fork = nextForkId
      BY <1>1 DEF ForkTakeId, At, TypeOK, Request, ActiveRequest, Numbering
    <2>2. nextForkId' = nextForkId + 1 /\ nextForkId \in Nat
      BY <1>1 DEF ForkTakeId, TypeOK
    <2>3. UNCHANGED <<snapshots, uncounted, issued>>
      BY <1>1 DEF ForkTakeId
    <2>4. /\ \A id \in issued : id \in Nat
          /\ \A f \in snapshots \cup uncounted : f.id \in Nat
          /\ \A q \in Requests : HasId(q) => req[q].fork \in Nat
      <3>1. issued \subseteq Nat /\ snapshots \cup uncounted \subseteq Snapshot
        BY DEF TypeOK
      <3>2. \A f \in Snapshot : f.id \in Nat
        BY DEF Snapshot
      <3>3. ASSUME NEW q \in Requests, HasId(q)
            PROVE  req[q].fork \in Nat
        <4>1. req[q] \in ActiveRequest \cup {IdleRequest}
          BY DEF TypeOK, Request
        <4>2. req[q] # IdleRequest
          BY <3>3 DEF HasId, IdleRequest
        <4>3. \A x \in ActiveRequest : x.fork \in Nat
          BY DEF ActiveRequest
        <4> QED  BY <4>1, <4>2, <4>3
      <3> QED  BY <3>1, <3>2, <3>3
    <2>5. /\ nextForkId \notin issued
          /\ nextForkId \notin ForkIds(snapshots)
          /\ nextForkId \notin ForkIds(uncounted)
          /\ \A q \in Requests : HasId(q) => req[q].fork # nextForkId
      BY <2>2, <2>4 DEF Numbering, ForkIds
    <2>6. /\ \A id \in issued \cup ForkIds(snapshots \cup uncounted) : id < nextForkId'
          /\ \A q \in Requests : HasId(q) => req[q].fork < nextForkId'
      <3>1. \A id \in issued : id < nextForkId'
        BY <2>2, <2>4 DEF Numbering
      <3>2. \A f \in snapshots \cup uncounted : f.id < nextForkId'
        BY <2>2, <2>4 DEF Numbering, ForkIds
      <3>3. \A q \in Requests : HasId(q) => req[q].fork < nextForkId'
        BY <2>2, <2>4 DEF Numbering
      <3> QED  BY <3>1, <3>2, <3>3 DEF ForkIds
    <2> QED  BY <2>1, <2>2, <2>3, <2>5, <2>6
             DEF Numbering, HasId, At, Calling, ForkIds, SnapshotOf
  <1>2. CASE ForkInsert(r)
    <2> DEFINE new == SnapshotOf(r)
    <2>1. /\ \A q \in Requests : q # r => req'[q] = req[q]
          /\ req[r].pc = "fork_id" /\ req'[r].pc = "fork_inserted"
          /\ req'[r].op = req[r].op /\ req[r].op = "session_fork"
          /\ req'[r].fork = req[r].fork
          /\ req'[r].session = req[r].session
          /\ req'[r].hashes = req[r].hashes
      BY <1>2 DEF ForkInsert, Advance, At, TypeOK, Request, ActiveRequest, Numbering
    <2>2. /\ snapshots' = snapshots \cup {new}
          /\ uncounted' = uncounted \cup {new}
          /\ UNCHANGED <<nextForkId, issued>>
      BY <1>2 DEF ForkInsert
    <2>3. new.id = req[r].fork /\ SnapshotOf(r)' = new
      BY <2>1 DEF SnapshotOf
    <2>4. /\ HasId(r) /\ new.id < nextForkId /\ new.id \notin issued
          /\ new.id \notin ForkIds(snapshots) /\ new.id \notin ForkIds(uncounted)
          /\ \A q \in Requests : q # r /\ HasId(q) => req[q].fork # new.id
      BY <2>1, <2>3 DEF Numbering, HasId, At
    <2> HIDE DEF new
    <2> QED  BY <2>1, <2>2, <2>3, <2>4
             DEF Numbering, HasId, At, Calling, ForkIds, SnapshotOf
  <1>3. CASE ForkCount(r)
    <2>1. /\ \A q \in Requests : q # r => req'[q] = req[q]
          /\ req[r].pc = "fork_inserted" /\ req'[r].pc = "done"
          /\ req'[r].op = req[r].op /\ req'[r].fork = req[r].fork
      BY <1>3 DEF ForkCount, Advance, At, TypeOK, Request, ActiveRequest
    <2>2. /\ uncounted' = uncounted \ {SnapshotOf(r)}
          /\ UNCHANGED <<snapshots, nextForkId, issued>>
      BY <1>3 DEF ForkCount
    <2>3. /\ SnapshotOf(r) \in uncounted /\ SnapshotOf(r).id = req[r].fork
          /\ HasId(r)
          /\ \A f \in uncounted : f.id = req[r].fork => f = SnapshotOf(r)
      BY <2>1 DEF Numbering, HasId, At, SnapshotOf
    <2>4. req[r].fork \notin ForkIds(uncounted')
      BY <2>2, <2>3 DEF ForkIds
    <2>5. \A q \in Requests : q # r /\ At(q, "fork_inserted") =>
            SnapshotOf(q) \in uncounted'
      BY <2>1, <2>2, <2>3 DEF Numbering, HasId, At, SnapshotOf
    <2> QED  BY <2>1, <2>2, <2>3, <2>4, <2>5
             DEF Numbering, HasId, At, Calling, ForkIds, SnapshotOf
  <1> QED  BY <1>1, <1>2, <1>3 DEF ForkStep

LEMMA NumberingRest ==
  ASSUME TypeOK, Numbering,
         \/ \E r \in Requests : Return(r) \/ BackendAnswers(r)
         \/ \E call \in late : LateApplies(call) \/ LateLost(call)
         \/ ClientDrops
  PROVE  Numbering'
  <1>1. ASSUME NEW r \in Requests, Return(r)
        PROVE  Numbering'
    <2>1. /\ \A q \in Requests : q # r => req'[q] = req[q]
          /\ req'[r].op = "none" /\ req'[r].pc = "idle" /\ req[r].pc = "done"
          /\ UNCHANGED <<snapshots, nextForkId, uncounted>>
      BY <1>1 DEF Return, IdleRequest, At, TypeOK
    <2>2. /\ issued' \subseteq issued \cup {req[r].fork}
          /\ issued' # issued => HasId(r)
      BY <1>1 DEF Return, HasId, At
    <2>3. HasId(r) => /\ req[r].fork < nextForkId
                     /\ req[r].fork \notin ForkIds(uncounted)
                     /\ \A q \in Requests : q # r /\ HasId(q) =>
                          req[q].fork # req[r].fork
      BY <2>1 DEF Numbering, HasId, At
    <2>4. issued' \cap ForkIds(uncounted) = {}
      BY <2>2, <2>3 DEF Numbering
    <2>5. \A id \in issued' : id < nextForkId
      BY <2>2, <2>3 DEF Numbering
    <2>6. \A q \in Requests : q # r /\ HasId(q) => req[q].fork \notin issued'
      BY <2>2, <2>3 DEF Numbering
    <2> QED  BY <2>1, <2>4, <2>5, <2>6
             DEF Numbering, HasId, At, Calling, ForkIds, SnapshotOf
  <1>2. ASSUME NEW r \in Requests, BackendAnswers(r)
        PROVE  Numbering'
    <2>1. /\ Calling(r) /\ Answered(r)
          /\ UNCHANGED <<snapshots, nextForkId, uncounted, issued>>
      BY <1>2 DEF BackendAnswers, BackendApplies, BackendRefuses,
                  BackendTimesOut, forkVars
    <2>2. req[r].op # "session_fork"
      BY <2>1 DEF Numbering
    <2> QED  BY <2>1, <2>2, ProceedNotAFork, NumberingFrame DEF Answered
  <1>3. ASSUME NEW call \in late, LateApplies(call) \/ LateLost(call)
        PROVE  Numbering'
    BY <1>3, NumberingFrame DEF LateApplies, LateLost, forkVars
  <1>4. CASE ClientDrops
    <2>1. ASSUME NEW r \in Requests, DropFork(r) \/ DropCall(r)
          PROVE  Numbering'
      <3>1. \A q \in Requests : req'[q] = req[q] \/ NotAFork(req'[q])
        BY <2>1 DEF DropFork, DropCall, IdleRequest, NotAFork, TypeOK
      <3> QED  BY <2>1, <3>1, NumberingFrame DEF DropFork, DropCall, forkVars
    <2>2. ASSUME NEW s \in Sessions, DropClose(s)
          PROVE  Numbering'
      BY <2>2, NumberingFrame DEF DropClose, forkVars
    <2>3. ASSUME NEW s \in Sessions, DropForkEnd(s)
          PROVE  Numbering'
      BY <2>3, NumberingFrame DEF DropForkEnd
    <2>4. ASSUME NEW s \in Sessions, NEW new \in SUBSET Chunks, DropTurnEnd(s, new)
          PROVE  Numbering'
      BY <2>4, NumberingFrame DEF DropTurnEnd, forkVars
    <2> QED  BY <1>4, <2>1, <2>2, <2>3, <2>4 DEF ClientDrops
  <1> QED  BY <1>1, <1>2, <1>3, <1>4

LEMMA NumberingStep == TypeOK /\ Numbering /\ [DropNext]_vars => Numbering'
  <1> SUFFICES ASSUME TypeOK, Numbering, [DropNext]_vars
               PROVE  Numbering'
    OBVIOUS
  <1>1. CASE UNCHANGED vars
    BY <1>1, NumberingFrame DEF vars
  <1>2. CASE DropNext
    BY <1>2, NumberingEvent, NumberingFork, NumberingRest DEF DropNext, Next, Continue
  <1> QED  BY <1>1, <1>2

(* Fork ids are never confused, in any run of the coordinator.             *)
THEOREM ForkIdsDistinct == DropSpec => []Numbering
  <1>1. TypeOK /\ Numbering /\ [DropNext]_vars => Numbering'
    BY NumberingStep
  <1> QED  BY <1>1, TypeCorrect, NumberingInit, PTL DEF DropSpec

(***************************************************************************)
(* Counting references.                                                    *)
(***************************************************************************)
LEMMA RefsFinite ==
  ASSUME TypeOK, NEW c \in Chunks
  PROVE  /\ IsFiniteSet(SessionRefs(c)) /\ Cardinality(SessionRefs(c)) \in Nat
         /\ IsFiniteSet(ForkRefs(c)) /\ Cardinality(ForkRefs(c)) \in Nat
         /\ IsFiniteSet(Owed(c)) /\ Cardinality(Owed(c)) \in Nat
  <1>1. SessionRefs(c) \subseteq Sessions /\ ForkRefs(c) \subseteq snapshots
          /\ Owed(c) \subseteq uncounted
    BY DEF SessionRefs, ForkRefs, Owed
  <1> QED  BY <1>1, SessionsAssumption, FS_Subset, FS_CardinalityType DEF TypeOK

(* Replacing one session's map moves the session in or out of the holders  *)
(* of exactly the chunks that differ.                                      *)
LEMMA SessionRefsStep ==
  ASSUME TypeOK, NEW s \in Sessions, NEW new \in SUBSET Chunks, NEW c \in Chunks,
         map' = [map EXCEPT ![s] = new]
  PROVE  /\ c \in map[s] => Cardinality(SessionRefs(c)) >= 1
         /\ Cardinality(SessionRefs(c)') =
              IF c \in map[s] \ new THEN Cardinality(SessionRefs(c)) - 1
              ELSE IF c \in new \ map[s] THEN Cardinality(SessionRefs(c)) + 1
              ELSE Cardinality(SessionRefs(c))
  <1>1. /\ \A t \in Sessions : t # s => map'[t] = map[t]
        /\ map'[s] = new
    BY DEF TypeOK
  <1>2. IsFiniteSet(SessionRefs(c)) /\ Cardinality(SessionRefs(c)) \in Nat
    BY RefsFinite
  <1>3. c \in map[s] => Cardinality(SessionRefs(c)) >= 1
    <2> SUFFICES ASSUME c \in map[s]
                 PROVE  Cardinality(SessionRefs(c)) >= 1
      OBVIOUS
    <2>1. SessionRefs(c) # {}
      BY DEF SessionRefs
    <2> QED  BY <1>2, <2>1, FS_EmptySet
  <1>4. CASE c \in map[s] \ new
    <2>1. SessionRefs(c)' = SessionRefs(c) \ {s} /\ s \in SessionRefs(c)
      BY <1>1, <1>4 DEF SessionRefs
    <2> QED  BY <1>2, <1>3, <1>4, <2>1, FS_RemoveElement
  <1>5. CASE c \in new \ map[s]
    <2>1. SessionRefs(c)' = SessionRefs(c) \cup {s} /\ s \notin SessionRefs(c)
      BY <1>1, <1>5 DEF SessionRefs
    <2> QED  BY <1>2, <1>5, <2>1, FS_AddElement
  <1>6. CASE c \in new <=> c \in map[s]
    <2>1. SessionRefs(c)' = SessionRefs(c)
      BY <1>1, <1>6 DEF SessionRefs
    <2> QED  BY <1>3, <1>6, <2>1
  <1> QED  BY <1>4, <1>5, <1>6

Covered(c) ==
  Cardinality(SessionRefs(c)) + Cardinality(ForkRefs(c))
    <= refcounts[c] + Cardinality(Owed(c))

Balanced(c) ==
  Cardinality(SessionRefs(c)) + Cardinality(ForkRefs(c))
    = refcounts[c] + Cardinality(Owed(c))

(* The state RefcountExact describes, without its condition.               *)
Exact == uncounted \subseteq snapshots /\ \A c \in Chunks : Balanced(c)

LEMMA OwedBound ==
  ASSUME TypeOK, uncounted \subseteq snapshots, NEW c \in Chunks
  PROVE  Cardinality(Owed(c)) <= Cardinality(ForkRefs(c))
  <1>1. Owed(c) \subseteq ForkRefs(c)
    BY DEF Owed, ForkRefs
  <1> QED  BY <1>1, RefsFinite, FS_Subset

(* A session's map is replaced: turn_end, snapshot_restore, session_close. *)
LEMMA AccountSession ==
  ASSUME TypeOK, NEW s \in Sessions, NEW new \in SUBSET Chunks,
         map' = [map EXCEPT ![s] = new],
         refcounts' = Adjusted(map[s] \ new, new \ map[s]),
         UNCHANGED <<snapshots, uncounted>>
  PROVE  (RefcountCovers => RefcountCovers') /\ (Exact => Exact')
  <1>1. ASSUME NEW c \in Chunks
        PROVE  /\ Covered(c) => Covered(c)'
               /\ Balanced(c) /\ uncounted \subseteq snapshots => Balanced(c)'
    <2>1. ForkRefs(c)' = ForkRefs(c) /\ Owed(c)' = Owed(c)
      BY DEF ForkRefs, Owed
    <2>2. /\ refcounts[c] \in Nat
          /\ refcounts'[c] = IF c \in map[s] \ new /\ refcounts[c] > 0
                             THEN refcounts[c] - 1
                             ELSE IF c \in new \ map[s] THEN refcounts[c] + 1
                             ELSE refcounts[c]
      BY DEF TypeOK, Adjusted
    <2>3. /\ c \in map[s] => Cardinality(SessionRefs(c)) >= 1
          /\ Cardinality(SessionRefs(c)') =
               IF c \in map[s] \ new THEN Cardinality(SessionRefs(c)) - 1
               ELSE IF c \in new \ map[s] THEN Cardinality(SessionRefs(c)) + 1
               ELSE Cardinality(SessionRefs(c))
      BY SessionRefsStep
    <2>4. /\ Cardinality(SessionRefs(c)) \in Nat
          /\ Cardinality(ForkRefs(c)) \in Nat
          /\ Cardinality(Owed(c)) \in Nat
      BY RefsFinite
    <2>5. uncounted \subseteq snapshots =>
            Cardinality(Owed(c)) <= Cardinality(ForkRefs(c))
      BY OwedBound
    <2>6. Covered(c) => Covered(c)'
      BY <2>1, <2>2, <2>3, <2>4 DEF Covered
    <2>7. Balanced(c) /\ uncounted \subseteq snapshots => Balanced(c)'
      BY <2>1, <2>2, <2>3, <2>4, <2>5 DEF Balanced
    <2> QED  BY <2>6, <2>7
  <1> QED  BY <1>1 DEF RefcountCovers, Covered, Exact

(* A fork records its snapshot: one reference more, one increment owed.    *)
LEMMA AccountInsert ==
  ASSUME TypeOK, NEW f, f \notin snapshots, f \notin uncounted,
         snapshots' = snapshots \cup {f}, uncounted' = uncounted \cup {f},
         UNCHANGED <<map, refcounts>>
  PROVE  (RefcountCovers => RefcountCovers') /\ (Exact => Exact')
  <1>1. ASSUME NEW c \in Chunks
        PROVE  (Covered(c) => Covered(c)') /\ (Balanced(c) => Balanced(c)')
    <2>1. /\ Cardinality(SessionRefs(c)) \in Nat
          /\ IsFiniteSet(ForkRefs(c)) /\ Cardinality(ForkRefs(c)) \in Nat
          /\ IsFiniteSet(Owed(c)) /\ Cardinality(Owed(c)) \in Nat
          /\ refcounts[c] \in Nat
      BY RefsFinite DEF TypeOK
    <2>2. SessionRefs(c)' = SessionRefs(c) /\ refcounts'[c] = refcounts[c]
      BY DEF SessionRefs
    <2>3. CASE c \in f.hashes
      <3>1. /\ ForkRefs(c)' = ForkRefs(c) \cup {f} /\ f \notin ForkRefs(c)
            /\ Owed(c)' = Owed(c) \cup {f} /\ f \notin Owed(c)
        BY <2>3 DEF ForkRefs, Owed
      <3>2. /\ Cardinality(ForkRefs(c)') = Cardinality(ForkRefs(c)) + 1
            /\ Cardinality(Owed(c)') = Cardinality(Owed(c)) + 1
        BY <2>1, <3>1, FS_AddElement
      <3> QED  BY <2>1, <2>2, <3>2 DEF Covered, Balanced
    <2>4. CASE c \notin f.hashes
      <3>1. ForkRefs(c)' = ForkRefs(c) /\ Owed(c)' = Owed(c)
        BY <2>4 DEF ForkRefs, Owed
      <3> QED  BY <2>2, <3>1 DEF Covered, Balanced
    <2> QED  BY <2>3, <2>4
  <1> QED  BY <1>1 DEF RefcountCovers, Covered, Exact

(* A fork makes the increments it owes.                                    *)
LEMMA AccountCount ==
  ASSUME TypeOK, NEW f \in uncounted, uncounted' = uncounted \ {f},
         refcounts' = Adjusted({}, f.hashes),
         UNCHANGED <<map, snapshots>>
  PROVE  (RefcountCovers => RefcountCovers') /\ (Exact => Exact')
  <1>1. ASSUME NEW c \in Chunks
        PROVE  (Covered(c) => Covered(c)') /\ (Balanced(c) => Balanced(c)')
    <2>1. /\ Cardinality(SessionRefs(c)) \in Nat
          /\ Cardinality(ForkRefs(c)) \in Nat
          /\ IsFiniteSet(Owed(c)) /\ Cardinality(Owed(c)) \in Nat
          /\ refcounts[c] \in Nat
      BY RefsFinite DEF TypeOK
    <2>2. /\ SessionRefs(c)' = SessionRefs(c) /\ ForkRefs(c)' = ForkRefs(c)
          /\ refcounts'[c] = IF c \in f.hashes THEN refcounts[c] + 1
                             ELSE refcounts[c]
      BY DEF SessionRefs, ForkRefs, Adjusted
    <2>3. CASE c \in f.hashes
      <3>1. Owed(c)' = Owed(c) \ {f} /\ f \in Owed(c)
        BY <2>3 DEF Owed
      <3>2. Cardinality(Owed(c)') = Cardinality(Owed(c)) - 1
        BY <2>1, <3>1, FS_RemoveElement
      <3> QED  BY <2>1, <2>2, <2>3, <3>2 DEF Covered, Balanced
    <2>4. CASE c \notin f.hashes
      <3>1. Owed(c)' = Owed(c)
        BY <2>4 DEF Owed
      <3> QED  BY <2>2, <2>4, <3>1 DEF Covered, Balanced
    <2> QED  BY <2>3, <2>4
  <1> QED  BY <1>1 DEF RefcountCovers, Covered, Exact

(* A snapshot is released.  Its hashes lose one reference each; a count    *)
(* that is already zero stays, which only happens when the snapshot had    *)
(* not been counted.                                                       *)
LEMMA AccountEnd ==
  ASSUME TypeOK, NEW f \in snapshots, snapshots' = snapshots \ {f},
         refcounts' = Adjusted(f.hashes, {}),
         UNCHANGED <<map, uncounted>>
  PROVE  /\ RefcountCovers => RefcountCovers'
         /\ Exact /\ f \notin uncounted => Exact'
  <1>1. ASSUME NEW c \in Chunks
        PROVE  /\ Covered(c) => Covered(c)'
               /\ Balanced(c) /\ uncounted \subseteq snapshots'
                    => Balanced(c)'
    <2>1. /\ Cardinality(SessionRefs(c)) \in Nat
          /\ IsFiniteSet(ForkRefs(c)) /\ Cardinality(ForkRefs(c)) \in Nat
          /\ Cardinality(Owed(c)) \in Nat
          /\ refcounts[c] \in Nat
      BY RefsFinite DEF TypeOK
    <2>2. /\ SessionRefs(c)' = SessionRefs(c) /\ Owed(c)' = Owed(c)
          /\ refcounts'[c] = IF c \in f.hashes /\ refcounts[c] > 0
                             THEN refcounts[c] - 1 ELSE refcounts[c]
      BY DEF SessionRefs, Owed, Adjusted
    <2>3. CASE c \in f.hashes
      <3>1. ForkRefs(c)' = ForkRefs(c) \ {f} /\ f \in ForkRefs(c)
        BY <2>3 DEF ForkRefs
      <3>2. /\ Cardinality(ForkRefs(c)') = Cardinality(ForkRefs(c)) - 1
            /\ IsFiniteSet(ForkRefs(c)') /\ Cardinality(ForkRefs(c)') \in Nat
        BY <2>1, <3>1, FS_RemoveElement, FS_CardinalityType
      <3>3. uncounted \subseteq snapshots' =>
              Cardinality(Owed(c)) <= Cardinality(ForkRefs(c)')
        <4>1. uncounted \subseteq snapshots' => Owed(c) \subseteq ForkRefs(c)'
          BY DEF Owed, ForkRefs
        <4> QED  BY <3>2, <4>1, FS_Subset
      <3>4. Covered(c) => Covered(c)'
        BY <2>1, <2>2, <2>3, <3>2 DEF Covered
      <3>5. Balanced(c) /\ uncounted \subseteq snapshots' => Balanced(c)'
        BY <2>1, <2>2, <2>3, <3>2, <3>3 DEF Balanced
      <3> QED  BY <3>4, <3>5
    <2>4. CASE c \notin f.hashes
      <3>1. ForkRefs(c)' = ForkRefs(c)
        BY <2>4 DEF ForkRefs
      <3> QED  BY <2>2, <2>4, <3>1 DEF Covered, Balanced
    <2> QED  BY <2>3, <2>4
  <1> QED  BY <1>1 DEF RefcountCovers, Covered, Exact

(* Steps that leave the maps, the counts and the snapshots alone.          *)
LEMMA AccountFrame ==
  ASSUME UNCHANGED <<map, refcounts, snapshots, uncounted>>
  PROVE  (RefcountCovers => RefcountCovers') /\ (Exact => Exact')
  <1>1. ASSUME NEW c \in Chunks
        PROVE  SessionRefs(c)' = SessionRefs(c) /\ ForkRefs(c)' = ForkRefs(c)
                 /\ Owed(c)' = Owed(c)
    BY DEF SessionRefs, ForkRefs, Owed
  <1> QED  BY <1>1 DEF RefcountCovers, Exact, Balanced

(* A fork_end selects at most one snapshot; without the id-less form it is *)
(* one whose fork has been counted.                                        *)
LEMMA SelectsOne ==
  ASSUME TypeOK, Numbering, NEW s \in Sessions, NEW chosen \in Selections(s),
         chosen # {}
  PROVE  \E f \in snapshots :
           /\ chosen = {f}
           /\ ~LegacyForkEnd => f \notin uncounted
  <1>1. PICK f : f \in chosen
    OBVIOUS
  <1>2. \A g \in snapshots : g.id \in Nat
    BY DEF TypeOK, Snapshot
  <1>3. CASE \E id \in issued : chosen = SelectById(s, id)
    <2>1. PICK id \in issued : chosen = SelectById(s, id)
      BY <1>3
    <2>2. chosen = {f} /\ f \in snapshots /\ f.id = id
      BY <1>1, <2>1 DEF SelectById, Numbering
    <2>3. f \notin uncounted
      BY <2>1, <2>2 DEF Numbering, ForkIds
    <2> QED  BY <2>2, <2>3
  <1>4. CASE LegacyForkEnd /\ chosen = SelectLatest(s)
    <2>1. f \in snapshots /\ f.session = s
      BY <1>1, <1>4 DEF SelectLatest
    <2>2. ASSUME NEW g \in chosen
          PROVE  g = f
      <3>1. g.id <= f.id /\ f.id <= g.id /\ g \in snapshots
        BY <1>1, <1>4, <2>2 DEF SelectLatest
      <3> QED  BY <1>2, <2>1, <3>1 DEF Numbering
    <2> QED  BY <1>1, <1>4, <2>1, <2>2
  <1> QED  BY <1>3, <1>4 DEF Selections

LEMMA AccountEvent ==
  ASSUME TypeOK, Numbering, NEW r \in Requests, NEW s \in Sessions, Event(r, s)
  PROVE  /\ RefcountCovers => RefcountCovers'
         /\ Exact /\ ~LegacyForkEnd => Exact'
  <1>1. CASE TurnStart(r, s) \/ TurnEndNoKv(r, s) \/ ForkRead(r, s)
    BY <1>1, AccountFrame DEF TurnStart, TurnEndNoKv, ForkRead, stateVars, forkVars
  <1>2. ASSUME NEW new \in SUBSET Chunks,
               TurnEnd(r, s, new) \/ OnSnapshotRestore(r, s, new)
        PROVE  (RefcountCovers => RefcountCovers') /\ (Exact => Exact')
    BY <1>2, AccountSession DEF TurnEnd, OnSnapshotRestore, forkVars
  <1>3. CASE OnSessionClose(r, s)
    <2>1. map[s] \ {} = map[s] /\ {} \ map[s] = {}
      OBVIOUS
    <2>2. /\ map' = [map EXCEPT ![s] = {}]
          /\ refcounts' = Adjusted(map[s] \ {}, {} \ map[s])
          /\ UNCHANGED <<snapshots, uncounted>>
      BY <1>3, <2>1 DEF OnSessionClose, forkVars
    <2> QED  BY <2>2, AccountSession
  <1>4. CASE ForkEnd(r, s)
    <2>1. PICK chosen \in Selections(s) :
            /\ snapshots' = snapshots \ chosen
            /\ refcounts' = Adjusted(UNION {f.hashes : f \in chosen}, {})
            /\ UNCHANGED <<map, uncounted>>
      BY <1>4 DEF ForkEnd, stateVars
    <2>2. CASE chosen = {}
      <3>1. UNCHANGED <<map, snapshots, uncounted>>
        BY <2>1, <2>2
      <3>2. UNCHANGED refcounts
        <4>1. refcounts' = [c \in Chunks |-> refcounts[c]]
          BY <2>1, <2>2 DEF Adjusted
        <4> QED  BY <4>1 DEF TypeOK
      <3> QED  BY <3>1, <3>2, AccountFrame
    <2>3. CASE chosen # {}
      <3>1. PICK f \in snapshots :
              /\ chosen = {f}
              /\ ~LegacyForkEnd => f \notin uncounted
        BY <2>3, SelectsOne
      <3>2. UNION {g.hashes : g \in chosen} = f.hashes
        <4>1. {g.hashes : g \in chosen} = {f.hashes}
          BY <3>1
        <4>2. UNION {f.hashes} = f.hashes
          OBVIOUS
        <4> QED  BY <4>1, <4>2
      <3>3. snapshots' = snapshots \ {f} /\ UNCHANGED <<map, uncounted>>
        BY <2>1, <3>1
      <3>4. refcounts' = Adjusted(f.hashes, {})
        BY <2>1, <3>2 DEF Adjusted
      <3>5. (RefcountCovers => RefcountCovers')
              /\ (Exact /\ f \notin uncounted => Exact')
        BY <3>3, <3>4, AccountEnd
      <3> QED  BY <3>1, <3>5
    <2> QED  BY <2>2, <2>3
  <1> QED  BY <1>1, <1>2, <1>3, <1>4 DEF Event

LEMMA AccountContinue ==
  ASSUME TypeOK, Numbering,
         Continue \/ \E r \in Requests : Return(r)
  PROVE  (RefcountCovers => RefcountCovers') /\ (Exact => Exact')
  <1>1. ASSUME NEW r \in Requests, ForkInsert(r)
        PROVE  (RefcountCovers => RefcountCovers') /\ (Exact => Exact')
    <2>1. SnapshotOf(r) \notin snapshots /\ SnapshotOf(r) \notin uncounted
      BY <1>1 DEF ForkInsert, At, Numbering, HasId, ForkIds, SnapshotOf
    <2> QED  BY <1>1, <2>1, AccountInsert DEF ForkInsert, stateVars
  <1>2. ASSUME NEW r \in Requests, ForkCount(r)
        PROVE  (RefcountCovers => RefcountCovers') /\ (Exact => Exact')
    <2>1. SnapshotOf(r) \in uncounted /\ SnapshotOf(r).hashes = req[r].hashes
      BY <1>2 DEF ForkCount, Numbering, SnapshotOf
    <2> QED  BY <1>2, <2>1, AccountCount DEF ForkCount, stateVars
  <1>3. ASSUME NEW r \in Requests, ForkTakeId(r) \/ BackendAnswers(r) \/ Return(r)
        PROVE  (RefcountCovers => RefcountCovers') /\ (Exact => Exact')
    BY <1>3, AccountFrame
       DEF ForkTakeId, BackendAnswers, BackendApplies, BackendRefuses,
           BackendTimesOut, Return, stateVars, forkVars
  <1>4. ASSUME NEW call \in late, LateApplies(call) \/ LateLost(call)
        PROVE  (RefcountCovers => RefcountCovers') /\ (Exact => Exact')
    BY <1>4, AccountFrame DEF LateApplies, LateLost, stateVars, forkVars
  <1> QED  BY <1>1, <1>2, <1>3, <1>4 DEF Continue, ForkStep

(* A hang-up can only leave references behind.                             *)
LEMMA AccountDrops ==
  ASSUME TypeOK, RefcountCovers, ClientDrops
  PROVE  RefcountCovers'
  <1> SUFFICES ASSUME NEW c \in Chunks
               PROVE  Covered(c)'
    BY DEF RefcountCovers, Covered
  <1>1. /\ \A s \in Sessions : map'[s] \subseteq map[s]
        /\ snapshots' \subseteq snapshots
        /\ UNCHANGED <<refcounts, uncounted>>
    BY DEF ClientDrops, DropFork, DropCall, DropClose, DropForkEnd,
           DropTurnEnd, TypeOK, stateVars, forkVars
  <1>2. /\ SessionRefs(c)' \subseteq SessionRefs(c)
        /\ ForkRefs(c)' \subseteq ForkRefs(c)
        /\ Owed(c)' = Owed(c)
    BY <1>1 DEF SessionRefs, ForkRefs, Owed
  <1>3. /\ Cardinality(SessionRefs(c)') <= Cardinality(SessionRefs(c))
        /\ Cardinality(SessionRefs(c)') \in Nat
        /\ Cardinality(ForkRefs(c)') <= Cardinality(ForkRefs(c))
        /\ Cardinality(ForkRefs(c)') \in Nat
    BY <1>2, RefsFinite, FS_Subset, FS_CardinalityType
  <1>4. Covered(c)
    BY DEF RefcountCovers, Covered
  <1>5. refcounts'[c] = refcounts[c] /\ refcounts[c] \in Nat
    BY <1>1 DEF TypeOK
  <1> QED  BY <1>2, <1>3, <1>4, <1>5, RefsFinite DEF Covered

LEMMA DropsGrow == TypeOK /\ [DropNext]_vars => drops' = drops \/ drops' # 0
  <1> SUFFICES ASSUME TypeOK, DropNext
               PROVE  drops' = drops \/ drops' # 0
    BY DEF vars
  <1>1. CASE ClientDrops
    <2>1. drops' = drops + 1
      BY <1>1 DEF ClientDrops, DropFork, DropCall, DropClose, DropForkEnd,
                  DropTurnEnd, Drop
    <2> QED  BY <2>1 DEF TypeOK
  <1>2. ASSUME NEW r \in Requests, NEW s \in Sessions, Event(r, s)
        PROVE  drops' = drops
    BY <1>2 DEF Event, TurnStart, TurnEndNoKv, TurnEnd, OnSnapshotRestore,
                OnSessionClose, ForkRead, ForkEnd
  <1>3. CASE Continue \/ \E r \in Requests : Return(r)
    BY <1>3 DEF Continue, ForkStep, ForkTakeId, ForkInsert, ForkCount, Return,
                BackendAnswers, BackendApplies, BackendRefuses,
                BackendTimesOut, LateApplies, LateLost
  <1> QED  BY <1>1, <1>2, <1>3 DEF DropNext, Next

LEMMA AccountInit == Init => RefcountCovers /\ Exact
  <1> SUFFICES ASSUME Init, NEW c \in Chunks
               PROVE  Covered(c) /\ Balanced(c)
    BY DEF Init, RefcountCovers, Covered, Exact
  <1>1. SessionRefs(c) = {} /\ ForkRefs(c) = {} /\ Owed(c) = {}
    BY DEF Init, SessionRefs, ForkRefs, Owed
  <1>2. refcounts[c] = 0
    BY DEF Init
  <1> QED  BY <1>1, <1>2, FS_EmptySet DEF Covered, Balanced

LEMMA CoversStep ==
  TypeOK /\ Numbering /\ RefcountCovers /\ [DropNext]_vars => RefcountCovers'
  <1> SUFFICES ASSUME TypeOK, Numbering, RefcountCovers, [DropNext]_vars
               PROVE  RefcountCovers'
    OBVIOUS
  <1>1. CASE UNCHANGED vars
    BY <1>1, AccountFrame DEF vars
  <1>2. CASE DropNext
    BY <1>2, AccountEvent, AccountContinue, AccountDrops DEF DropNext, Next
  <1> QED  BY <1>1, <1>2

LEMMA ExactStep ==
  TypeOK /\ Numbering /\ RefcountExact /\ [DropNext]_vars => RefcountExact'
  <1> SUFFICES ASSUME TypeOK, Numbering, RefcountExact, [DropNext]_vars,
                      ~LegacyForkEnd, drops' = 0
               PROVE  Exact'
    BY DEF RefcountExact, Exact, Balanced
  <1>1. drops = 0
    BY DropsGrow
  <1>2. Exact
    BY <1>1 DEF RefcountExact, Exact, Balanced
  <1>3. CASE UNCHANGED vars
    BY <1>2, <1>3, AccountFrame DEF vars
  <1>4. CASE ClientDrops
    <2>1. drops' = drops + 1
      BY <1>4 DEF ClientDrops, DropFork, DropCall, DropClose, DropForkEnd,
                  DropTurnEnd, Drop
    <2> QED  BY <1>1, <2>1
  <1>5. CASE Next
    BY <1>2, <1>5, AccountEvent, AccountContinue DEF Next
  <1> QED  BY <1>3, <1>4, <1>5 DEF DropNext

(* The count of a chunk never falls short of its sessions and forks by     *)
(* more than the increments still owed, in any run.                        *)
THEOREM CountsCover == DropSpec => []RefcountCovers
  <1>1. Init => RefcountCovers
    BY AccountInit
  <1>2. TypeOK /\ Numbering /\ RefcountCovers /\ [DropNext]_vars => RefcountCovers'
    BY CoversStep
  <1> QED  BY <1>1, <1>2, TypeCorrect, ForkIdsDistinct, PTL DEF DropSpec

(* With fork ids returned and no hang-up, counts are exact in any run.     *)
THEOREM CountsExact == DropSpec => []RefcountExact
  <1>1. Init => RefcountExact
    BY AccountInit DEF RefcountExact, Exact, Balanced
  <1>2. TypeOK /\ Numbering /\ RefcountExact /\ [DropNext]_vars => RefcountExact'
    BY ExactStep
  <1> QED  BY <1>1, <1>2, TypeCorrect, ForkIdsDistinct, PTL DEF DropSpec

-----------------------------------------------------------------------------
(* The decision to evict.                                                  *)

(* What decrement_refcounts returns has lost its last count.               *)
LEMMA EvictableFalls ==
  ASSUME TypeOK, NEW drop \in SUBSET Chunks, NEW add \in SUBSET Chunks,
         refcounts' = Adjusted(drop, add)
  PROVE  \A c \in Evictable(drop) : c \in Chunks /\ refcounts'[c] = 0
  BY DEF TypeOK, Adjusted, Evictable

(* A request told to evict evicts chunks whose count this step took to 0.  *)
LEMMA ChoosesFallen ==
  ASSUME TypeOK, [DropNext]_vars, NEW r \in Requests, Chooses(r)
  PROVE  \A c \in req'[r].evict : c \in Chunks /\ refcounts'[c] = 0
  <1>1. req'[r] # req[r]
    BY DEF Chooses, At
  <1>2. ASSUME NEW op, NEW s, NEW q \in Requests, NEW drop \in SUBSET Chunks,
               NEW add \in SUBSET Chunks, NEW hashes,
               Proceed(q, op, s, Evictable(drop), hashes),
               refcounts' = Adjusted(drop, add)
        PROVE  \A c \in req'[r].evict : c \in Chunks /\ refcounts'[c] = 0
    <2>1. r = q /\ req'[r].evict = Evictable(drop)
      BY <1>1, <1>2 DEF Proceed, TypeOK
    <2> QED  BY <1>2, <2>1, EvictableFalls
  <1>3. ASSUME NEW q \in Requests, NEW op, NEW s, NEW hashes,
               Proceed(q, op, s, {}, hashes)
        PROVE  FALSE
    BY <1>1, <1>3 DEF Proceed, NextCall, TypeOK, Chooses, At
  <1>4. ASSUME NEW q \in Requests, NEW s \in Sessions, Event(q, s)
        PROVE  \A c \in req'[r].evict : c \in Chunks /\ refcounts'[c] = 0
    <2>1. CASE TurnStart(q, s) \/ TurnEndNoKv(q, s)
      BY <1>3, <2>1 DEF TurnStart, TurnEndNoKv
    <2>2. ASSUME NEW new \in SUBSET Chunks,
                 TurnEnd(q, s, new) \/ OnSnapshotRestore(q, s, new)
          PROVE  \A c \in req'[r].evict : c \in Chunks /\ refcounts'[c] = 0
      <3>1. map[s] \ new \in SUBSET Chunks /\ new \ map[s] \in SUBSET Chunks
        BY DEF TypeOK
      <3> QED  BY <1>2, <2>2, <3>1 DEF TurnEnd, OnSnapshotRestore
    <2>3. CASE OnSessionClose(q, s)
      <3>1. map[s] \in SUBSET Chunks
        BY DEF TypeOK
      <3> QED  BY <1>2, <2>3, <3>1 DEF OnSessionClose
    <2>4. CASE ForkRead(q, s)
      BY <1>1, <2>4 DEF ForkRead, TypeOK, Chooses, At
    <2>5. CASE ForkEnd(q, s)
      <3>1. PICK chosen \in Selections(s) :
              /\ refcounts' = Adjusted(UNION {f.hashes : f \in chosen}, {})
              /\ Proceed(q, "session_fork_end", s,
                         Evictable(UNION {f.hashes : f \in chosen}), {})
        BY <2>5 DEF ForkEnd
      <3>2. chosen \subseteq snapshots
        BY DEF Selections, SelectById, SelectLatest
      <3>3. \A f \in chosen : f.hashes \in SUBSET Chunks
        BY <3>2 DEF TypeOK, Snapshot
      <3>4. UNION {f.hashes : f \in chosen} \in SUBSET Chunks
        BY <3>3
      <3> QED  BY <1>2, <3>1, <3>4
    <2> QED  BY <1>4, <2>1, <2>2, <2>3, <2>4, <2>5 DEF Event
  <1>5. CASE \E q \in Requests : Return(q)
    BY <1>1, <1>5 DEF Return, IdleRequest, TypeOK, Chooses, At
  <1>6. CASE Continue
    <2>1. ASSUME NEW q \in Requests, ForkStep(q)
          PROVE  FALSE
      <3>1. req' = [req EXCEPT ![q] = req'[q]]
              /\ req'[q].pc \in {"fork_id", "fork_inserted", "done"}
        BY <2>1 DEF ForkStep, ForkTakeId, ForkInsert, ForkCount, Advance,
                    TypeOK, Request, ActiveRequest, IdleRequest
      <3> QED  BY <1>1, <3>1 DEF TypeOK, Chooses, At
    <2>2. ASSUME NEW q \in Requests, BackendAnswers(q)
          PROVE  FALSE
      BY <1>3, <2>2 DEF BackendAnswers, BackendApplies, BackendRefuses,
                        BackendTimesOut, Answered
    <2>3. ASSUME NEW call \in late, LateApplies(call) \/ LateLost(call)
          PROVE  FALSE
      BY <1>1, <2>3 DEF LateApplies, LateLost
    <2> QED  BY <1>6, <2>1, <2>2, <2>3 DEF Continue
  <1>7. CASE ClientDrops
    BY <1>1, <1>7 DEF ClientDrops, DropFork, DropCall, DropClose, DropForkEnd,
                      DropTurnEnd, IdleRequest, TypeOK, Chooses, At
  <1>8. CASE UNCHANGED vars
    BY <1>1, <1>8 DEF vars
  <1> QED  BY <1>4, <1>5, <1>6, <1>7, <1>8 DEF DropNext, Next

(* A chunk with count 0 is named by no session and by uncounted forks only. *)
ZeroIsFree ==
  ~LegacyForkEnd /\ drops = 0 =>
    \A c \in Chunks : refcounts[c] = 0 =>
      SessionRefs(c) = {} /\ ForkRefs(c) \subseteq uncounted

LEMMA UncountedOnly == TypeOK /\ RefcountExact => ZeroIsFree
  <1> SUFFICES ASSUME TypeOK, RefcountExact, ~LegacyForkEnd, drops = 0,
                      NEW c \in Chunks, refcounts[c] = 0
               PROVE  SessionRefs(c) = {} /\ ForkRefs(c) \subseteq uncounted
    BY DEF ZeroIsFree
  <1>1. /\ uncounted \subseteq snapshots
        /\ Cardinality(SessionRefs(c)) + Cardinality(ForkRefs(c))
             = Cardinality(Owed(c))
    BY RefsFinite DEF RefcountExact
  <1>2. Owed(c) \subseteq ForkRefs(c)
    BY <1>1 DEF Owed, ForkRefs
  <1>3. Cardinality(Owed(c)) <= Cardinality(ForkRefs(c))
    BY <1>2, RefsFinite, FS_Subset
  <1>4. Cardinality(SessionRefs(c)) = 0
        /\ Cardinality(Owed(c)) = Cardinality(ForkRefs(c))
    BY <1>1, <1>3, RefsFinite
  <1>5. SessionRefs(c) = {}
    BY <1>4, RefsFinite, FS_EmptySet
  <1>6. Owed(c) = ForkRefs(c)
    BY <1>2, <1>4, RefsFinite, FS_Subset
  <1> QED  BY <1>5, <1>6 DEF Owed

(* "A chunk is evicted only when no session references it": in any run     *)
(* whose clients return their fork ids and do not hang up, the decision to *)
(* evict is taken only about chunks that nobody's counted reference names. *)
THEOREM EvictionsSafe == DropSpec => EvictsUnreferenced
  <1> DEFINE Safe(r) ==
        \A c \in req'[r].evict : /\ SessionRefs(c)' = {}
                                 /\ ForkRefs(c)' \subseteq uncounted'
  <1>1. ASSUME TypeOK, ZeroIsFree', [DropNext]_vars
        PROVE  [~LegacyForkEnd /\ drops' = 0 =>
                  \A r \in Requests : Chooses(r) => Safe(r)]_vars
    <2> SUFFICES ASSUME ~LegacyForkEnd, drops' = 0,
                        NEW r \in Requests, Chooses(r), NEW c \in req'[r].evict
                 PROVE  /\ SessionRefs(c)' = {}
                        /\ ForkRefs(c)' \subseteq uncounted'
      OBVIOUS
    <2>1. c \in Chunks /\ refcounts'[c] = 0
      BY <1>1, ChoosesFallen
    <2> QED  BY <1>1, <2>1 DEF ZeroIsFree
  <1> QED  BY <1>1, UncountedOnly, TypeCorrect, CountsExact, PTL
           DEF DropSpec, EvictsUnreferenced

-----------------------------------------------------------------------------
(* No chunk stays resident unnoticed.                                      *)

(* A chunk that a session names has a count.                               *)
LEMMA NamedIsCounted ==
  ASSUME TypeOK, RefcountCovers, uncounted \subseteq snapshots,
         NEW s \in Sessions, NEW c \in map[s]
  PROVE  c \in Chunks /\ refcounts[c] > 0
  <1>1. c \in Chunks /\ refcounts[c] \in Nat
    BY DEF TypeOK
  <1>2. Cardinality(Owed(c)) <= Cardinality(ForkRefs(c))
    BY <1>1, OwedBound
  <1>3. Cardinality(SessionRefs(c)) # 0
    BY <1>1, RefsFinite, FS_EmptySet DEF SessionRefs
  <1>4. Cardinality(SessionRefs(c)) + Cardinality(ForkRefs(c))
          <= refcounts[c] + Cardinality(Owed(c))
    BY <1>1 DEF RefcountCovers
  <1> QED  BY <1>1, <1>2, <1>3, <1>4, RefsFinite

(* A snapshot that waits for its count is not given up by a fork_end that  *)
(* names its fork by an id: the id has not been given to the client yet.   *)
LEMMA UncountedStay ==
  ASSUME TypeOK, Numbering, ~LegacyForkEnd, uncounted \subseteq snapshots,
         [DropNext]_vars
  PROVE  (uncounted \subseteq snapshots)'
  <1>1. ASSUME NEW s \in Sessions, NEW chosen \in Selections(s)
        PROVE  uncounted \subseteq snapshots \ chosen
    <2>1. ASSUME NEW f \in chosen
          PROVE  f \notin uncounted
      <3>1. chosen # {}
        BY <2>1
      <3>2. PICK g \in snapshots : chosen = {g} /\ g \notin uncounted
        BY <3>1, SelectsOne
      <3> QED  BY <2>1, <3>2
    <2> QED  BY <2>1
  <1>2. ASSUME NEW r \in Requests, NEW s \in Sessions, Event(r, s)
        PROVE  (uncounted \subseteq snapshots)'
    <2>1. CASE ForkEnd(r, s)
      BY <1>1, <2>1 DEF ForkEnd
    <2> QED  BY <1>2, <2>1 DEF Event, TurnStart, TurnEndNoKv, TurnEnd,
                               OnSnapshotRestore, OnSessionClose, ForkRead,
                               forkVars
  <1>3. CASE Continue \/ \E r \in Requests : Return(r)
    BY <1>3 DEF Continue, ForkStep, ForkTakeId, ForkInsert, ForkCount, Return,
                BackendAnswers, BackendApplies, BackendRefuses,
                BackendTimesOut, LateApplies, LateLost, forkVars
  <1>4. CASE ClientDrops
    <2>1. ASSUME NEW s \in Sessions, DropForkEnd(s)
          PROVE  (uncounted \subseteq snapshots)'
      BY <1>1, <2>1 DEF DropForkEnd
    <2> QED  BY <1>4, <2>1 DEF ClientDrops, DropFork, DropCall, DropClose,
                               DropTurnEnd, forkVars
  <1>5. CASE UNCHANGED vars
    BY <1>5 DEF vars
  <1> QED  BY <1>2, <1>3, <1>4, <1>5 DEF DropNext, Next

(* A count that falls to zero falls because r is told to evict the chunk.  *)
LEMMA FallIsChosen ==
  ASSUME TypeOK, NEW r \in Requests, Idle(r), NEW op, NEW s, NEW hashes,
         NEW drop \in SUBSET Chunks, NEW add \in SUBSET Chunks,
         refcounts' = Adjusted(drop, add),
         Proceed(r, op, s, Evictable(drop), hashes),
         NEW c \in Chunks
  PROVE  /\ refcounts[c] > 0 => refcounts'[c] > 0 \/ Chosen(c)'
         /\ Chosen(c) => Chosen(c)'
         /\ c \in add \ drop => refcounts'[c] > 0
  <1>1. /\ refcounts[c] \in Nat
        /\ refcounts'[c] = IF c \in drop /\ refcounts[c] > 0 THEN refcounts[c] - 1
                           ELSE IF c \in add THEN refcounts[c] + 1
                           ELSE refcounts[c]
    BY DEF TypeOK, Adjusted
  <1>2. /\ \A q \in Requests \ {r} : req'[q] = req[q]
        /\ req'[r].evict = Evictable(drop)
        /\ Evictable(drop) # {} => req'[r].pc = "evict"
    BY DEF TypeOK, Proceed, NextCall
  <1>3. c \in drop /\ refcounts[c] = 1 => Chosen(c)'
    BY <1>2 DEF Evictable, Chosen, At
  <1>4. Chosen(c) => Chosen(c)'
    BY <1>2 DEF Chosen, At, Idle
  <1> QED  BY <1>1, <1>3, <1>4

(* What the counters and the requests do to a chunk that stays resident.   *)
LEMMA LeakEvent ==
  ASSUME TypeOK, RefcountCovers, uncounted \subseteq snapshots, NoSilentLeak,
         NEW r \in Requests, NEW s \in Sessions, Event(r, s)
  PROVE  NoSilentLeak'
  <1> SUFFICES ASSUME NEW c \in resident'
               PROVE  refcounts'[c] > 0 \/ Chosen(c)' \/ c \in stray'
    BY DEF NoSilentLeak
  <1>1. resident \subseteq Chunks /\ Idle(r) /\ stray' = stray
    BY DEF TypeOK, Event, TurnStart, TurnEndNoKv, TurnEnd, OnSnapshotRestore,
           OnSessionClose, ForkRead, ForkEnd, backendVars
  <1>2. CASE TurnStart(r, s) \/ TurnEndNoKv(r, s) \/ ForkRead(r, s)
    <2>1. UNCHANGED <<resident, refcounts>>
      BY <1>2 DEF TurnStart, TurnEndNoKv, ForkRead, backendVars
    <2>2. \A q \in Requests \ {r} : req'[q] = req[q]
      BY <1>2 DEF TurnStart, TurnEndNoKv, ForkRead, Proceed, TypeOK
    <2> QED  BY <1>1, <2>1, <2>2 DEF NoSilentLeak, Chosen, At, Idle
  <1>3. ASSUME NEW new \in SUBSET Chunks,
               TurnEnd(r, s, new) \/ OnSnapshotRestore(r, s, new)
        PROVE  refcounts'[c] > 0 \/ Chosen(c)' \/ c \in stray'
    <2>1. /\ map[s] \ new \in SUBSET Chunks /\ new \ map[s] \in SUBSET Chunks
          /\ resident' \subseteq resident \cup new
      BY <1>3 DEF TypeOK, TurnEnd, OnSnapshotRestore, backendVars
    <2>2. c \in Chunks
      BY <1>1, <2>1
    <2>3. /\ refcounts[c] > 0 => refcounts'[c] > 0 \/ Chosen(c)'
          /\ Chosen(c) => Chosen(c)'
          /\ c \in new \ map[s] => refcounts'[c] > 0
      BY <1>1, <1>3, <2>1, <2>2, FallIsChosen DEF TurnEnd, OnSnapshotRestore
    <2>4. c \in map[s] => refcounts[c] > 0
      BY NamedIsCounted
    <2> QED  BY <1>1, <2>1, <2>3, <2>4 DEF NoSilentLeak
  <1>4. CASE OnSessionClose(r, s)
    <2>1. map[s] \in SUBSET Chunks /\ resident' = resident
      BY <1>4 DEF TypeOK, OnSessionClose, backendVars
    <2>2. /\ refcounts[c] > 0 => refcounts'[c] > 0 \/ Chosen(c)'
          /\ Chosen(c) => Chosen(c)'
      BY <1>1, <1>4, <2>1, FallIsChosen DEF OnSessionClose
    <2> QED  BY <1>1, <2>1, <2>2 DEF NoSilentLeak
  <1>5. CASE ForkEnd(r, s)
    <2>1. PICK chosen \in Selections(s) :
            /\ refcounts' = Adjusted(UNION {f.hashes : f \in chosen}, {})
            /\ Proceed(r, "session_fork_end", s,
                       Evictable(UNION {f.hashes : f \in chosen}), {})
            /\ UNCHANGED resident
      BY <1>5 DEF ForkEnd, backendVars
    <2>2. UNION {f.hashes : f \in chosen} \in SUBSET Chunks
      BY SelectionsType
    <2>3. /\ refcounts[c] > 0 => refcounts'[c] > 0 \/ Chosen(c)'
          /\ Chosen(c) => Chosen(c)'
      BY <1>1, <2>1, <2>2, FallIsChosen
    <2> QED  BY <1>1, <2>1, <2>3 DEF NoSilentLeak
  <1> QED  BY <1>2, <1>3, <1>4, <1>5 DEF Event

LEMMA LeakContinue ==
  ASSUME TypeOK, NoSilentLeak, Continue \/ \E r \in Requests : Return(r)
  PROVE  NoSilentLeak'
  <1>1. ASSUME NEW r \in Requests, ForkStep(r) \/ Return(r)
        PROVE  NoSilentLeak'
    <2>1. /\ \A q \in Requests \ {r} : req'[q] = req[q]
          /\ ~At(r, "evict") /\ UNCHANGED <<resident, stray>>
      BY <1>1 DEF ForkStep, ForkTakeId, ForkInsert, ForkCount, Return, Advance,
                  At, TypeOK, backendVars
    <2>2. \A c \in Chunks : refcounts[c] > 0 => refcounts'[c] > 0
      BY <1>1 DEF ForkStep, ForkTakeId, ForkInsert, ForkCount, Return, Adjusted,
                  TypeOK
    <2> QED  BY <2>1, <2>2 DEF NoSilentLeak, Chosen, At, TypeOK
  <1>2. ASSUME NEW r \in Requests, BackendAnswers(r)
        PROVE  NoSilentLeak'
    <2>1. /\ \A q \in Requests \ {r} : req'[q] = req[q]
          /\ Calling(r) /\ UNCHANGED refcounts
          /\ \/ Apply(CallOf(r))
             \/ GiveUp(CallOf(r)) /\ UNCHANGED resident
      BY <1>2 DEF BackendAnswers, BackendApplies, BackendRefuses,
                  BackendTimesOut, Answered, Proceed, TypeOK
    <2>2. At(r, "evict") => CallOf(r) = [kind |-> "evict", hashes |-> req[r].evict]
      BY DEF CallOf, At
    <2>3. CallOf(r).kind \in {"evict", "prefetch"} /\ (CallOf(r).kind = "evict" => At(r, "evict"))
      BY <2>1 DEF CallOf, Calling, At
    <2>4. \A c : Chosen(c) => Chosen(c)' \/ (At(r, "evict") /\ c \in req[r].evict)
      BY <2>1 DEF Chosen, At
    <2>5. CASE Apply(CallOf(r))
      <3>1. CASE CallOf(r).kind = "evict"
        <4>1. /\ resident' = resident \ req[r].evict
              /\ stray' = stray \ req[r].evict
          BY <2>2, <2>3, <2>5, <3>1 DEF Apply
        <4> QED  BY <2>1, <2>4, <4>1 DEF NoSilentLeak
      <3>2. CASE CallOf(r).kind = "prefetch"
        <4>1. ~At(r, "evict")
          BY <2>2, <3>2
        <4> DEFINE hashes == CallOf(r).hashes
        <4>2. /\ resident' = resident \cup hashes
              /\ stray' = stray \cup {c \in hashes : refcounts[c] = 0}
          BY <2>5, <3>2 DEF Apply
        <4>3. \A c \in hashes : refcounts[c] \in Nat
          BY <2>1, CallOfType DEF BackendCall, TypeOK
        <4> QED  BY <2>1, <2>4, <4>1, <4>2, <4>3 DEF NoSilentLeak
      <3> QED  BY <2>3, <3>1, <3>2
    <2>6. CASE GiveUp(CallOf(r)) /\ UNCHANGED resident
      BY <2>1, <2>2, <2>3, <2>4, <2>6 DEF NoSilentLeak, GiveUp, TypeOK
    <2> QED  BY <2>1, <2>5, <2>6
  <1>3. ASSUME NEW call \in late, LateApplies(call)
        PROVE  NoSilentLeak'
    BY <1>3 DEF LateApplies, Apply, NoSilentLeak, Chosen, At, TypeOK, BackendCall
  <1>4. ASSUME NEW call \in late, LateLost(call)
        PROVE  NoSilentLeak'
    BY <1>4 DEF LateLost, NoSilentLeak, Chosen, At
  <1> QED  BY <1>1, <1>2, <1>3, <1>4 DEF Continue

LEMMA LeakDrops ==
  ASSUME TypeOK, NoSilentLeak, ClientDrops
  PROVE  NoSilentLeak'
  <1>1. ASSUME NEW r \in Requests, DropFork(r)
        PROVE  NoSilentLeak'
    BY <1>1 DEF DropFork, NoSilentLeak, Chosen, At, TypeOK, backendVars
  <1>2. ASSUME NEW r \in Requests, DropCall(r)
        PROVE  NoSilentLeak'
    <2>1. /\ \A q \in Requests \ {r} : req'[q] = req[q]
          /\ GiveUp(CallOf(r)) /\ UNCHANGED <<resident, refcounts>>
      BY <1>2 DEF DropCall, TypeOK
    <2>2. At(r, "evict") => CallOf(r) = [kind |-> "evict", hashes |-> req[r].evict]
      BY DEF CallOf, At
    <2>3. \A c : Chosen(c) => Chosen(c)' \/ (At(r, "evict") /\ c \in req[r].evict)
      BY <2>1 DEF Chosen, At
    <2> QED  BY <2>1, <2>2, <2>3 DEF NoSilentLeak, GiveUp
  <1>3. ASSUME NEW s \in Sessions, DropClose(s) \/ DropForkEnd(s)
        PROVE  NoSilentLeak'
    BY <1>3 DEF DropClose, DropForkEnd, NoSilentLeak, Chosen, At, backendVars
  <1>4. ASSUME NEW s \in Sessions, NEW new \in SUBSET Chunks, DropTurnEnd(s, new)
        PROVE  NoSilentLeak'
    BY <1>4 DEF DropTurnEnd, NoSilentLeak, Chosen, At
  <1> QED  BY <1>1, <1>2, <1>3, <1>4 DEF ClientDrops

(* When forks are ended by their ids, a chunk whose count is zero and that *)
(* is still resident is about to be evicted, or a call that failed, was    *)
(* overtaken or was abandoned accounts for it: also when clients hang up.  *)
THEOREM LeaksShow == ASSUME ~LegacyForkEnd PROVE DropSpec => []NoSilentLeak
  <1> DEFINE Inv == RefcountCovers /\ uncounted \subseteq snapshots /\ NoSilentLeak
  <1>1. Init => Inv
    BY AccountInit DEF Init, NoSilentLeak
  <1>2. TypeOK /\ Numbering /\ Inv /\ [DropNext]_vars => Inv'
    <2> SUFFICES ASSUME TypeOK, Numbering, Inv, [DropNext]_vars
                 PROVE  Inv'
      OBVIOUS
    <2>1. RefcountCovers'
      BY CoversStep
    <2>2. (uncounted \subseteq snapshots)'
      BY UncountedStay
    <2>3. ASSUME UNCHANGED vars PROVE NoSilentLeak'
      BY <2>3 DEF vars, NoSilentLeak, Chosen, At
    <2>4. ASSUME DropNext PROVE NoSilentLeak'
      BY <2>4, LeakEvent, LeakContinue, LeakDrops DEF DropNext, Next
    <2> QED  BY <2>1, <2>2, <2>3, <2>4
  <1>3. Inv => NoSilentLeak
    OBVIOUS
  <1> QED  BY <1>1, <1>2, <1>3, TypeCorrect, ForkIdsDistinct, PTL DEF DropSpec

-----------------------------------------------------------------------------
(* KvManager implements ChunkLedger.  A chunk is held when its count is    *)
(* positive, so that what an operation takes to zero is what loses its     *)
(* last holder.                                                            *)

(* Every fork finds its place among the holders: ids are 1 .. MaxForks.    *)
IdsFit ==
  /\ IsFiniteSet(Unnumbered)
  /\ nextForkId + Cardinality(Unnumbered) <= MaxForks + 1
  /\ \A f \in snapshots : f.id >= 1
  /\ \A r \in Requests : HasId(r) => req[r].fork >= 1

RInv == TypeOK /\ Numbering /\ Exact /\ IdsFit

(* Requests that are no forks, before and after the step, do not matter.   *)
LEMMA IdsFitFrame ==
  ASSUME TypeOK, IdsFit, snapshots' \subseteq snapshots, UNCHANGED nextForkId,
         \A q \in Requests :
           req'[q] = req[q] \/ (req[q].pc # "fork_read" /\ NotAFork(req'[q]))
  PROVE  IdsFit'
  <1>1. Unnumbered' = Unnumbered
    BY DEF Unnumbered, At, NotAFork
  <1>2. \A q \in Requests : HasId(q)' => HasId(q) /\ req'[q] = req[q]
    BY DEF HasId, NotAFork
  <1>3. \A f \in snapshots' : f.id >= 1
    BY DEF IdsFit
  <1>4. \A q \in Requests : HasId(q)' => req'[q].fork >= 1
    BY <1>2 DEF IdsFit
  <1> QED  BY <1>1, <1>3, <1>4 DEF IdsFit

LEMMA IdsFitInit == Init => IdsFit
  <1> SUFFICES ASSUME Init
               PROVE  IdsFit
    OBVIOUS
  <1>1. Unnumbered = {} /\ \A r \in Requests : ~HasId(r)
    BY DEF Init, Unnumbered, At, IdleRequest, HasId
  <1>2. 1 <= MaxForks + 1
    BY BoundAssumption
  <1> QED  BY <1>1, <1>2, FS_EmptySet DEF Init, IdsFit

LEMMA IdsFitStep ==
  ASSUME TypeOK, Numbering, IdsFit, [Next]_vars
  PROVE  IdsFit'
  <1>1. ASSUME NEW r \in Requests, NEW s \in Sessions, Event(r, s), ~ForkRead(r, s)
        PROVE  IdsFit'
    <2>1. ASSUME NEW op, NEW evict, NEW hashes, op # "session_fork",
                 Proceed(r, op, s, evict, hashes)
          PROVE  /\ \A q \in Requests \ {r} : req'[q] = req[q]
                 /\ NotAFork(req'[r])
      BY <2>1 DEF Proceed, NextCall, NotAFork, TypeOK
    <2>2. Idle(r) /\ UNCHANGED nextForkId /\ snapshots' \subseteq snapshots
      BY <1>1 DEF Event, TurnStart, TurnEndNoKv, TurnEnd, OnSnapshotRestore,
                  OnSessionClose, ForkEnd, forkVars
    <2>3. /\ \A q \in Requests \ {r} : req'[q] = req[q]
          /\ NotAFork(req'[r])
      <3>1. CASE TurnStart(r, s) \/ TurnEndNoKv(r, s) \/ OnSessionClose(r, s)
        BY <2>1, <3>1 DEF TurnStart, TurnEndNoKv, OnSessionClose
      <3>2. CASE \E new \in SUBSET Chunks : TurnEnd(r, s, new)
        BY <2>1, <3>2 DEF TurnEnd
      <3>3. CASE \E new \in SUBSET Chunks : OnSnapshotRestore(r, s, new)
        BY <2>1, <3>3 DEF OnSnapshotRestore
      <3>4. CASE ForkEnd(r, s)
        BY <2>1, <3>4 DEF ForkEnd
      <3> QED  BY <1>1, <3>1, <3>2, <3>3, <3>4 DEF Event
    <2> QED  BY <2>2, <2>3, IdsFitFrame DEF Idle
  <1>2. ASSUME NEW r \in Requests, NEW s \in Sessions, ForkRead(r, s)
        PROVE  IdsFit'
    <2>1. /\ \A q \in Requests \ {r} : req'[q] = req[q]
          /\ req'[r].pc = "fork_read" /\ req[r].pc = "idle"
          /\ UNCHANGED <<snapshots, nextForkId>>
          /\ nextForkId + Cardinality(Unnumbered) <= MaxForks
      BY <1>2 DEF ForkRead, Idle, forkVars, TypeOK
    <2>2. Unnumbered' = Unnumbered \cup {r} /\ r \notin Unnumbered
      BY <2>1 DEF Unnumbered, At
    <2>3. /\ IsFiniteSet(Unnumbered')
          /\ Cardinality(Unnumbered') = Cardinality(Unnumbered) + 1
          /\ Cardinality(Unnumbered) \in Nat
      BY <2>2, FS_AddElement, FS_CardinalityType DEF IdsFit
    <2>4. nextForkId' + Cardinality(Unnumbered') <= MaxForks + 1
      BY <2>1, <2>3, BoundAssumption DEF TypeOK
    <2>5. \A q \in Requests : HasId(q)' => HasId(q) /\ req'[q] = req[q]
      BY <2>1 DEF HasId
    <2> QED  BY <2>1, <2>3, <2>4, <2>5 DEF IdsFit
  <1>3. ASSUME NEW r \in Requests, ForkTakeId(r)
        PROVE  IdsFit'
    <2>1. /\ \A q \in Requests \ {r} : req'[q] = req[q]
          /\ req'[r].pc = "fork_id" /\ req[r].pc = "fork_read"
          /\ req'[r].fork = nextForkId /\ nextForkId' = nextForkId + 1
          /\ UNCHANGED snapshots /\ nextForkId \in Nat \ {0}
      BY <1>3 DEF ForkTakeId, At, TypeOK, Request, ActiveRequest
    <2>2. Unnumbered' = Unnumbered \ {r} /\ r \in Unnumbered
      BY <2>1 DEF Unnumbered, At
    <2>3. /\ IsFiniteSet(Unnumbered')
          /\ Cardinality(Unnumbered') = Cardinality(Unnumbered) - 1
          /\ Cardinality(Unnumbered) \in Nat
      BY <2>2, FS_RemoveElement, FS_CardinalityType DEF IdsFit
    <2>4. nextForkId' + Cardinality(Unnumbered') <= MaxForks + 1
      BY <2>1, <2>3, BoundAssumption DEF IdsFit
    <2>5. \A q \in Requests : HasId(q)' => q = r \/ (HasId(q) /\ req'[q] = req[q])
      BY <2>1 DEF HasId
    <2> QED  BY <2>1, <2>3, <2>4, <2>5 DEF IdsFit
  <1>4. ASSUME NEW r \in Requests, ForkInsert(r) \/ ForkCount(r)
        PROVE  IdsFit'
    <2>1. /\ \A q \in Requests \ {r} : req'[q] = req[q]
          /\ req[r].pc \in {"fork_id", "fork_inserted"}
          /\ req'[r].pc \in {"fork_inserted", "done"}
          /\ req'[r].op = req[r].op /\ req'[r].fork = req[r].fork
          /\ UNCHANGED nextForkId
      <3>1. /\ req[r].pc \in {"fork_id", "fork_inserted"} /\ UNCHANGED nextForkId
            /\ Advance(r, "fork_inserted") \/ Advance(r, "done")
        BY <1>4 DEF ForkInsert, ForkCount, At
      <3>2. req[r] \in ActiveRequest
        BY <3>1, ActiveType
      <3>3. \A pc : /\ [req[r] EXCEPT !.pc = pc].pc = pc
                    /\ [req[r] EXCEPT !.pc = pc].op = req[r].op
                    /\ [req[r] EXCEPT !.pc = pc].fork = req[r].fork
        BY <3>2 DEF ActiveRequest
      <3>4. ASSUME NEW pc, Advance(r, pc)
            PROVE  /\ \A q \in Requests \ {r} : req'[q] = req[q]
                   /\ req'[r] = [req[r] EXCEPT !.pc = pc]
        BY <3>4 DEF Advance, TypeOK
      <3>5. PICK pc \in {"fork_inserted", "done"} : Advance(r, pc)
        BY <3>1
      <3>6. \A q \in Requests \ {r} : req'[q] = req[q]
        BY <3>4, <3>5
      <3>7. req'[r] = [req[r] EXCEPT !.pc = pc]
        BY <3>4, <3>5
      <3>8. req'[r].pc = pc /\ req'[r].op = req[r].op /\ req'[r].fork = req[r].fork
        BY <3>3, <3>7
      <3> QED  BY <3>1, <3>5, <3>6, <3>8
    <2>2. Unnumbered' = Unnumbered
      BY <2>1 DEF Unnumbered, At
    <2>3. HasId(r) /\ req[r].fork >= 1
      BY <2>1 DEF Numbering, At, HasId, IdsFit
    <2>4. \A f \in snapshots' : f.id >= 1
      BY <1>4, <2>3 DEF ForkInsert, ForkCount, SnapshotOf, IdsFit
    <2>5. \A q \in Requests : HasId(q)' => q = r \/ (HasId(q) /\ req'[q] = req[q])
      BY <2>1 DEF HasId
    <2> QED  BY <2>1, <2>2, <2>3, <2>4, <2>5 DEF IdsFit
  <1>5. ASSUME NEW r \in Requests, Return(r) \/ BackendAnswers(r)
        PROVE  IdsFit'
    <2>1. CASE Return(r)
      <3>1. /\ \A q \in Requests : req'[q] = req[q]
                 \/ (req[q].pc # "fork_read" /\ NotAFork(req'[q]))
            /\ UNCHANGED <<snapshots, nextForkId>>
        BY <2>1 DEF Return, At, IdleRequest, NotAFork, TypeOK
      <3> QED  BY <3>1, IdsFitFrame
    <2>2. CASE BackendAnswers(r)
      <3>1. /\ Calling(r) /\ Answered(r) /\ UNCHANGED <<snapshots, nextForkId>>
        BY <2>2 DEF BackendAnswers, BackendApplies, BackendRefuses,
                    BackendTimesOut, forkVars
      <3>2. req[r].op # "session_fork" /\ req[r].pc # "fork_read"
        BY <3>1 DEF Numbering, Calling
      <3>3. \A q \in Requests : req'[q] = req[q] \/ (q = r /\ NotAFork(req'[q]))
        BY <3>1, <3>2 DEF Answered, Proceed, NextCall, NotAFork, TypeOK
      <3> QED  BY <3>1, <3>2, <3>3, IdsFitFrame
    <2> QED  BY <1>5, <2>1, <2>2
  <1>6. ASSUME NEW call \in late, LateApplies(call) \/ LateLost(call)
        PROVE  IdsFit'
    BY <1>6, IdsFitFrame DEF LateApplies, LateLost, forkVars
  <1>7. CASE UNCHANGED vars
    BY <1>7, IdsFitFrame DEF vars
  <1> QED  BY <1>1, <1>2, <1>3, <1>4, <1>5, <1>6, <1>7 DEF Next, Continue, ForkStep

-----------------------------------------------------------------------------
(* What holders hold.                                                      *)

LEMMA HeldBy ==
  /\ \A s \in Sessions : /\ SessionHolder(s) \in Holders
                         /\ HeldNow[SessionHolder(s)] = map[s]
                         /\ HeldNow'[SessionHolder(s)] = map'[s]
  /\ \A id \in 1..MaxForks :
       /\ ForkHolder(id) \in Holders
       /\ HeldNow[ForkHolder(id)] =
            UNION {f.hashes : f \in {g \in Counted : g.id = id}}
       /\ HeldNow'[ForkHolder(id)] =
            UNION {f.hashes : f \in {g \in Counted' : g.id = id}}
       /\ \A s \in Sessions : SessionHolder(s) # ForkHolder(id)
  /\ \A h \in Holders : \/ \E s \in Sessions : h = SessionHolder(s)
                        \/ \E id \in 1..MaxForks : h = ForkHolder(id)
  /\ HeldNow = [h \in Holders |-> HeldNow[h]]
  /\ HeldNow' = [h \in Holders |-> HeldNow'[h]]
  <1>1. ASSUME NEW s \in Sessions
        PROVE  /\ SessionHolder(s) \in Holders
               /\ SessionHolder(s)[1] = "session" /\ SessionHolder(s)[2] = s
    BY DEF SessionHolder, Holders
  <1>2. ASSUME NEW id \in 1..MaxForks
        PROVE  /\ ForkHolder(id) \in Holders
               /\ ForkHolder(id)[1] = "fork" /\ ForkHolder(id)[2] = id
    BY DEF ForkHolder, Holders
  <1>3. \A id \in 1..MaxForks, s \in Sessions : SessionHolder(s) # ForkHolder(id)
    BY <1>1, <1>2
  <1>4. \A h \in Holders : \/ \E s \in Sessions : h = SessionHolder(s)
                           \/ \E id \in 1..MaxForks : h = ForkHolder(id)
    BY DEF Holders
  <1>5. \A h \in Holders : /\ h[1] = "session" => HeldNow[h] = map[h[2]] /\ HeldNow'[h] = map'[h[2]]
                           /\ h[1] # "session" =>
                                /\ HeldNow[h] = UNION {f.hashes : f \in {g \in Counted : g.id = h[2]}}
                                /\ HeldNow'[h] = UNION {f.hashes : f \in {g \in Counted' : g.id = h[2]}}
    BY DEF HeldNow
  <1>6. /\ HeldNow = [h \in Holders |-> HeldNow[h]]
        /\ HeldNow' = [h \in Holders |-> HeldNow'[h]]
    BY DEF HeldNow
  <1> QED  BY <1>1, <1>2, <1>3, <1>4, <1>5, <1>6

LEMMA SessionReplaces ==
  ASSUME NEW s \in Sessions, NEW new, TypeOK, map' = [map EXCEPT ![s] = new],
         UNCHANGED Counted
  PROVE  HeldNow' = [HeldNow EXCEPT ![SessionHolder(s)] = new]
  <1>1. map'[s] = new /\ \A t \in Sessions : t # s => map'[t] = map[t]
    BY DEF TypeOK
  <1>2. ASSUME NEW h \in Holders
        PROVE  HeldNow'[h] = IF h = SessionHolder(s) THEN new ELSE HeldNow[h]
    <2>1. CASE \E t \in Sessions : h = SessionHolder(t)
      BY <1>1, <2>1, HeldBy
    <2>2. CASE \E id \in 1..MaxForks : h = ForkHolder(id)
      <3>1. PICK id \in 1..MaxForks : h = ForkHolder(id)
        BY <2>2
      <3>2. h # SessionHolder(s)
        BY <3>1, HeldBy
      <3> QED  BY <3>1, <3>2, HeldBy
    <2> QED  BY <2>1, <2>2, HeldBy
  <1> QED  BY <1>2, HeldBy

(* A fork with a number of its own becomes a holder, or ceases to be one.  *)
LEMMA ForkReplaces ==
  ASSUME NEW f, f.id \in 1..MaxForks, UNCHANGED map, NEW new,
         \A g \in Counted : g.id = f.id => g = f,
         \/ Counted' = Counted \cup {f} /\ new = f.hashes
         \/ Counted' = Counted \ {f} /\ new = {}
  PROVE  HeldNow' = [HeldNow EXCEPT ![ForkHolder(f.id)] = new]
  <1>1. ASSUME NEW id \in 1..MaxForks
        PROVE  HeldNow'[ForkHolder(id)] = IF id = f.id THEN new ELSE HeldNow[ForkHolder(id)]
    <2>1. CASE id # f.id
      <3>1. {g \in Counted' : g.id = id} = {g \in Counted : g.id = id}
        BY <2>1
      <3> QED  BY <2>1, <3>1, HeldBy
    <2>2. CASE id = f.id /\ new = {} /\ Counted' = Counted \ {f}
      <3>1. {g \in Counted' : g.id = id} = {}
        BY <2>2
      <3>2. UNION {g.hashes : g \in {}} = {}
        OBVIOUS
      <3> QED  BY <2>2, <3>1, <3>2, HeldBy
    <2>3. CASE id = f.id /\ new = f.hashes /\ Counted' = Counted \cup {f}
      <3>1. {g \in Counted' : g.id = id} = {f}
        BY <2>3
      <3>2. UNION {g.hashes : g \in {f}} = f.hashes
        <4>1. {g.hashes : g \in {f}} = {f.hashes}
          OBVIOUS
        <4> QED  BY <4>1
      <3> QED  BY <2>3, <3>1, <3>2, HeldBy
    <2> QED  BY <2>1, <2>2, <2>3
  <1>2. ASSUME NEW h \in Holders
        PROVE  HeldNow'[h] = IF h = ForkHolder(f.id) THEN new ELSE HeldNow[h]
    <2>1. CASE \E t \in Sessions : h = SessionHolder(t)
      <3>1. PICK t \in Sessions : h = SessionHolder(t)
        BY <2>1
      <3>2. h # ForkHolder(f.id)
        BY <3>1, HeldBy
      <3> QED  BY <3>1, <3>2, HeldBy
    <2>2. CASE \E id \in 1..MaxForks : h = ForkHolder(id)
      <3>1. PICK id \in 1..MaxForks : h = ForkHolder(id)
        BY <2>2
      <3>2. ForkHolder(id) = ForkHolder(f.id) <=> id = f.id
        BY DEF ForkHolder
      <3> QED  BY <1>1, <3>1, <3>2
    <2> QED  BY <2>1, <2>2, HeldBy
  <1> QED  BY <1>2, HeldBy

LEMMA NothingReplaced ==
  ASSUME UNCHANGED <<map, Counted>>
  PROVE  HeldNow' = HeldNow
  BY DEF HeldNow

LEMMA ForkIdsFit ==
  ASSUME RInv
  PROVE  \A f \in snapshots : f.id \in 1..MaxForks
  <1> USE DEF RInv
  <1>1. \A f \in snapshots : f.id \in Nat /\ f.id < nextForkId /\ f.id >= 1
    BY DEF TypeOK, Snapshot, Numbering, ForkIds, IdsFit
  <1>2. nextForkId <= MaxForks + 1
    BY FS_CardinalityType, BoundAssumption DEF IdsFit, TypeOK
  <1> QED  BY <1>1, <1>2, BoundAssumption DEF TypeOK

(* What a request is about to evict, after its state has become q.         *)
LEMMA DoomedStep ==
  ASSUME TypeOK, NEW r \in Requests, NEW q, req' = [req EXCEPT ![r] = q]
  PROVE  DoomedNow' = [DoomedNow EXCEPT ![r] = IF q.pc = "evict" THEN q.evict ELSE {}]
  BY DEF DoomedNow, At, TypeOK

LEMMA DoomedProceed ==
  ASSUME TypeOK, NEW r \in Requests, NEW op, NEW s, NEW evict, NEW hashes,
         Proceed(r, op, s, evict, hashes)
  PROVE  DoomedNow' = [DoomedNow EXCEPT ![r] = evict]
  <1> DEFINE q == [pc |-> NextCall(evict, hashes), op |-> op, session |-> s,
                   fork |-> 0, evict |-> evict, hashes |-> hashes]
  <1>1. req' = [req EXCEPT ![r] = q]
    BY DEF Proceed
  <1>2. (IF q.pc = "evict" THEN q.evict ELSE {}) = evict
    BY DEF NextCall
  <1> HIDE DEF q
  <1> QED  BY <1>1, <1>2, DoomedStep

(* Held chunks are those with a count.                                     *)
HeldPositive == Ledger!Held(HeldNow) = {c \in Chunks : refcounts[c] > 0}

LEMMA CountedIsHeld == RInv => HeldPositive
  <1> SUFFICES ASSUME RInv
               PROVE  HeldPositive
    OBVIOUS
  <1> USE DEF RInv
  <1>1. \A f \in snapshots : f.id \in 1..MaxForks
    BY ForkIdsFit
  <1>2. ASSUME NEW c
        PROVE  c \in Ledger!Held(HeldNow) <=>
                 \/ \E s \in Sessions : c \in map[s]
                 \/ \E f \in Counted : c \in f.hashes
    <2>1. c \in Ledger!Held(HeldNow) <=> \E h \in Holders : c \in HeldNow[h]
      BY DEF Ledger!Held
    <2>2. (\E s \in Sessions : c \in map[s]) => \E h \in Holders : c \in HeldNow[h]
      BY HeldBy
    <2>3. ASSUME NEW f \in Counted, c \in f.hashes
          PROVE  \E h \in Holders : c \in HeldNow[h]
      <3>1. f.id \in 1..MaxForks
        BY <1>1 DEF Counted
      <3>2. HeldNow[ForkHolder(f.id)] =
              UNION {g.hashes : g \in {k \in Counted : k.id = f.id}}
        BY <3>1, HeldBy
      <3>3. c \in HeldNow[ForkHolder(f.id)]
        BY <2>3, <3>2
      <3> QED  BY <3>1, <3>3, HeldBy
    <2>4. ASSUME NEW h \in Holders, c \in HeldNow[h]
          PROVE  \/ \E s \in Sessions : c \in map[s]
                 \/ \E f \in Counted : c \in f.hashes
      <3>1. CASE \E s \in Sessions : h = SessionHolder(s)
        BY <2>4, <3>1, HeldBy
      <3>2. CASE \E id \in 1..MaxForks : h = ForkHolder(id)
        <4>1. PICK id \in 1..MaxForks : h = ForkHolder(id)
          BY <3>2
        <4>2. c \in UNION {f.hashes : f \in {g \in Counted : g.id = id}}
          BY <2>4, <4>1, HeldBy
        <4> QED  BY <4>2
      <3> QED  BY <3>1, <3>2, HeldBy
    <2> QED  BY <2>1, <2>2, <2>3, <2>4
  <1>3. ASSUME NEW c \in Chunks
        PROVE  refcounts[c] > 0 <=> \/ \E s \in Sessions : c \in map[s]
                                    \/ \E f \in Counted : c \in f.hashes
    <2>1. /\ Cardinality(SessionRefs(c)) + Cardinality(ForkRefs(c))
               = refcounts[c] + Cardinality(Owed(c))
          /\ uncounted \subseteq snapshots
      BY DEF Exact, Balanced
    <2>2. Owed(c) \subseteq ForkRefs(c)
      BY <2>1 DEF Owed, ForkRefs
    <2>3. /\ Cardinality(Owed(c)) <= Cardinality(ForkRefs(c))
          /\ Cardinality(Owed(c)) = Cardinality(ForkRefs(c)) => Owed(c) = ForkRefs(c)
      BY <2>2, RefsFinite, FS_Subset
    <2>4. Cardinality(SessionRefs(c)) = 0 <=> SessionRefs(c) = {}
      BY RefsFinite, FS_EmptySet
    <2>5. refcounts[c] \in Nat
      BY DEF TypeOK
    <2>6. refcounts[c] = 0 <=> SessionRefs(c) = {} /\ Owed(c) = ForkRefs(c)
      BY <2>1, <2>3, <2>4, <2>5, RefsFinite
    <2>7. SessionRefs(c) = {} <=> ~ \E s \in Sessions : c \in map[s]
      BY DEF SessionRefs
    <2>8. Owed(c) = ForkRefs(c) <=> ~ \E f \in Counted : c \in f.hashes
      BY <2>1 DEF Owed, ForkRefs, Counted
    <2> QED  BY <2>5, <2>6, <2>7, <2>8
  <1>4. \A c : c \in Ledger!Held(HeldNow) => c \in Chunks
    BY <1>2 DEF TypeOK, Counted, Snapshot
  <1> QED  BY <1>2, <1>3, <1>4 DEF HeldPositive

(* An operation that replaces what one holder holds evicts what it takes   *)
(* to zero.                                                                *)
LEMMA Replaces ==
  ASSUME TypeOK, HeldPositive, HeldPositive', NEW r \in Requests, ~At(r, "evict"),
         NEW h \in Holders, NEW new \in SUBSET Chunks,
         HeldNow' = [HeldNow EXCEPT ![h] = new],
         NEW drop \in SUBSET Chunks, NEW add, refcounts' = Adjusted(drop, add),
         DoomedNow' = [DoomedNow EXCEPT ![r] = Evictable(drop)]
  PROVE  Ledger!Next
  <1>1. DoomedNow[r] = {}
    BY DEF DoomedNow
  <1>2. Ledger!Held(HeldNow) \ Ledger!Held(HeldNow') = Evictable(drop)
    <2>1. Ledger!Held(HeldNow') = {c \in Chunks : refcounts'[c] > 0}
      BY DEF HeldPositive
    <2>2. Ledger!Held(HeldNow) = {c \in Chunks : refcounts[c] > 0}
      BY DEF HeldPositive
    <2>3. \A c \in Chunks : refcounts[c] \in Nat /\
            (refcounts[c] > 0 /\ ~(refcounts'[c] > 0) <=> c \in Evictable(drop))
      BY DEF TypeOK, Adjusted, Evictable
    <2>4. Evictable(drop) \subseteq Chunks
      BY DEF Evictable
    <2> QED  BY <2>1, <2>2, <2>3, <2>4
  <1>3. Ledger!Replace(r, h, new)
    BY <1>1, <1>2 DEF Ledger!Replace
  <1> QED  BY <1>3 DEF Ledger!Next

LEMMA LedgerEvent ==
  ASSUME RInv, HeldPositive, HeldPositive', ~LegacyForkEnd,
         NEW r \in Requests, NEW s \in Sessions, Event(r, s)
  PROVE  Ledger!Next \/ UNCHANGED <<HeldNow, DoomedNow>>
  <1> USE DEF RInv
  <1>0. Idle(r) /\ ~At(r, "evict") /\ DoomedNow[r] = {}
    BY DEF Event, TurnStart, TurnEndNoKv, TurnEnd, OnSnapshotRestore,
           OnSessionClose, ForkRead, ForkEnd, Idle, At, DoomedNow
  <1>1. ASSUME NEW op, NEW hashes, Proceed(r, op, s, {}, hashes)
        PROVE  DoomedNow' = DoomedNow
    <2>1. DoomedNow' = [DoomedNow EXCEPT ![r] = {}]
      BY <1>1, DoomedProceed
    <2> QED  BY <1>0, <2>1 DEF DoomedNow
  <1>2. CASE TurnStart(r, s) \/ TurnEndNoKv(r, s)
    <2>1. DoomedNow' = DoomedNow
      BY <1>1, <1>2 DEF TurnStart, TurnEndNoKv
    <2>2. UNCHANGED <<map, Counted>>
      BY <1>2 DEF TurnStart, TurnEndNoKv, stateVars, forkVars, Counted
    <2> QED  BY <2>1, <2>2, NothingReplaced
  <1>3. ASSUME NEW new \in SUBSET Chunks,
               TurnEnd(r, s, new) \/ OnSnapshotRestore(r, s, new)
        PROVE  Ledger!Next
    <2>1. map[s] \ new \in SUBSET Chunks /\ SessionHolder(s) \in Holders
      BY HeldBy DEF TypeOK
    <2>2. /\ map' = [map EXCEPT ![s] = new] /\ UNCHANGED Counted
          /\ refcounts' = Adjusted(map[s] \ new, new \ map[s])
      BY <1>3 DEF TurnEnd, OnSnapshotRestore, forkVars, Counted
    <2>3. DoomedNow' = [DoomedNow EXCEPT ![r] = Evictable(map[s] \ new)]
      BY <1>3, DoomedProceed DEF TurnEnd, OnSnapshotRestore
    <2>4. HeldNow' = [HeldNow EXCEPT ![SessionHolder(s)] = new]
      BY <2>2, SessionReplaces
    <2> QED  BY <1>0, <2>1, <2>2, <2>3, <2>4, Replaces
  <1>4. CASE OnSessionClose(r, s)
    <2>1. map[s] \in SUBSET Chunks /\ SessionHolder(s) \in Holders
      BY HeldBy DEF TypeOK
    <2>2. /\ map' = [map EXCEPT ![s] = {}] /\ UNCHANGED Counted
          /\ refcounts' = Adjusted(map[s], {})
      BY <1>4 DEF OnSessionClose, forkVars, Counted
    <2>3. DoomedNow' = [DoomedNow EXCEPT ![r] = Evictable(map[s])]
      BY <1>4, DoomedProceed DEF OnSessionClose
    <2>4. HeldNow' = [HeldNow EXCEPT ![SessionHolder(s)] = {}]
      BY <2>2, SessionReplaces
    <2> QED  BY <1>0, <2>1, <2>2, <2>3, <2>4, Replaces
  <1>5. CASE ForkRead(r, s)
    <2> DEFINE q == [pc |-> "fork_read", op |-> "session_fork", session |-> s,
                     fork |-> 0, evict |-> {}, hashes |-> map[s]]
    <2>1. req' = [req EXCEPT ![r] = q] /\ q.pc = "fork_read"
      BY <1>5 DEF ForkRead
    <2> HIDE DEF q
    <2>2. DoomedNow' = [DoomedNow EXCEPT ![r] = {}]
      BY <2>1, DoomedStep
    <2>3. UNCHANGED <<map, Counted>>
      BY <1>5 DEF ForkRead, stateVars, forkVars, Counted
    <2> QED  BY <1>0, <2>2, <2>3, NothingReplaced DEF DoomedNow
  <1>6. CASE ForkEnd(r, s)
    <2>1. PICK chosen \in Selections(s) :
            /\ snapshots' = snapshots \ chosen
            /\ refcounts' = Adjusted(UNION {f.hashes : f \in chosen}, {})
            /\ Proceed(r, "session_fork_end", s,
                       Evictable(UNION {f.hashes : f \in chosen}), {})
            /\ UNCHANGED <<map, uncounted>>
      BY <1>6 DEF ForkEnd, stateVars
    <2>2. CASE chosen = {}
      <3>1. UNION {f.hashes : f \in chosen} = {}
        BY <2>2
      <3>2. Evictable({}) = {}
        BY DEF Evictable
      <3>3. DoomedNow' = DoomedNow
        BY <1>1, <2>1, <3>1, <3>2
      <3>4. UNCHANGED <<map, Counted>>
        BY <2>1, <2>2 DEF Counted
      <3> QED  BY <3>3, <3>4, NothingReplaced
    <2>3. CASE chosen # {}
      <3>1. PICK f \in snapshots : chosen = {f} /\ f \notin uncounted
        BY <2>3, SelectsOne
      <3>2. UNION {g.hashes : g \in chosen} = f.hashes
        <4>1. {g.hashes : g \in chosen} = {f.hashes}
          BY <3>1
        <4>2. UNION {f.hashes} = f.hashes
          OBVIOUS
        <4> QED  BY <4>1, <4>2
      <3>3. f.id \in 1..MaxForks /\ f.hashes \in SUBSET Chunks
        BY ForkIdsFit DEF TypeOK, Snapshot
      <3>4. Counted' = Counted \ {f} /\ \A g \in Counted : g.id = f.id => g = f
        BY <2>1, <3>1 DEF Counted, Numbering
      <3>5. HeldNow' = [HeldNow EXCEPT ![ForkHolder(f.id)] = {}]
        BY <2>1, <3>3, <3>4, ForkReplaces
      <3>6. DoomedNow' = [DoomedNow EXCEPT ![r] = Evictable(f.hashes)]
        BY <2>1, <3>2, DoomedProceed
      <3>7. refcounts' = Adjusted(f.hashes, {}) /\ ForkHolder(f.id) \in Holders
        BY <2>1, <3>2, <3>3, HeldBy
      <3> QED  BY <1>0, <3>3, <3>5, <3>6, <3>7, Replaces
    <2> QED  BY <2>2, <2>3
  <1> QED  BY <1>2, <1>3, <1>4, <1>5, <1>6 DEF Event

LEMMA LedgerContinue ==
  ASSUME RInv, HeldPositive, HeldPositive',
         Continue \/ \E r \in Requests : Return(r)
  PROVE  Ledger!Next \/ UNCHANGED <<HeldNow, DoomedNow>>
  <1> USE DEF RInv
  <1>1. ASSUME NEW r \in Requests, ForkTakeId(r) \/ ForkInsert(r) \/ Return(r)
        PROVE  UNCHANGED <<HeldNow, DoomedNow>>
    <2>1. PICK q : req' = [req EXCEPT ![r] = q] /\ q.pc \in {"fork_id", "fork_inserted", "idle"}
      <3>1. req[r] \in ActiveRequest
        BY <1>1, ActiveType DEF ForkTakeId, ForkInsert, Return, At
      <3>2. \A pc : [req[r] EXCEPT !.pc = pc].pc = pc
        BY <3>1 DEF ActiveRequest
      <3>3. [req[r] EXCEPT !.pc = "fork_id", !.fork = nextForkId].pc = "fork_id"
        BY <3>1 DEF ActiveRequest
      <3>4. CASE ForkTakeId(r)
        <4>1. req' = [req EXCEPT ![r] = [req[r] EXCEPT !.pc = "fork_id", !.fork = nextForkId]]
          BY <3>4 DEF ForkTakeId
        <4> QED  BY <3>3, <4>1
      <3>5. CASE ForkInsert(r)
        <4>1. req' = [req EXCEPT ![r] = [req[r] EXCEPT !.pc = "fork_inserted"]]
          BY <3>5 DEF ForkInsert, Advance
        <4> QED  BY <3>2, <4>1
      <3>6. CASE Return(r)
        <4>1. req' = [req EXCEPT ![r] = IdleRequest] /\ IdleRequest.pc = "idle"
          BY <3>6 DEF Return, IdleRequest
        <4> QED  BY <4>1
      <3> QED  BY <1>1, <3>4, <3>5, <3>6
    <2>2. DoomedNow' = [DoomedNow EXCEPT ![r] = {}]
      BY <2>1, DoomedStep
    <2>3. DoomedNow[r] = {}
      BY <1>1 DEF DoomedNow, At, ForkTakeId, ForkInsert, Return
    <2>4. UNCHANGED <<map, Counted>>
      <3>1. CASE ForkInsert(r)
        <4>1. SnapshotOf(r) \notin snapshots
          BY <3>1 DEF ForkInsert, At, Numbering, HasId, ForkIds, SnapshotOf
        <4> QED  BY <3>1, <4>1 DEF ForkInsert, stateVars, Counted
      <3> QED  BY <1>1, <3>1 DEF ForkTakeId, Return, stateVars, Counted
    <2> QED  BY <2>2, <2>3, <2>4, NothingReplaced DEF DoomedNow
  <1>2. ASSUME NEW r \in Requests, ForkCount(r)
        PROVE  Ledger!Next
    <2>1. /\ req[r].pc = "fork_inserted" /\ ~At(r, "evict")
          /\ SnapshotOf(r) \in uncounted /\ SnapshotOf(r) \in snapshots
          /\ UNCHANGED <<map, snapshots>> /\ uncounted' = uncounted \ {SnapshotOf(r)}
          /\ refcounts' = Adjusted({}, SnapshotOf(r).hashes)
      BY <1>2 DEF ForkCount, At, Numbering, Exact, SnapshotOf, stateVars
    <2>2. PICK f \in snapshots : f = SnapshotOf(r)
      BY <2>1
    <2>3. f.id \in 1..MaxForks /\ f.hashes \in SUBSET Chunks /\ ForkHolder(f.id) \in Holders
      BY ForkIdsFit, HeldBy DEF TypeOK, Snapshot
    <2>4. Counted' = Counted \cup {f} /\ \A g \in Counted : g.id = f.id => g = f
      BY <2>1, <2>2 DEF Counted, Numbering
    <2>5. HeldNow' = [HeldNow EXCEPT ![ForkHolder(f.id)] = f.hashes]
      BY <2>1, <2>3, <2>4, ForkReplaces
    <2>6. Evictable({}) = {}
      BY DEF Evictable
    <2>7. DoomedNow' = [DoomedNow EXCEPT ![r] = {}]
      <3>1. [req[r] EXCEPT !.pc = "done"].pc = "done"
        BY <2>1, ActiveType DEF ActiveRequest
      <3> QED  BY <1>2, <3>1, DoomedStep DEF ForkCount, Advance
    <2> QED  BY <2>1, <2>2, <2>3, <2>5, <2>6, <2>7, Replaces
  <1>3. ASSUME NEW r \in Requests, BackendAnswers(r)
        PROVE  Ledger!Next
    <2>1. Answered(r) /\ UNCHANGED <<map, Counted>>
      BY <1>3 DEF BackendAnswers, BackendApplies, BackendRefuses,
                  BackendTimesOut, stateVars, forkVars, Counted
    <2>2. DoomedNow' = [DoomedNow EXCEPT ![r] = {}]
      BY <2>1, DoomedProceed DEF Answered
    <2>3. Ledger!Discharge(r)
      BY <2>1, <2>2, NothingReplaced DEF Ledger!Discharge
    <2> QED  BY <2>3 DEF Ledger!Next
  <1>4. ASSUME NEW call \in late, LateApplies(call) \/ LateLost(call)
        PROVE  UNCHANGED <<HeldNow, DoomedNow>>
    BY <1>4, NothingReplaced
       DEF LateApplies, LateLost, stateVars, forkVars, Counted, DoomedNow, At
  <1> QED  BY <1>1, <1>2, <1>3, <1>4 DEF Continue, ForkStep

LEMMA LedgerInit == Init => Ledger!Init
  <1> SUFFICES ASSUME Init
               PROVE  Ledger!Init
    OBVIOUS
  <1>1. \A h \in Holders : HeldNow[h] = {}
    <2>1. Counted = {} /\ \A s \in Sessions : map[s] = {}
      BY DEF Init, Counted
    <2>2. \A id \in 1..MaxForks : HeldNow[ForkHolder(id)] = {}
      BY <2>1, HeldBy
    <2> QED  BY <2>1, <2>2, HeldBy
  <1>2. HeldNow = [h \in Holders |-> {}]
    BY <1>1, HeldBy
  <1>3. DoomedNow = [r \in Requests |-> {}]
    BY DEF Init, DoomedNow, At, IdleRequest
  <1> QED  BY <1>2, <1>3 DEF Ledger!Init

(* Without hang-ups, and with forks ended by their ids, the coordinator    *)
(* implements the ledger of sets: each operation tells the backend to      *)
(* evict the chunks that lost their last holder in it, all of them and no  *)
(* others.                                                                 *)
THEOREM LedgerImplemented == ASSUME ~LegacyForkEnd PROVE Spec => ImplementsLedger
  <1>1. Init => RInv
    BY InitType, NumberingInit, AccountInit, IdsFitInit DEF RInv
  <1>2. RInv /\ [Next]_vars => RInv'
    <2> SUFFICES ASSUME RInv, [Next]_vars
                 PROVE  RInv'
      OBVIOUS
    <2> USE DEF RInv
    <2>1. [DropNext]_vars
      BY DEF DropNext
    <2>2. Exact'
      <3>1. CASE UNCHANGED vars
        BY <3>1, AccountFrame DEF vars
      <3>2. CASE Next
        BY <3>2, AccountEvent, AccountContinue DEF Next
      <3> QED  BY <3>1, <3>2
    <2> QED  BY <2>1, <2>2, TypeStep, NumberingStep, IdsFitStep
  <1>3. RInv => HeldPositive
    BY CountedIsHeld
  <1>4. RInv /\ HeldPositive /\ HeldPositive' /\ [Next]_vars
          => [Ledger!Next]_<<HeldNow, DoomedNow>>
    <2> SUFFICES ASSUME RInv, HeldPositive, HeldPositive', [Next]_vars
                 PROVE  Ledger!Next \/ UNCHANGED <<HeldNow, DoomedNow>>
      OBVIOUS
    <2>1. CASE UNCHANGED vars
      BY <2>1 DEF vars, HeldNow, DoomedNow, Counted, At
    <2>2. CASE Next
      BY <2>2, LedgerEvent, LedgerContinue DEF Next
    <2> QED  BY <2>1, <2>2
  <1> QED  BY <1>1, <1>2, <1>3, <1>4, LedgerInit, PTL
           DEF Spec, ImplementsLedger, Ledger!Spec

-----------------------------------------------------------------------------
(* The daemon around the coordinator.                                       *)

Stages == {"load", "restore", "pin", "suspend", "manager", "read_map",
           "read_turns", "save", "check_pin", "remove"}

ActiveHandler == [at: Stages, event: Events, session: Sessions,
                  map: SUBSET Chunks, turns: Nat]

(* The events in whose handlers a stage occurs.                            *)
StageFits(h) ==
  /\ h.at \in {"load", "restore", "pin"} => h.event = "snapshot_restore"
  /\ h.at = "suspend" => h.event = "session_suspend"
  /\ h.at \in {"read_map", "read_turns", "save"} => h.event = "turn_end"
  /\ h.at \in {"check_pin", "remove"} => h.event = "session_close"

DaemonTypeOK ==
  /\ TypeOK
  /\ DOMAIN rows \subseteq Sessions
  /\ \A s \in DOMAIN rows : rows[s].map \in SUBSET Chunks /\ rows[s].turns \in Nat
  /\ pins \subseteq Sessions
  /\ handler \in [Requests -> ActiveHandler \cup {NoHandler}]
  /\ \A r \in Requests : StageFits(handler[r])
  /\ faults \in Nat

-----------------------------------------------------------------------------
(* What the daemon's steps are to the coordinator.                         *)

(* A fork_end with an id given to a client by an earlier process.          *)
EndsStale(r, s) ==
  \E id \in stale :
    LET chosen == SelectById(s, id)
        hashes == UNION {f.hashes : f \in chosen}
    IN  /\ snapshots' = snapshots \ chosen
        /\ refcounts' = Adjusted(hashes, {})
        /\ Proceed(r, "session_fork_end", s, Evictable(hashes), {})
        /\ UNCHANGED <<stateVars, nextForkId, uncounted, issued, backendVars,
                       drops>>

(* The client hangs up between two calls of its handler.                   *)
OnlyDrops ==
  /\ drops' = drops + 1
  /\ UNCHANGED <<stateVars, refcounts, forkVars, backendVars, req>>

LEMMA CoordinatorStep ==
  ASSUME DaemonTypeOK, [DaemonNext]_allVars
  PROVE  \/ [DropNext]_vars
         \/ \E r \in Requests, s \in Sessions : EndsStale(r, s)
         \/ OnlyDrops
         \/ Restart
  <1>1. ASSUME NEW r \in Requests, NEW s \in Sessions, HandleDirect(r, s)
        PROVE  DropNext
    BY <1>1 DEF HandleDirect, DropNext, Next, Event
  <1>2. ASSUME NEW r \in Requests, NEW s \in Sessions, HandleStaleForkEnd(r, s)
        PROVE  EndsStale(r, s)
    BY <1>2 DEF HandleStaleForkEnd, EndsStale
  <1>3. ASSUME NEW r \in Requests, NEW s \in Sessions,
               HandleRestore(r, s) \/ HandleSuspend(r, s)
        PROVE  UNCHANGED vars
    BY <1>3 DEF HandleRestore, HandleSuspend
  <1>4. ASSUME NEW r \in Requests, handler[r] # NoHandler
        PROVE  Client(r) \in Sessions /\ handler[r].map \in SUBSET Chunks
    BY <1>4 DEF DaemonTypeOK, ActiveHandler, Client
  <1>5. ASSUME NEW r \in Requests, HandlerStep(r)
        PROVE  [DropNext]_vars
    <2>1. CASE RestoreMap(r)
      <3>1. handler[r] # NoHandler
        BY <2>1 DEF RestoreMap, Stage, NoHandler
      <3>2. Event(r, Client(r))
        BY <1>4, <2>1, <3>1 DEF RestoreMap, Event
      <3> QED  BY <1>4, <3>1, <3>2 DEF DropNext, Next
    <2>2. CASE SuspendClose(r)
      <3>1. handler[r] # NoHandler
        BY <2>2 DEF SuspendClose, Stage, NoHandler
      <3>2. Event(r, Client(r))
        BY <2>2 DEF SuspendClose, Event
      <3> QED  BY <1>4, <3>1, <3>2 DEF DropNext, Next
    <2>3. CASE CoordinatorReturns(r) \/ DebugFileFails(r)
      BY <2>3 DEF CoordinatorReturns, DebugFileFails, DropNext, Next
    <2>4. CASE \/ LoadRow(r) \/ ReadMap(r) \/ ReadTurns(r) \/ SaveRow(r)
               \/ CheckPin(r) \/ RemoveRow(r) \/ PinRestored(r)
      BY <2>4 DEF LoadRow, ReadMap, ReadTurns, SaveRow, CheckPin, RemoveRow,
                  PinRestored
    <2> QED  BY <1>5, <2>1, <2>2, <2>3, <2>4 DEF HandlerStep
  <1>6. CASE HangUp
    <2>1. CASE \E r \in Requests : DropFork(r) \/ DropCall(r)
      BY <2>1 DEF DropNext, ClientDrops
    <2>2. CASE \E s \in Sessions :
                 \/ DropClose(s) \/ DropForkEnd(s)
                 \/ \E new \in SUBSET Chunks : DropTurnEnd(s, new)
      BY <2>2 DEF DropNext, ClientDrops
    <2>3. ASSUME NEW r \in Requests, Stage(r) = "suspend", DropClose(Client(r))
          PROVE  DropNext
      <3>1. Client(r) \in Sessions
        BY <1>4, <2>3 DEF Stage, NoHandler
      <3> QED  BY <2>3, <3>1 DEF DropNext, ClientDrops
    <2>4. CASE /\ Drop
               /\ UNCHANGED <<stateVars, refcounts, forkVars, backendVars, req>>
      BY <2>4 DEF OnlyDrops, Drop
    <2> QED  BY <1>6, <2>1, <2>2, <2>3, <2>4 DEF HangUp
  <1>7. CASE UNCHANGED allVars
    BY <1>7 DEF allVars
  <1> QED  BY <1>1, <1>2, <1>3, <1>5, <1>6, <1>7
           DEF DaemonNext, Arrival, DropNext, Next

-----------------------------------------------------------------------------
(* Types.                                                                  *)

(* Ending a fork by an id: its snapshots are those of Selections.          *)
LEMMA StaleSelection ==
  ASSUME TypeOK, NEW s \in Sessions, NEW id
  PROVE  /\ SelectById(s, id) \subseteq snapshots
         /\ UNION {f.hashes : f \in SelectById(s, id)} \in SUBSET Chunks
  BY DEF TypeOK, SelectById, Snapshot

LEMMA StaleType ==
  ASSUME TypeOK, NEW r \in Requests, NEW s \in Sessions, EndsStale(r, s)
  PROVE  TypeOK'
  <1>1. PICK id \in stale :
          /\ snapshots' = snapshots \ SelectById(s, id)
          /\ refcounts' = Adjusted(UNION {f.hashes : f \in SelectById(s, id)}, {})
          /\ Proceed(r, "session_fork_end", s,
                     Evictable(UNION {f.hashes : f \in SelectById(s, id)}), {})
          /\ UNCHANGED <<stateVars, nextForkId, uncounted, issued, backendVars,
                         drops>>
    BY DEF EndsStale
  <1>2. req' \in [Requests -> Request]
    BY <1>1, StaleSelection, ProceedType, EvictableType DEF Operations
  <1>3. refcounts' \in [Chunks -> Nat]
    BY <1>1, AdjustedType DEF TypeOK
  <1>4. snapshots' \subseteq Snapshot /\ IsFiniteSet(snapshots')
    BY <1>1, FS_Subset DEF TypeOK
  <1> QED  BY <1>1, <1>2, <1>3, <1>4 DEF TypeOK, stateVars, backendVars

LEMMA RestartType ==
  ASSUME DaemonTypeOK, Restart
  PROVE  TypeOK'
  <1>1. /\ open' \subseteq Sessions
        /\ map' \in [Sessions -> SUBSET Chunks]
        /\ turns' \in [Sessions -> Nat]
        /\ \A s \in Sessions \ open' : map'[s] = {} /\ turns'[s] = 0
    BY DEF Restart, DaemonTypeOK
  <1>2. refcounts' \in [Chunks -> Nat]
    <2>1. \A c \in Chunks : SessionRefs(c)' \subseteq Sessions
      BY DEF SessionRefs
    <2>2. \A c \in Chunks : Cardinality(SessionRefs(c)') \in Nat
      BY <2>1, SessionsAssumption, FS_Subset, FS_CardinalityType
    <2> QED  BY <2>2 DEF Restart
  <1>3. req' \in [Requests -> Request]
    BY IdleRequestType DEF Restart
  <1>4. late' \subseteq BackendCall
    <2>1. \A r \in Requests : Calling(r) => CallOf(r) \in BackendCall
      BY CallOfType DEF DaemonTypeOK
    <2>2. late \subseteq BackendCall
      BY DEF DaemonTypeOK, TypeOK
    <2> QED  BY <2>1, <2>2 DEF Restart
  <1>5. /\ snapshots' = {} /\ uncounted' = {} /\ issued' = {} /\ nextForkId' = 1
        /\ UNCHANGED <<resident, drops>> /\ stray' \subseteq stray \cup resident
    BY DEF Restart
  <1> QED  BY <1>1, <1>2, <1>3, <1>4, <1>5, FS_EmptySet DEF TypeOK, DaemonTypeOK

LEMMA CoordinatorType ==
  ASSUME DaemonTypeOK, [DaemonNext]_allVars
  PROVE  TypeOK'
  <1>1. CASE OnlyDrops
    BY <1>1 DEF OnlyDrops, DaemonTypeOK, TypeOK, stateVars, forkVars, backendVars
  <1> QED  BY <1>1, CoordinatorStep, TypeStep, StaleType, RestartType
           DEF DaemonTypeOK

(* The handlers and the tables.                                            *)
LEMMA HandlerTypes ==
  ASSUME DaemonTypeOK, [DaemonNext]_allVars
  PROVE  /\ DOMAIN rows' \subseteq Sessions
         /\ \A s \in DOMAIN rows' : rows'[s].map \in SUBSET Chunks
                                      /\ rows'[s].turns \in Nat
         /\ pins' \subseteq Sessions
         /\ handler' \in [Requests -> ActiveHandler \cup {NoHandler}]
         /\ \A r \in Requests : StageFits(handler'[r])
         /\ faults' \in Nat
  <1> DEFINE HT == /\ handler' \in [Requests -> ActiveHandler \cup {NoHandler}]
                   /\ \A r \in Requests : StageFits(handler'[r])
             TT == /\ DOMAIN rows' \subseteq Sessions
                   /\ \A s \in DOMAIN rows' : rows'[s].map \in SUBSET Chunks
                                                /\ rows'[s].turns \in Nat
                   /\ pins' \subseteq Sessions /\ faults' \in Nat
  <1>1. ASSUME UNCHANGED tables, UNCHANGED faults \/ Fault
        PROVE  TT
    BY <1>1 DEF DaemonTypeOK, tables, Fault
  <1>2. ASSUME NEW r \in Requests, NEW s \in Sessions, NEW event \in Events,
               NEW at \in Stages, NEW read \in SUBSET Chunks,
               Accept(r, s, event, at, read),
               at \in {"load", "restore", "pin"} => event = "snapshot_restore",
               at = "suspend" => event = "session_suspend",
               at \notin {"read_map", "read_turns", "save", "check_pin", "remove"}
        PROVE  HT
    <2>1. 0 \in Nat
      OBVIOUS
    <2>2. [at |-> at, event |-> event, session |-> s, map |-> read, turns |-> 0]
            \in ActiveHandler
      BY <1>2, <2>1 DEF ActiveHandler
    <2> QED  BY <1>2, <2>2 DEF Accept, DaemonTypeOK, StageFits
  <1>3. ASSUME NEW r \in Requests, Finish(r)
        PROVE  HT
    BY <1>3 DEF Finish, DaemonTypeOK, StageFits, NoHandler
  <1>4. ASSUME NEW r \in Requests, handler[r] # NoHandler
        PROVE  handler[r] \in ActiveHandler
    BY <1>4 DEF DaemonTypeOK
  <1>5. ASSUME NEW r \in Requests, handler[r] # NoHandler, NEW at \in Stages, Step(r, at),
               StageFits([handler[r] EXCEPT !.at = at])
        PROVE  HT
    <2>1. [handler[r] EXCEPT !.at = at] \in ActiveHandler
      BY <1>4, <1>5 DEF ActiveHandler
    <2>2. handler' = [handler EXCEPT ![r] = [handler[r] EXCEPT !.at = at]]
      BY <1>5 DEF Step
    <2> QED  BY <1>5, <2>1, <2>2 DEF DaemonTypeOK
  <1>6. ASSUME NEW r \in Requests, NEW at, handler[r].at = at, at # "none"
        PROVE  handler[r] # NoHandler
    BY <1>6 DEF NoHandler
  <1>7. ASSUME NEW r \in Requests, NEW s \in Sessions, Arrival(r, s)
        PROVE  HT /\ TT
    <2>1. CASE HandleDirect(r, s)
      <3>1. PICK event \in {"turn_start", "turn_end", "session_close",
                            "session_fork", "session_fork_end"} :
              Accept(r, s, event, "manager", {})
        BY <2>1 DEF HandleDirect
      <3>2. HT
        BY <1>2, <3>1 DEF Stages, Events
      <3> QED  BY <1>1, <2>1, <3>2 DEF HandleDirect, histories
    <2>2. CASE HandleStaleForkEnd(r, s)
      <3>1. HT
        BY <1>2, <2>2 DEF HandleStaleForkEnd, Stages, Events
      <3> QED  BY <1>1, <2>2, <3>1 DEF HandleStaleForkEnd, histories
    <2>3. CASE HandleRestore(r, s)
      <3>1. map[s] \in SUBSET Chunks
        BY DEF DaemonTypeOK, TypeOK
      <3>2. HT
        BY <1>2, <2>3, <3>1 DEF HandleRestore, Stages, Events
      <3> QED  BY <1>1, <2>3, <3>2 DEF HandleRestore, histories
    <2>4. CASE HandleSuspend(r, s)
      <3>1. HT
        BY <1>2, <2>4 DEF HandleSuspend, Stages, Events
      <3> QED  BY <2>4, <3>1 DEF HandleSuspend, PinRow, Fault, DaemonTypeOK
    <2> QED  BY <1>7, <2>1, <2>2, <2>3, <2>4 DEF Arrival
  <1>8. ASSUME NEW r \in Requests, HandlerStep(r)
        PROVE  HT /\ TT
    <2>1. ASSUME NEW at \in Stages, handler[r].at = at
          PROVE  handler[r] \in ActiveHandler
      BY <1>4, <1>6, <2>1 DEF Stages
    <2>2. CASE LoadRow(r)
      <3>1. Client(r) \in DOMAIN rows => rows[Client(r)].map \in SUBSET Chunks
        BY DEF DaemonTypeOK
      <3>2. handler[r] \in ActiveHandler /\ handler[r].event = "snapshot_restore"
        BY <2>1, <2>2 DEF LoadRow, Stage, Stages, DaemonTypeOK, StageFits
      <3>3. ASSUME Client(r) \in DOMAIN rows,
                   handler' = [handler EXCEPT ![r].at = "restore",
                                              ![r].map = rows[Client(r)].map]
            PROVE  HT
        <4> DEFINE h == [handler[r] EXCEPT !.at = "restore", !.map = rows[Client(r)].map]
        <4>1. h \in ActiveHandler /\ StageFits(h)
          BY <3>1, <3>2, <3>3 DEF ActiveHandler, Stages, StageFits
        <4>2. handler' = [handler EXCEPT ![r] = h]
          BY <3>3
        <4> HIDE DEF h
        <4> QED  BY <4>1, <4>2 DEF DaemonTypeOK
      <3> QED  BY <1>1, <1>3, <2>2, <3>3 DEF LoadRow, histories
    <2>3. CASE RestoreMap(r) \/ SuspendClose(r)
      <3>1. handler[r] \in ActiveHandler /\ Step(r, "manager")
        BY <2>1, <2>3 DEF RestoreMap, SuspendClose, Stage, Stages
      <3>2. handler[r] # NoHandler
        BY <1>6, <2>3 DEF RestoreMap, SuspendClose, Stage
      <3>3. StageFits([handler[r] EXCEPT !.at = "manager"])
        BY <3>1 DEF StageFits, ActiveHandler
      <3> QED  BY <1>1, <1>5, <2>3, <3>1, <3>2, <3>3
               DEF RestoreMap, SuspendClose, histories, Stages
    <2>4. CASE CoordinatorReturns(r) \/ DebugFileFails(r)
      <3>1. handler[r] # NoHandler /\ handler[r] \in ActiveHandler
        BY <1>4, <1>6, <2>4 DEF CoordinatorReturns, DebugFileFails, Stage
      <3>2. ASSUME Step(r, Afterwards(handler[r].event)),
                   Afterwards(handler[r].event) # "none"
            PROVE  HT
        <4> DEFINE at == Afterwards(handler[r].event)
        <4>1. at \in Stages /\ StageFits([handler[r] EXCEPT !.at = at])
          BY <3>1, <3>2 DEF Afterwards, ActiveHandler, Events, Stages, StageFits
        <4> HIDE DEF at
        <4>2. Step(r, at)
          BY <3>2 DEF at
        <4> QED  BY <1>5, <3>1, <4>1, <4>2
      <3>3. HT
        BY <1>3, <2>4, <3>2 DEF CoordinatorReturns, DebugFileFails
      <3> QED  BY <1>1, <2>4, <3>3 DEF CoordinatorReturns, DebugFileFails, histories
    <2>5. CASE ReadMap(r)
      <3>1. handler[r] \in ActiveHandler /\ handler[r].event = "turn_end"
        BY <2>1, <2>5 DEF ReadMap, Stage, Stages, DaemonTypeOK, StageFits
      <3>2. map[Client(r)] \in SUBSET Chunks
        BY <3>1 DEF DaemonTypeOK, TypeOK, ActiveHandler, Client
      <3>3. ASSUME handler' = [handler EXCEPT ![r].at = "read_turns",
                                              ![r].map = map[Client(r)]]
            PROVE  HT
        <4> DEFINE h == [handler[r] EXCEPT !.at = "read_turns", !.map = map[Client(r)]]
        <4>1. h \in ActiveHandler /\ StageFits(h)
          BY <3>1, <3>2 DEF ActiveHandler, Stages, StageFits
        <4>2. handler' = [handler EXCEPT ![r] = h]
          BY <3>3
        <4> HIDE DEF h
        <4> QED  BY <4>1, <4>2 DEF DaemonTypeOK
      <3> QED  BY <1>1, <1>3, <2>5, <3>3 DEF ReadMap, histories
    <2>6. CASE ReadTurns(r)
      <3>1. handler[r] \in ActiveHandler /\ handler[r].event = "turn_end"
        BY <2>1, <2>6 DEF ReadTurns, Stage, Stages, DaemonTypeOK, StageFits
      <3>2. turns[Client(r)] \in Nat
        BY <3>1 DEF DaemonTypeOK, TypeOK, ActiveHandler, Client
      <3>3. HT
        <4> DEFINE h == [handler[r] EXCEPT !.at = "save", !.turns = turns[Client(r)]]
        <4>1. h \in ActiveHandler /\ StageFits(h)
          BY <3>1, <3>2 DEF ActiveHandler, Stages, StageFits
        <4>2. handler' = [handler EXCEPT ![r] = h]
          BY <2>6 DEF ReadTurns
        <4> HIDE DEF h
        <4> QED  BY <4>1, <4>2 DEF DaemonTypeOK
      <3> QED  BY <1>1, <2>6, <3>3 DEF ReadTurns, histories
    <2>7. CASE SaveRow(r)
      <3>1. handler[r] \in ActiveHandler
        BY <2>1, <2>7 DEF SaveRow, Stage, Stages
      <3>2. /\ Client(r) \in Sessions /\ handler[r].map \in SUBSET Chunks
            /\ handler[r].turns \in Nat
        BY <3>1 DEF ActiveHandler, Client
      <3>3. TT
        <4>1. CASE rows' = RowsWith(Client(r), [map |-> handler[r].map,
                                                turns |-> handler[r].turns])
                     /\ UNCHANGED faults
          BY <2>7, <3>2, <4>1 DEF SaveRow, RowsWith, DaemonTypeOK
        <4> QED  BY <1>1, <2>7, <4>1 DEF SaveRow, tables
      <3> QED  BY <1>3, <2>7, <3>3 DEF SaveRow
    <2>8. CASE CheckPin(r)
      <3>1. handler[r] \in ActiveHandler /\ handler[r].event = "session_close"
        BY <2>1, <2>8 DEF CheckPin, Stage, Stages, DaemonTypeOK, StageFits
      <3>2. handler[r] # NoHandler
        BY <1>6, <2>8 DEF CheckPin, Stage
      <3>3. StageFits([handler[r] EXCEPT !.at = "remove"])
        BY <3>1 DEF StageFits, ActiveHandler
      <3> QED  BY <1>1, <1>3, <1>5, <2>8, <3>2, <3>3 DEF CheckPin, Stages
    <2>9. CASE RemoveRow(r)
      <3>1. TT
        <4>1. CASE rows' = RowsWithout(Client(r)) /\ UNCHANGED faults
          BY <2>9, <4>1 DEF RemoveRow, RowsWithout, DaemonTypeOK
        <4> QED  BY <1>1, <2>9, <4>1 DEF RemoveRow, tables
      <3> QED  BY <1>3, <2>9, <3>1 DEF RemoveRow
    <2>10. CASE PinRestored(r)
      <3>1. handler[r] \in ActiveHandler
        BY <2>1, <2>10 DEF PinRestored, Stage, Stages
      <3>2. Client(r) \in Sessions
        BY <3>1 DEF ActiveHandler, Client
      <3>3. TT
        BY <2>10, <3>2 DEF PinRestored, PinRow, Fault, DaemonTypeOK
      <3> QED  BY <1>3, <2>10, <3>3 DEF PinRestored
    <2> QED  BY <1>8, <2>2, <2>3, <2>4, <2>5, <2>6, <2>7, <2>8, <2>9, <2>10
             DEF HandlerStep
  <1>9. ASSUME UNCHANGED handler
        PROVE  HT
    BY <1>9 DEF DaemonTypeOK
  <1>10. CASE HangUp
    <2>1. HT
      BY <1>3, <1>9, <1>10 DEF HangUp
    <2> QED  BY <1>1, <1>10, <2>1 DEF HangUp, histories
  <1>11. CASE Restart
    <2>1. HT
      BY <1>11 DEF Restart, StageFits, NoHandler
    <2> QED  BY <1>1, <1>11, <2>1 DEF Restart
  <1>12. CASE UNCHANGED daemonVars
    BY <1>1, <1>9, <1>12 DEF daemonVars, tables
  <1> QED  BY <1>7, <1>8, <1>10, <1>11, <1>12 DEF DaemonNext, allVars

LEMMA DaemonInitType == DaemonInit => DaemonTypeOK
  <1> SUFFICES ASSUME DaemonInit
               PROVE  DaemonTypeOK
    OBVIOUS
  <1>1. DOMAIN rows = {}
    BY DEF DaemonInit
  <1> QED  BY <1>1, InitType DEF DaemonInit, DaemonTypeOK, StageFits, NoHandler

LEMMA DaemonTypeStep == DaemonTypeOK /\ [DaemonNext]_allVars => DaemonTypeOK'
  BY CoordinatorType, HandlerTypes DEF DaemonTypeOK

(* Every reachable state of the daemon is well typed, and a handler is in  *)
(* a stage its event has.                                                  *)
THEOREM DaemonTyped == DaemonSpec => []DaemonTypeOK
  BY DaemonInitType, DaemonTypeStep, PTL DEF DaemonSpec

-----------------------------------------------------------------------------
(* Counting.  A fork_end with a stale id ends a fork that is still         *)
(* somebody's, perhaps before it was counted: its increment then comes     *)
(* after its decrement, and a count may stay too high.  None gets too low  *)
(* by more than forks still owe.                                           *)
CountsInv == Numbering /\ RefcountCovers /\ CountsSurviveRestart

LEMMA StaleGrows == [DaemonNext]_allVars => stale \subseteq stale'
  <1>1. ASSUME NEW r \in Requests, HandlerStep(r)
        PROVE  UNCHANGED stale
    BY <1>1 DEF HandlerStep, LoadRow, RestoreMap, SuspendClose, CoordinatorReturns,
                DebugFileFails, ReadMap, ReadTurns, SaveRow, CheckPin, RemoveRow,
                PinRestored, histories
  <1>2. ASSUME NEW r \in Requests, NEW s \in Sessions, Arrival(r, s)
        PROVE  UNCHANGED stale
    BY <1>2 DEF Arrival, HandleDirect, HandleStaleForkEnd, HandleRestore,
                HandleSuspend, histories
  <1>3. HangUp => UNCHANGED stale
    BY DEF HangUp, histories
  <1>4. Restart => stale \subseteq stale'
    BY DEF Restart
  <1>5. UNCHANGED daemonVars => UNCHANGED stale
    BY DEF daemonVars
  <1> QED  BY <1>1, <1>2, <1>3, <1>4, <1>5 DEF DaemonNext, allVars

LEMMA StaleEndCounts ==
  ASSUME TypeOK, Numbering, RefcountCovers,
         NEW r \in Requests, NEW s \in Sessions, EndsStale(r, s)
  PROVE  Numbering' /\ RefcountCovers'
  <1>1. PICK id \in stale :
          /\ snapshots' = snapshots \ SelectById(s, id)
          /\ refcounts' = Adjusted(UNION {f.hashes : f \in SelectById(s, id)}, {})
          /\ Proceed(r, "session_fork_end", s,
                     Evictable(UNION {f.hashes : f \in SelectById(s, id)}), {})
          /\ UNCHANGED <<map, nextForkId, uncounted, issued>>
    BY DEF EndsStale, stateVars
  <1>2. Numbering'
    BY <1>1, ProceedNotAFork, NumberingFrame
  <1>3. RefcountCovers'
    <2>1. CASE SelectById(s, id) = {}
      <3>1. UNION {f.hashes : f \in SelectById(s, id)} = {}
        BY <2>1
      <3>2. UNCHANGED <<snapshots, refcounts>>
        BY <1>1, <2>1, <3>1 DEF Adjusted, TypeOK
      <3> QED  BY <1>1, <3>2, AccountFrame
    <2>2. CASE SelectById(s, id) # {}
      <3>1. PICK f \in snapshots : f \in SelectById(s, id)
        BY <2>2 DEF SelectById
      <3>2. SelectById(s, id) = {f}
        BY <3>1 DEF SelectById, Numbering
      <3>3. UNION {g.hashes : g \in SelectById(s, id)} = f.hashes
        <4>1. {g.hashes : g \in SelectById(s, id)} = {f.hashes}
          BY <3>2
        <4>2. UNION {f.hashes} = f.hashes
          OBVIOUS
        <4> QED  BY <4>1, <4>2
      <3> QED  BY <1>1, <3>2, <3>3, AccountEnd
    <2> QED  BY <2>1, <2>2
  <1> QED  BY <1>2, <1>3

(* A restart counts anew.                                                  *)
LEMMA RestartCounts ==
  ASSUME DaemonTypeOK, Restart
  PROVE  Numbering' /\ RefcountCovers' /\ RefcountExact'
  <1>1. /\ snapshots' = {} /\ uncounted' = {} /\ issued' = {} /\ nextForkId' = 1
        /\ \A r \in Requests : req'[r] = IdleRequest
    BY DEF Restart
  <1>2. Numbering'
    BY <1>1 DEF Numbering, HasId, At, Calling, ForkIds, IdleRequest
  <1>3. ASSUME NEW c \in Chunks
        PROVE  Covered(c)' /\ Balanced(c)'
    <2>1. ForkRefs(c)' = {} /\ Owed(c)' = {}
      BY <1>1 DEF ForkRefs, Owed
    <2>2. refcounts'[c] = Cardinality(SessionRefs(c)')
      BY DEF Restart
    <2>3. Cardinality(SessionRefs(c)') \in Nat
      <3>1. SessionRefs(c)' \subseteq Sessions
        BY DEF SessionRefs
      <3> QED  BY <3>1, SessionsAssumption, FS_Subset, FS_CardinalityType
    <2> QED  BY <2>1, <2>2, <2>3, FS_EmptySet DEF Covered, Balanced
  <1> QED  BY <1>1, <1>2, <1>3
           DEF RefcountCovers, Covered, RefcountExact, Balanced

LEMMA CountsStep == DaemonTypeOK /\ CountsInv /\ [DaemonNext]_allVars => CountsInv'
  <1> SUFFICES ASSUME DaemonTypeOK, CountsInv, [DaemonNext]_allVars
               PROVE  CountsInv'
    OBVIOUS
  <1>1. TypeOK /\ stale \subseteq stale'
    BY StaleGrows DEF DaemonTypeOK
  <1>2. CASE [DropNext]_vars
    <2>1. Numbering' /\ RefcountCovers'
      BY <1>1, <1>2, NumberingStep, CoversStep DEF CountsInv
    <2>2. stale' = {} => RefcountExact'
      <3>1. stale' = {} => RefcountExact
        BY <1>1 DEF CountsInv, CountsSurviveRestart
      <3> QED  BY <1>1, <1>2, <3>1, ExactStep DEF CountsInv
    <2> QED  BY <2>1, <2>2 DEF CountsInv, CountsSurviveRestart
  <1>3. CASE \E r \in Requests, s \in Sessions : EndsStale(r, s)
    <2>1. Numbering' /\ RefcountCovers'
      BY <1>1, <1>3, StaleEndCounts DEF CountsInv
    <2>2. stale' # {}
      BY <1>1, <1>3 DEF EndsStale
    <2> QED  BY <2>1, <2>2 DEF CountsInv, CountsSurviveRestart
  <1>4. CASE OnlyDrops
    <2>1. Numbering'
      BY <1>4, NumberingFrame DEF OnlyDrops, forkVars, CountsInv
    <2>2. RefcountCovers'
      BY <1>4, AccountFrame DEF OnlyDrops, stateVars, forkVars, CountsInv
    <2>3. drops' # 0
      BY <1>1, <1>4 DEF OnlyDrops, TypeOK
    <2> QED  BY <2>1, <2>2, <2>3
             DEF CountsInv, CountsSurviveRestart, RefcountExact
  <1>5. CASE Restart
    BY <1>5, RestartCounts DEF CountsInv, CountsSurviveRestart
  <1> QED  BY <1>2, <1>3, <1>4, <1>5, CoordinatorStep

LEMMA CountsInvAlways == DaemonSpec => []CountsInv
  <1>1. DaemonInit => CountsInv
    BY NumberingInit, AccountInit
       DEF DaemonInit, CountsInv, CountsSurviveRestart, RefcountExact, Exact, Balanced
  <1>2. DaemonTypeOK /\ CountsInv /\ [DaemonNext]_allVars => CountsInv'
    BY CountsStep
  <1> QED  BY <1>1, <1>2, DaemonTyped, PTL DEF DaemonSpec

(* Wherever the process dies, whatever comes back from the rows and        *)
(* whatever fork ids the clients kept, no chunk's count falls short of the *)
(* sessions and forks that name it by more than forks owe.                 *)
THEOREM CountsCoverInDaemon == DaemonSpec => []RefcountCovers
  <1>1. CountsInv => RefcountCovers
    BY DEF CountsInv
  <1> QED  BY <1>1, CountsInvAlways, PTL

(* As long as no client holds an id of an earlier process, counts stay     *)
(* exact across crashes and restarts.                                      *)
THEOREM CountsExactInDaemon == DaemonSpec => []CountsSurviveRestart
  <1>1. CountsInv => CountsSurviveRestart
    BY DEF CountsInv
  <1> QED  BY <1>1, CountsInvAlways, PTL

-----------------------------------------------------------------------------
(* Serial clients: a session has one handler at a time.                    *)
OneEach ==
  SerialClients => \A q, r \in Requests :
    handler[q] # NoHandler /\ handler[q].session = handler[r].session => q = r

(* A step starts a handler, moves one on, ends one, or ends them all.      *)
LEMMA HandlerMoves ==
  ASSUME DaemonTypeOK, [DaemonNext]_allVars
  PROVE  \/ \A r \in Requests : handler'[r] = NoHandler
         \/ UNCHANGED <<handler, blind>>
         \/ \E r \in Requests :
              /\ \A q \in Requests \ {r} : handler'[q] = handler[q]
              /\ \/ /\ handler'[r] = NoHandler
                    /\ blind' = blind \ {r}
                 \/ /\ handler[r] # NoHandler
                    /\ handler'[r].session = handler[r].session
                    /\ handler'[r].event = handler[r].event
                    /\ blind \subseteq blind'
                 \/ /\ handler[r] = NoHandler
                    /\ handler'[r].session \in Sessions
                    /\ SerialClients => ~Busy(handler'[r].session)
                    /\ blind' = blind \cup Blinded(r, handler'[r].session, handler'[r].event)
  <1> DEFINE Moves(r) == /\ \A q \in Requests \ {r} : handler'[q] = handler[q]
                         /\ \/ /\ handler'[r] = NoHandler
                               /\ blind' = blind \ {r}
                            \/ /\ handler[r] # NoHandler
                               /\ handler'[r].session = handler[r].session
                               /\ handler'[r].event = handler[r].event
                               /\ blind \subseteq blind'
                            \/ /\ handler[r] = NoHandler
                               /\ handler'[r].session \in Sessions
                               /\ SerialClients => ~Busy(handler'[r].session)
                               /\ blind' = blind \cup Blinded(r, handler'[r].session, handler'[r].event)
  <1>1. ASSUME NEW r \in Requests, NEW s \in Sessions, NEW event, NEW at, NEW read,
               Accept(r, s, event, at, read)
        PROVE  Moves(r)
    BY <1>1 DEF Accept, DaemonTypeOK
  <1>2. ASSUME NEW r \in Requests, Finish(r)
        PROVE  Moves(r)
    BY <1>2 DEF Finish, DaemonTypeOK
  <1>3. ASSUME NEW r \in Requests, handler[r] # NoHandler, NEW h,
               handler' = [handler EXCEPT ![r] = h], blind \subseteq blind',
               h.session = handler[r].session, h.event = handler[r].event
        PROVE  Moves(r)
    BY <1>3 DEF DaemonTypeOK
  <1>4. ASSUME NEW r \in Requests, handler[r].at # "none"
        PROVE  /\ handler[r] # NoHandler
               /\ \A at : LET h == [handler[r] EXCEPT !.at = at]
                          IN  h.session = handler[r].session /\ h.event = handler[r].event
               /\ \A at, m : LET h == [handler[r] EXCEPT !.at = at, !.map = m]
                             IN  h.session = handler[r].session /\ h.event = handler[r].event
               /\ \A at, n : LET h == [handler[r] EXCEPT !.at = at, !.turns = n]
                             IN  h.session = handler[r].session /\ h.event = handler[r].event
    <2>1. handler[r] # NoHandler
      BY <1>4 DEF NoHandler
    <2>2. handler[r] \in ActiveHandler
      BY <2>1 DEF DaemonTypeOK
    <2> QED  BY <2>1, <2>2 DEF ActiveHandler
  <1>5. ASSUME NEW r \in Requests, NEW at, Step(r, at), handler[r].at # "none",
               blind \subseteq blind'
        PROVE  Moves(r)
    <2>1. handler' = [handler EXCEPT ![r] = [handler[r] EXCEPT !.at = at]]
      BY <1>5 DEF Step
    <2> QED  BY <1>3, <1>4, <1>5, <2>1
  <1>6. ASSUME NEW r \in Requests, NEW s \in Sessions, Arrival(r, s)
        PROVE  Moves(r)
    BY <1>1, <1>6 DEF Arrival, HandleDirect, HandleStaleForkEnd, HandleRestore,
                      HandleSuspend
  <1>7. ASSUME NEW r \in Requests, HandlerStep(r)
        PROVE  Moves(r)
    <2>1. CASE LoadRow(r)
      <3>1. ASSUME handler' = [handler EXCEPT ![r].at = "restore",
                                              ![r].map = rows[Client(r)].map],
                   UNCHANGED blind
            PROVE  Moves(r)
        <4>1. handler' = [handler EXCEPT ![r] =
                            [handler[r] EXCEPT !.at = "restore",
                                               !.map = rows[Client(r)].map]]
          BY <3>1
        <4> DEFINE h == [handler[r] EXCEPT !.at = "restore",
                                           !.map = rows[Client(r)].map]
        <4>2. h.session = handler[r].session /\ h.event = handler[r].event
          BY <1>4, <2>1 DEF LoadRow, Stage
        <4>3. handler[r] # NoHandler /\ handler' = [handler EXCEPT ![r] = h]
          BY <1>4, <2>1, <4>1 DEF LoadRow, Stage
        <4> HIDE DEF h
        <4> QED  BY <1>3, <3>1, <4>2, <4>3
      <3> QED  BY <1>2, <2>1, <3>1 DEF LoadRow
    <2>2. CASE ReadMap(r)
      <3>1. ASSUME handler' = [handler EXCEPT ![r].at = "read_turns",
                                              ![r].map = map[Client(r)]],
                   UNCHANGED blind
            PROVE  Moves(r)
        <4>1. handler' = [handler EXCEPT ![r] =
                            [handler[r] EXCEPT !.at = "read_turns",
                                               !.map = map[Client(r)]]]
          BY <3>1
        <4> DEFINE h == [handler[r] EXCEPT !.at = "read_turns",
                                           !.map = map[Client(r)]]
        <4>2. h.session = handler[r].session /\ h.event = handler[r].event
          BY <1>4, <2>2 DEF ReadMap, Stage
        <4>3. handler[r] # NoHandler /\ handler' = [handler EXCEPT ![r] = h]
          BY <1>4, <2>2, <4>1 DEF ReadMap, Stage
        <4> HIDE DEF h
        <4> QED  BY <1>3, <3>1, <4>2, <4>3
      <3> QED  BY <1>2, <2>2, <3>1 DEF ReadMap
    <2>3. CASE ReadTurns(r)
      <3>1. handler' = [handler EXCEPT ![r] =
                          [handler[r] EXCEPT !.at = "save",
                                             !.turns = turns[Client(r)]]]
        BY <2>3 DEF ReadTurns
      <3>2. handler[r].at # "none"
        BY <2>3 DEF ReadTurns, Stage
      <3> DEFINE h == [handler[r] EXCEPT !.at = "save", !.turns = turns[Client(r)]]
      <3>3. /\ h.session = handler[r].session /\ h.event = handler[r].event
            /\ handler[r] # NoHandler /\ UNCHANGED blind
        BY <1>4, <2>3, <3>2 DEF ReadTurns
      <3>4. handler' = [handler EXCEPT ![r] = h]
        BY <3>1
      <3> HIDE DEF h
      <3> QED  BY <1>3, <3>3, <3>4
    <2>4. CASE SaveRow(r) \/ RemoveRow(r) \/ PinRestored(r) \/ DebugFileFails(r)
      BY <1>2, <2>4 DEF SaveRow, RemoveRow, PinRestored, DebugFileFails
    <2>5. CASE \/ RestoreMap(r) \/ SuspendClose(r) \/ CoordinatorReturns(r)
               \/ CheckPin(r)
      BY <1>2, <1>5, <2>5 DEF RestoreMap, SuspendClose, CoordinatorReturns,
                              CheckPin, Stage
    <2> QED  BY <1>7, <2>1, <2>2, <2>3, <2>4, <2>5 DEF HandlerStep
  <1>8. ASSUME HangUp
        PROVE  UNCHANGED <<handler, blind>> \/ \E r \in Requests : Moves(r)
    <2>1. UNCHANGED <<handler, blind>> \/ \E r \in Requests : Finish(r)
      BY <1>8 DEF HangUp
    <2> QED  BY <1>2, <2>1
  <1>9. Restart => \A r \in Requests : handler'[r] = NoHandler
    BY DEF Restart
  <1>10. UNCHANGED daemonVars => UNCHANGED <<handler, blind>>
    BY DEF daemonVars
  <1> HIDE DEF Moves
  <1>11. \/ \A r \in Requests : handler'[r] = NoHandler
         \/ UNCHANGED <<handler, blind>>
         \/ \E r \in Requests : Moves(r)
    BY <1>6, <1>7, <1>8, <1>9, <1>10 DEF DaemonNext, allVars
  <1> QED  BY <1>11 DEF Moves

LEMMA OneEachStep == DaemonTypeOK /\ OneEach /\ [DaemonNext]_allVars => OneEach'
  <1> SUFFICES ASSUME DaemonTypeOK, OneEach, [DaemonNext]_allVars, SerialClients
               PROVE  \A q, r \in Requests :
                        handler'[q] # NoHandler /\ handler'[q].session = handler'[r].session
                          => q = r
    BY DEF OneEach
  <1>1. \A r \in Requests : handler[r] = NoHandler \/ handler[r].session \in Sessions
    BY DEF DaemonTypeOK, ActiveHandler
  <1>2. NoHandler.session \notin Sessions
    BY SessionsAssumption DEF NoHandler
  <1>3. \A r \in Requests : handler'[r] = NoHandler \/ handler'[r].session \in Sessions
    BY HandlerTypes DEF ActiveHandler
  <1>4. CASE \A r \in Requests : handler'[r] = NoHandler
    BY <1>4
  <1>5. CASE UNCHANGED handler
    BY <1>5 DEF OneEach
  <1>6. ASSUME NEW p \in Requests,
               \A q \in Requests \ {p} : handler'[q] = handler[q],
               \/ handler'[p] = NoHandler
               \/ /\ handler[p] # NoHandler
                  /\ handler'[p].session = handler[p].session
               \/ SerialClients => ~Busy(handler'[p].session)
        PROVE  \A q, r \in Requests :
                 handler'[q] # NoHandler /\ handler'[q].session = handler'[r].session
                   => q = r
    <2>1. \A q \in Requests \ {p} :
            handler[q] # NoHandler /\ handler'[p] # NoHandler
              => handler[q].session # handler'[p].session
      BY <1>6 DEF OneEach, Busy
    <2> QED  BY <1>1, <1>2, <1>3, <1>6, <2>1 DEF OneEach
  <1> QED  BY <1>4, <1>5, <1>6, HandlerMoves

LEMMA OneEachInit == DaemonInit => OneEach
  BY DEF DaemonInit, OneEach

(* At most one handler of a session is under way.                          *)
LEMMA OneEachAlways == DaemonSpec => []OneEach
  <1>1. DaemonTypeOK /\ OneEach /\ [DaemonNext]_allVars => OneEach'
    BY OneEachStep
  <1> QED  BY <1>1, OneEachInit, DaemonTyped, PTL DEF DaemonSpec

-----------------------------------------------------------------------------
(* Pinned rows.  A close that has come to delete a row has seen that it is *)
(* not pinned, and is blind if it has failed to see it, if it has been     *)
(* pinned since, or if a restore under way may still pin it.               *)
BlindClose(r) ==
  handler[r].event = "session_close" =>
    /\ Stage(r) = "remove" /\ Client(r) \in pins => r \in blind
    /\ Doing(Client(r), "snapshot_restore") # {} => r \in blind

ClosesKnow == \A r \in Requests : BlindClose(r)

(* Only handle_snapshot_restore and handle_session_suspend pin.            *)
LEMMA PinsChange ==
  ASSUME [DaemonNext]_allVars
  PROVE  \/ UNCHANGED pins
         \/ \E r \in Requests, s \in Sessions : HandleSuspend(r, s)
         \/ \E r \in Requests : PinRestored(r)
  <1>1. ASSUME NEW r \in Requests, HandlerStep(r), ~PinRestored(r)
        PROVE  UNCHANGED pins
    BY <1>1 DEF HandlerStep, LoadRow, RestoreMap, SuspendClose, CoordinatorReturns,
                DebugFileFails, ReadMap, ReadTurns, SaveRow, CheckPin, RemoveRow,
                tables
  <1>2. ASSUME NEW r \in Requests, NEW s \in Sessions, Arrival(r, s),
               ~HandleSuspend(r, s)
        PROVE  UNCHANGED pins
    BY <1>2 DEF Arrival, HandleDirect, HandleStaleForkEnd, HandleRestore, tables
  <1>3. HangUp \/ Restart => UNCHANGED pins
    BY DEF HangUp, Restart, tables
  <1>4. UNCHANGED daemonVars => UNCHANGED pins
    BY DEF daemonVars
  <1> QED  BY <1>1, <1>2, <1>3, <1>4 DEF DaemonNext, allVars

(* Who comes to delete a row has just looked at the pins.                  *)
LEMMA RemovesAfterLooking ==
  ASSUME DaemonTypeOK, [DaemonNext]_allVars, NEW r \in Requests,
         handler'[r].at = "remove", handler[r].at # "remove"
  PROVE  CheckPin(r) /\ (Client(r) \notin pins \/ r \in blind') /\ handler'[r].session = Client(r)
  <1>1. ASSUME NEW q \in Requests, NEW s, NEW event, NEW at, NEW read,
               Accept(q, s, event, at, read), at # "remove"
        PROVE  FALSE
    BY <1>1 DEF Accept, DaemonTypeOK
  <1>2. ASSUME NEW q \in Requests, Finish(q)
        PROVE  FALSE
    BY <1>2 DEF Finish, DaemonTypeOK, NoHandler
  <1>3. ASSUME NEW q \in Requests, NEW h, handler' = [handler EXCEPT ![q] = h]
        PROVE  q = r /\ h.at = "remove"
    BY <1>3 DEF DaemonTypeOK
  <1>4. ASSUME NEW q \in Requests, handler[q].at # "none"
        PROVE  /\ handler[q] \in ActiveHandler
               /\ \A at : /\ [handler[q] EXCEPT !.at = at].at = at
                          /\ [handler[q] EXCEPT !.at = at].session = handler[q].session
    <2>1. handler[q] \in ActiveHandler
      BY <1>4 DEF DaemonTypeOK, NoHandler
    <2> QED  BY <2>1 DEF ActiveHandler
  <1>5. ASSUME NEW q \in Requests, NEW at, Step(q, at), handler[q].at # "none"
        PROVE  q = r /\ at = "remove" /\ handler'[r].session = Client(r)
    <2>1. handler' = [handler EXCEPT ![q] = [handler[q] EXCEPT !.at = at]]
      BY <1>5 DEF Step
    <2>2. q = r /\ at = "remove"
      BY <1>3, <1>4, <1>5, <2>1
    <2> QED  BY <1>4, <1>5, <2>1, <2>2 DEF DaemonTypeOK, Client
  <1>6. ASSUME NEW q \in Requests, NEW s \in Sessions, Arrival(q, s)
        PROVE  FALSE
    <2>1. CASE HandleRestore(q, s)
      <3>1. (IF map[s] # {} THEN "restore" ELSE "load") # "remove"
        OBVIOUS
      <3> QED  BY <1>1, <2>1, <3>1 DEF HandleRestore
    <2> QED  BY <1>1, <1>6, <2>1
             DEF Arrival, HandleDirect, HandleStaleForkEnd, HandleSuspend
  <1>7. ASSUME NEW q \in Requests, HandlerStep(q), ~CheckPin(q)
        PROVE  FALSE
    <2>1. CASE LoadRow(q)
      <3>1. ASSUME handler' = [handler EXCEPT ![q].at = "restore",
                                              ![q].map = rows[Client(q)].map]
            PROVE  FALSE
        <4> DEFINE h == [handler[q] EXCEPT !.at = "restore", !.map = rows[Client(q)].map]
        <4>1. h.at = "restore"
          BY <1>4, <2>1 DEF LoadRow, Stage, ActiveHandler
        <4>2. handler' = [handler EXCEPT ![q] = h]
          BY <3>1
        <4> HIDE DEF h
        <4> QED  BY <1>3, <4>1, <4>2
      <3> QED  BY <1>2, <2>1, <3>1 DEF LoadRow
    <2>2. CASE ReadMap(q)
      <3>1. ASSUME handler' = [handler EXCEPT ![q].at = "read_turns",
                                              ![q].map = map[Client(q)]]
            PROVE  FALSE
        <4> DEFINE h == [handler[q] EXCEPT !.at = "read_turns", !.map = map[Client(q)]]
        <4>1. h.at = "read_turns"
          BY <1>4, <2>2 DEF ReadMap, Stage, ActiveHandler
        <4>2. handler' = [handler EXCEPT ![q] = h]
          BY <3>1
        <4> HIDE DEF h
        <4> QED  BY <1>3, <4>1, <4>2
      <3> QED  BY <1>2, <2>2, <3>1 DEF ReadMap
    <2>3. CASE ReadTurns(q)
      <3> DEFINE h == [handler[q] EXCEPT !.at = "save", !.turns = turns[Client(q)]]
      <3>1. h.at = "save"
        BY <1>4, <2>3 DEF ReadTurns, Stage, ActiveHandler
      <3>2. handler' = [handler EXCEPT ![q] = h]
        BY <2>3 DEF ReadTurns
      <3> HIDE DEF h
      <3> QED  BY <1>3, <3>1, <3>2
    <2>4. CASE SaveRow(q) \/ RemoveRow(q) \/ PinRestored(q) \/ DebugFileFails(q)
      BY <1>2, <2>4 DEF SaveRow, RemoveRow, PinRestored, DebugFileFails
    <2>5. CASE RestoreMap(q) \/ SuspendClose(q)
      BY <1>5, <2>5 DEF RestoreMap, SuspendClose, Stage
    <2>6. CASE CoordinatorReturns(q)
      <3>1. handler[q] \in ActiveHandler
        BY <1>4, <2>6 DEF CoordinatorReturns, Stage
      <3>2. Afterwards(handler[q].event) # "remove"
        BY <3>1 DEF Afterwards, ActiveHandler, Events
      <3> QED  BY <1>2, <1>5, <2>6, <3>2 DEF CoordinatorReturns, Stage
    <2> QED  BY <1>7, <2>1, <2>2, <2>3, <2>4, <2>5, <2>6 DEF HandlerStep
  <1>8. ~HangUp
    BY <1>2 DEF HangUp
  <1>9. ~Restart
    BY DEF Restart, NoHandler
  <1>10. ~UNCHANGED daemonVars
    BY DEF daemonVars
  <1>11. PICK q \in Requests : CheckPin(q)
    BY <1>6, <1>7, <1>8, <1>9, <1>10 DEF DaemonNext, allVars
  <1> QED  BY <1>2, <1>5, <1>11 DEF CheckPin, Stage

LEMMA ClosesKnowStep ==
  DaemonTypeOK /\ ClosesKnow /\ [DaemonNext]_allVars => ClosesKnow'
  <1> SUFFICES ASSUME DaemonTypeOK, ClosesKnow, [DaemonNext]_allVars,
                      NEW r \in Requests, handler'[r].event = "session_close"
               PROVE  /\ handler'[r].at = "remove" /\ handler'[r].session \in pins' => r \in blind'
                      /\ \A q \in Requests :
                           handler'[q].session = handler'[r].session
                             /\ handler'[q].event = "snapshot_restore" => r \in blind'
    BY DEF ClosesKnow, BlindClose, Doing, Stage, Client
  <1>1. NoHandler.event \notin {"session_close", "snapshot_restore"}
    BY DEF NoHandler
  <1>2. handler[r].event = "session_close" =>
          /\ handler[r].at = "remove" /\ handler[r].session \in pins => r \in blind
          /\ \A q \in Requests :
               handler[q].session = handler[r].session
                 /\ handler[q].event = "snapshot_restore" => r \in blind
    BY DEF ClosesKnow, BlindClose, Doing, Stage, Client
  <1> DEFINE Same(q) == handler'[q].session = handler[q].session /\ handler'[q].event = handler[q].event
  <1>3. \A q \in Requests :
          /\ \A p \in Requests \ {q} : handler'[p] = handler[p]
          /\ \/ handler'[q] = NoHandler /\ blind' = blind \ {q}
             \/ Same(q) /\ blind \subseteq blind'
          => /\ Same(r) /\ (r \in blind => r \in blind')
             /\ \A p \in Requests : handler'[p].event = "snapshot_restore" => Same(p)
    BY <1>1
  <1>4. ASSUME Same(r), r \in blind => r \in blind',
               \A p \in Requests : handler'[p].event = "snapshot_restore" => Same(p)
        PROVE  \A q \in Requests :
                 handler'[q].session = handler'[r].session
                   /\ handler'[q].event = "snapshot_restore" => r \in blind'
    BY <1>2, <1>4
  <1>5. ASSUME NEW p \in Requests, handler[p] = NoHandler,
               \A q \in Requests \ {p} : handler'[q] = handler[q],
               blind' = blind \cup Blinded(p, handler'[p].session, handler'[p].event)
        PROVE  \A q \in Requests :
                 handler'[q].session = handler'[r].session
                   /\ handler'[q].event = "snapshot_restore" => r \in blind'
    <2>1. CASE p = r
      BY <1>5, <2>1 DEF Blinded, Doing, Client
    <2>2. CASE p # r
      BY <1>2, <1>5, <2>2 DEF Blinded, Doing, Client
    <2> QED  BY <2>1, <2>2
  <1>6. \A q \in Requests :
          handler'[q].session = handler'[r].session
            /\ handler'[q].event = "snapshot_restore" => r \in blind'
    <2>1. CASE \A q \in Requests : handler'[q] = NoHandler
      BY <1>1, <2>1
    <2>2. CASE UNCHANGED <<handler, blind>>
      BY <1>4, <2>2
    <2> HIDE DEF Same
    <2>3. ASSUME NEW p \in Requests,
                 \A q \in Requests \ {p} : handler'[q] = handler[q],
                 \/ handler'[p] = NoHandler /\ blind' = blind \ {p}
                 \/ Same(p) /\ blind \subseteq blind'
          PROVE  \A q \in Requests :
                   handler'[q].session = handler'[r].session
                     /\ handler'[q].event = "snapshot_restore" => r \in blind'
      BY <1>3, <1>4, <2>3
    <2> QED  BY <1>5, <2>1, <2>2, <2>3, HandlerMoves DEF Same
  <1>7. ASSUME handler'[r].at = "remove", handler'[r].session \in pins'
        PROVE  r \in blind'
    <2>1. CASE handler[r].at # "remove"
      <3>1. CheckPin(r) /\ (Client(r) \notin pins \/ r \in blind') /\ handler'[r].session = Client(r)
        BY <1>7, <2>1, RemovesAfterLooking
      <3> QED  BY <1>7, <3>1 DEF CheckPin, tables
    <2>2. CASE handler[r].at = "remove"
      <3>1. handler[r] # NoHandler /\ handler[r].event = "session_close"
        BY <2>2 DEF NoHandler, DaemonTypeOK, StageFits
      <3>2. handler'[r].session = handler[r].session /\ (r \in blind => r \in blind')
        BY <1>1, <3>1, HandlerMoves DEF NoHandler
      <3>3. ASSUME NEW q \in Requests, NEW s \in Sessions, HandleSuspend(q, s), s = handler[r].session
            PROVE  r \in blind'
        BY <3>1, <3>3 DEF HandleSuspend, Accept, Blinded, Doing, Client
      <3>4. ASSUME NEW q \in Requests, PinRestored(q), Client(q) = handler[r].session
            PROVE  r \in blind'
        <4>1. handler[q].event = "snapshot_restore" /\ q # r
          BY <3>1, <3>4 DEF PinRestored, Stage, DaemonTypeOK, StageFits
        <4>2. r \in blind /\ blind' = blind \ {q}
          BY <1>2, <3>1, <3>4, <4>1 DEF PinRestored, Finish, Client
        <4> QED  BY <4>1, <4>2
      <3>5. handler[r].session \notin pins => r \in blind'
        BY <1>7, <3>2, <3>3, <3>4, PinsChange DEF HandleSuspend, PinRestored, PinRow
      <3> QED  BY <1>2, <2>2, <3>1, <3>2, <3>5
    <2> QED  BY <2>1, <2>2
  <1> QED  BY <1>6, <1>7

(* Only a close deletes a row, its session's.                              *)
LEMMA RowsChange ==
  ASSUME [DaemonNext]_allVars
  PROVE  \/ UNCHANGED rows
         \/ \E r \in Requests : SaveRow(r) \/ RemoveRow(r)
  <1>1. ASSUME NEW r \in Requests, HandlerStep(r), ~SaveRow(r), ~RemoveRow(r)
        PROVE  UNCHANGED rows
    BY <1>1 DEF HandlerStep, LoadRow, RestoreMap, SuspendClose, CoordinatorReturns,
                DebugFileFails, ReadMap, ReadTurns, CheckPin, PinRestored, tables
  <1>2. ASSUME NEW r \in Requests, NEW s \in Sessions, Arrival(r, s)
        PROVE  UNCHANGED rows
    BY <1>2 DEF Arrival, HandleDirect, HandleStaleForkEnd, HandleRestore,
                HandleSuspend, tables
  <1>3. HangUp \/ Restart => UNCHANGED rows
    BY DEF HangUp, Restart, tables
  <1>4. UNCHANGED daemonVars => UNCHANGED rows
    BY DEF daemonVars
  <1> QED  BY <1>1, <1>2, <1>3, <1>4 DEF DaemonNext, allVars

(* A fault is never forgotten.                                             *)
LEMMA FaultsGrow ==
  ASSUME DaemonTypeOK, [DaemonNext]_allVars, faults' = 0
  PROVE  faults = 0
  <1>1. ~Fault
    BY DEF Fault, DaemonTypeOK
  <1>2. ASSUME NEW r \in Requests, HandlerStep(r)
        PROVE  UNCHANGED faults
    BY <1>1, <1>2 DEF HandlerStep, LoadRow, RestoreMap, SuspendClose,
         CoordinatorReturns, DebugFileFails, ReadMap, ReadTurns, SaveRow,
         CheckPin, RemoveRow, PinRestored, PinRow, histories
  <1>3. ASSUME NEW r \in Requests, NEW s \in Sessions, Arrival(r, s)
        PROVE  UNCHANGED faults
    BY <1>1, <1>3 DEF Arrival, HandleDirect, HandleStaleForkEnd, HandleRestore,
         HandleSuspend, PinRow, histories
  <1>4. HangUp \/ Restart \/ UNCHANGED daemonVars => UNCHANGED faults
    BY DEF HangUp, Restart, daemonVars, histories
  <1> QED  BY <1>2, <1>3, <1>4 DEF DaemonNext, allVars

(* A pinned row is deleted only by a close that could not know of the pin, *)
(* however the clients' events overlap.                                    *)
THEOREM PinnedStay == DaemonSpec => PinnedRowsStay
  <1> DEFINE Stay == \A s \in pins : s \in DOMAIN rows \ DOMAIN rows' =>
                       \E r \in blind : Client(r) = s /\ handler[r].event = "session_close"
  <1>1. DaemonInit => ClosesKnow
    BY DEF DaemonInit, ClosesKnow, BlindClose, NoHandler
  <1>2. DaemonTypeOK /\ ClosesKnow /\ [DaemonNext]_allVars => ClosesKnow'
    BY ClosesKnowStep
  <1>3. DaemonTypeOK /\ ClosesKnow /\ [DaemonNext]_allVars => [Stay]_allVars
    <2> SUFFICES ASSUME DaemonTypeOK, ClosesKnow, [DaemonNext]_allVars,
                        NEW s \in pins, s \in DOMAIN rows, s \notin DOMAIN rows'
                 PROVE  \E r \in blind : Client(r) = s /\ handler[r].event = "session_close"
      OBVIOUS
    <2>1. ASSUME NEW r \in Requests, SaveRow(r)
          PROVE  FALSE
      BY <2>1 DEF SaveRow, RowsWith
    <2>2. PICK r \in Requests : RemoveRow(r)
      BY <2>1, RowsChange
    <2>3. Client(r) = s /\ Stage(r) = "remove" /\ handler[r].event = "session_close"
      BY <2>2 DEF RemoveRow, RowsWithout, Stage, DaemonTypeOK, StageFits
    <2> QED  BY <2>3 DEF ClosesKnow, BlindClose
  <1> QED  BY <1>1, <1>2, <1>3, DaemonTyped, PTL DEF DaemonSpec, PinnedRowsStay

(* So a client that waits for its answers never loses a pinned row, unless *)
(* looking at the pins fails.                                              *)
THEOREM SerialPinnedStay ==
  ASSUME SerialClients
  PROVE  DaemonSpec => [][faults = 0 => \A s \in pins : s \in DOMAIN rows => s \in DOMAIN rows']_allVars
  <1> DEFINE Sighted == faults = 0 => blind = {}
             Stay == \A s \in pins : s \in DOMAIN rows \ DOMAIN rows' =>
                       \E r \in blind : Client(r) = s /\ handler[r].event = "session_close"
             Kept == faults = 0 => \A s \in pins : s \in DOMAIN rows => s \in DOMAIN rows'
  <1>1. DaemonInit => Sighted
    BY DEF DaemonInit
  <1>2. DaemonTypeOK /\ Sighted /\ [DaemonNext]_allVars => Sighted'
    <2> SUFFICES ASSUME DaemonTypeOK, Sighted, [DaemonNext]_allVars, faults' = 0
                 PROVE  blind' = {}
      OBVIOUS
    <2>1. faults = 0 /\ blind = {}
      BY FaultsGrow
    <2>2. ASSUME NEW r \in Requests, NEW s \in Sessions, NEW event, NEW at, NEW read,
                 Accept(r, s, event, at, read)
          PROVE  blind' = {}
      BY <2>1, <2>2 DEF Accept, Blinded, Doing, Busy, Client
    <2>3. ASSUME NEW r \in Requests, NEW s \in Sessions, Arrival(r, s)
          PROVE  blind' = {}
      BY <2>2, <2>3 DEF Arrival, HandleDirect, HandleStaleForkEnd, HandleRestore, HandleSuspend
    <2>4. ASSUME NEW r \in Requests, HandlerStep(r)
          PROVE  blind' = {}
      BY <2>1, <2>4 DEF HandlerStep, LoadRow, RestoreMap, SuspendClose, CoordinatorReturns,
                        DebugFileFails, ReadMap, ReadTurns, SaveRow, CheckPin, RemoveRow,
                        PinRestored, Finish, Fault
    <2>5. HangUp \/ Restart \/ UNCHANGED daemonVars => blind' = {}
      BY <2>1 DEF HangUp, Restart, daemonVars, Finish
    <2> QED  BY <2>3, <2>4, <2>5 DEF DaemonNext, allVars
  <1>3. Sighted /\ [Stay]_allVars => [Kept]_allVars
    OBVIOUS
  <1>4. DaemonSpec => [][Stay]_allVars
    BY PinnedStay DEF PinnedRowsStay
  <1> QED  BY <1>1, <1>2, <1>3, <1>4, DaemonTyped, PTL DEF DaemonSpec

-----------------------------------------------------------------------------
(* The store and the memory.                                               *)

(* What a restart would bring back is what is there now.                   *)
Settled(s) ==
  /\ s \in open => s \in DOMAIN rows /\ rows[s].map = map[s]
  /\ s \in DOMAIN rows \ open => s \in pins

(* What a handler under way relies on until it has made its row right: a   *)
(* turn_end has its session, which keeps the map it has read; a close has  *)
(* no session left; a suspend has its pin; a restore has the row it read.  *)
Kept(h) ==
  /\ h.event = "turn_end" =>
       /\ h.session \in open
       /\ h.at \in {"read_turns", "save"} => h.map = map[h.session]
  /\ h.event = "session_close" => h.session \notin open
  /\ h.event = "session_suspend" => h.session \in pins
  /\ h.event \notin {"turn_end", "session_close"} => Settled(h.session)
  /\ h.at = "restore" =>
       h.session \in DOMAIN rows /\ rows[h.session].map = h.map

Known ==
  /\ \A s \in Sessions : ~Busy(s) => Settled(s)
  /\ \A r \in Requests : handler[r] # NoHandler => Kept(handler[r])

StoreInv == SerialClients /\ drops = 0 /\ faults = 0 => Known

(* A step that leaves a session's memory, row and pin alone.               *)
Untouched(t) ==
  /\ t \in open' <=> t \in open
  /\ map'[t] = map[t]
  /\ t \in DOMAIN rows' <=> t \in DOMAIN rows
  /\ t \in DOMAIN rows => rows'[t] = rows[t]
  /\ t \in pins => t \in pins'

(* One handler moves, for its own session: what it does to it is all that  *)
(* has to be shown.                                                        *)
LEMMA OneMoves ==
  ASSUME DaemonTypeOK, OneEach, SerialClients, Known,
         NEW r \in Requests, NEW s \in Sessions,
         \A q \in Requests \ {r} : handler'[q] = handler[q],
         \A t \in Sessions \ {s} : Untouched(t),
         (handler[r] = NoHandler /\ ~Busy(s)) \/ handler[r].session = s,
         \/ handler'[r] = NoHandler /\ Settled(s)'
         \/ handler'[r].session = s /\ Kept(handler[r])'
  PROVE  Known'
  <1>1. /\ NoHandler.session \notin Sessions
        /\ \A q \in Requests : handler[q] # NoHandler => handler[q].session \in Sessions
    BY SessionsAssumption DEF NoHandler, DaemonTypeOK, ActiveHandler
  <1>2. \A q \in Requests \ {r} : handler[q] # NoHandler => handler[q].session # s
    BY <1>1 DEF OneEach, Busy
  <1>3. ASSUME NEW q \in Requests \ {r}, handler'[q] # NoHandler
        PROVE  Kept(handler[q])'
    <2>1. handler'[q] = handler[q] /\ Kept(handler[q]) /\ Untouched(handler[q].session)
      BY <1>1, <1>2, <1>3 DEF Known
    <2> QED  BY <2>1 DEF Kept, Settled, Untouched
  <1>4. ASSUME NEW t \in Sessions, ~Busy(t)'
        PROVE  Settled(t)'
    <2>1. CASE t = s
      <3>1. handler'[r].session # s
        BY <1>4, <2>1 DEF Busy
      <3> QED  BY <2>1, <3>1
    <2>2. CASE t # s
      <3>1. ~Busy(t)
        BY <1>1, <1>4, <2>2 DEF Busy
      <3>2. Settled(t) /\ Untouched(t)
        BY <2>2, <3>1 DEF Known
      <3> QED  BY <3>2 DEF Settled, Untouched
    <2> QED  BY <2>1, <2>2
  <1> QED  BY <1>3, <1>4 DEF Known

(* The handler of r has begun.                                             *)
LEMMA Accepted ==
  ASSUME DaemonTypeOK, NEW r \in Requests, NEW s \in Sessions, NEW event, NEW at,
         NEW read, Accept(r, s, event, at, read)
  PROVE  /\ \A q \in Requests \ {r} : handler'[q] = handler[q]
         /\ handler[r] = NoHandler
         /\ SerialClients => ~Busy(s)
         /\ handler'[r].at = at /\ handler'[r].event = event
         /\ handler'[r].session = s /\ handler'[r].map = read
  BY DEF Accept, DaemonTypeOK

LEMMA StoreArrival ==
  ASSUME DaemonTypeOK, OneEach, SerialClients, Known, faults' = 0, faults = 0,
         NEW r \in Requests, NEW s \in Sessions, Arrival(r, s)
  PROVE  Known'
  <1>0. ~Busy(s) => Settled(s)
    BY DEF Known
  <1>1. ASSUME NEW event \in Events \ {"turn_end", "session_close", "session_suspend"},
               Accept(r, s, event, "manager", {}), UNCHANGED <<open, map, tables>>
        PROVE  Known'
    <2>1. \A t \in Sessions : Untouched(t)
      BY <1>1 DEF Untouched, tables
    <2>2. Settled(s)'
      BY <1>0, <1>1, <2>1, Accepted DEF Settled, Untouched
    <2>3. handler'[r].session = s /\ Kept(handler[r])'
      BY <1>1, <2>2, Accepted DEF Kept
    <2> QED  BY <1>1, <2>1, <2>3, Accepted, OneMoves
  <1>2. CASE TurnStart(r, s) /\ Accept(r, s, "turn_start", "manager", {})
               /\ UNCHANGED tables
    BY <1>1, <1>2 DEF TurnStart, stateVars, Events
  <1>3. ASSUME Accept(r, s, "turn_end", "manager", {}), UNCHANGED tables,
               open' = open \cup {s}, \A t \in Sessions \ {s} : map'[t] = map[t]
        PROVE  Known'
    <2>1. \A t \in Sessions \ {s} : Untouched(t)
      BY <1>3 DEF Untouched, tables
    <2>2. handler'[r].session = s /\ Kept(handler[r])'
      BY <1>3, Accepted DEF Kept
    <2> QED  BY <1>3, <2>1, <2>2, Accepted, OneMoves
  <1>4. CASE TurnEndNoKv(r, s) /\ Accept(r, s, "turn_end", "manager", {})
               /\ UNCHANGED tables
    BY <1>3, <1>4 DEF TurnEndNoKv
  <1>5. ASSUME NEW new \in SUBSET Chunks, TurnEnd(r, s, new),
               Accept(r, s, "turn_end", "manager", {}), UNCHANGED tables
        PROVE  Known'
    <2>1. \A t \in Sessions \ {s} : map'[t] = map[t]
      BY <1>5 DEF TurnEnd, DaemonTypeOK, TypeOK
    <2> QED  BY <1>3, <1>5, <2>1 DEF TurnEnd
  <1>6. CASE OnSessionClose(r, s) /\ Accept(r, s, "session_close", "manager", {})
               /\ UNCHANGED tables
    <2>1. \A t \in Sessions \ {s} : Untouched(t)
      BY <1>6 DEF OnSessionClose, Untouched, tables, DaemonTypeOK, TypeOK
    <2>2. handler'[r].session = s /\ Kept(handler[r])'
      BY <1>6, Accepted DEF Kept, OnSessionClose
    <2> QED  BY <1>6, <2>1, <2>2, Accepted, OneMoves
  <1>7. CASE ForkRead(r, s) /\ Accept(r, s, "session_fork", "manager", {})
               /\ UNCHANGED tables
    BY <1>1, <1>7 DEF ForkRead, stateVars, Events
  <1>8. CASE ForkEnd(r, s) /\ Accept(r, s, "session_fork_end", "manager", {})
               /\ UNCHANGED tables
    BY <1>1, <1>8 DEF ForkEnd, stateVars, Events
  <1>9. CASE HandleStaleForkEnd(r, s)
    BY <1>1, <1>9 DEF HandleStaleForkEnd, stateVars, Events
  <1>10. CASE HandleRestore(r, s)
    <2>1. /\ Accept(r, s, "snapshot_restore",
                    IF map[s] # {} THEN "restore" ELSE "load", map[s])
          /\ UNCHANGED <<open, map, tables>>
      BY <1>10 DEF HandleRestore, vars
    <2>2. \A t \in Sessions : Untouched(t)
      BY <2>1 DEF Untouched, tables
    <2>3. Settled(s) /\ Settled(s)'
      BY <1>0, <2>1, <2>2, Accepted DEF Settled, Untouched
    <2>4. map[s] # {} => s \in open
      BY DEF DaemonTypeOK, TypeOK
    <2>5. map[s] # {} => s \in DOMAIN rows' /\ rows'[s].map = map[s]
      BY <2>1, <2>3, <2>4 DEF Settled, tables
    <2>6. handler'[r].session = s /\ Kept(handler[r])'
      BY <2>1, <2>3, <2>5, Accepted DEF Kept
    <2> QED  BY <2>1, <2>2, <2>6, Accepted, OneMoves
  <1>11. CASE HandleSuspend(r, s)
    <2>1. /\ Accept(r, s, "session_suspend", "suspend", {})
          /\ UNCHANGED <<open, map, rows>> /\ pins' = pins \cup {s}
      BY <1>11 DEF HandleSuspend, PinRow, Fault, vars
    <2>2. \A t \in Sessions : Untouched(t)
      BY <2>1 DEF Untouched
    <2>3. Settled(s)'
      BY <1>0, <2>1, <2>2, Accepted DEF Settled, Untouched
    <2>4. handler'[r].session = s /\ Kept(handler[r])'
      BY <2>1, <2>3, Accepted DEF Kept
    <2> QED  BY <2>1, <2>2, <2>4, Accepted, OneMoves
  <1> QED  BY <1>2, <1>4, <1>5, <1>6, <1>7, <1>8, <1>9, <1>10, <1>11
           DEF Arrival, HandleDirect

(* A handler moves on, or is done.                                         *)
LEMMA SteppedOn ==
  ASSUME DaemonTypeOK, NEW r \in Requests, handler[r].at # "none"
  PROVE  /\ Client(r) = handler[r].session /\ Client(r) \in Sessions
         /\ handler[r] # NoHandler /\ handler[r] \in ActiveHandler
         /\ StageFits(handler[r])
         /\ \A at : Step(r, at) =>
              /\ \A q \in Requests \ {r} : handler'[q] = handler[q]
              /\ handler'[r].at = at /\ handler'[r].event = handler[r].event
              /\ handler'[r].session = Client(r) /\ handler'[r].map = handler[r].map
         /\ Finish(r) =>
              /\ \A q \in Requests \ {r} : handler'[q] = handler[q]
              /\ handler'[r] = NoHandler
  <1>1. handler[r] # NoHandler /\ handler[r] \in ActiveHandler
    BY DEF NoHandler, DaemonTypeOK
  <1>2. \A at : LET h == [handler[r] EXCEPT !.at = at]
                IN  /\ h.at = at /\ h.event = handler[r].event
                    /\ h.session = handler[r].session /\ h.map = handler[r].map
    BY <1>1 DEF ActiveHandler
  <1>3. \A at : Step(r, at) =>
          /\ \A q \in Requests \ {r} : handler'[q] = handler[q]
          /\ handler'[r] = [handler[r] EXCEPT !.at = at]
    BY DEF Step, DaemonTypeOK
  <1>4. Finish(r) =>
          /\ \A q \in Requests \ {r} : handler'[q] = handler[q]
          /\ handler'[r] = NoHandler
    BY DEF Finish, DaemonTypeOK
  <1> QED  BY <1>1, <1>2, <1>3, <1>4 DEF Client, ActiveHandler, DaemonTypeOK

LEMMA StoreHandler ==
  ASSUME DaemonTypeOK, OneEach, SerialClients, Known, faults' = 0, faults = 0,
         NEW r \in Requests, HandlerStep(r), NEW s, s = handler[r].session
  PROVE  Known'
  <1> DEFINE h == handler[r]
  <1>1. ASSUME h.at # "none"
        PROVE  /\ s \in Sessions /\ s = Client(r) /\ h # NoHandler
               /\ Kept(h) /\ StageFits(h) /\ h \in ActiveHandler
    BY <1>1, SteppedOn DEF Known
  <1>2. ~Fault
    BY DEF Fault
  <1>3. ASSUME h.at # "none", Finish(r), Settled(s)',
               \A t \in Sessions \ {s} : Untouched(t)
        PROVE  Known'
    BY <1>1, <1>3, SteppedOn, OneMoves
  <1>4. ASSUME h.at # "none", NEW at, Step(r, at), Kept(handler[r])',
               \A t \in Sessions \ {s} : Untouched(t)
        PROVE  Known'
    BY <1>1, <1>4, SteppedOn, OneMoves
  <1>5. ASSUME UNCHANGED <<open, map, rows>>, pins \subseteq pins'
        PROVE  \A t \in Sessions : Untouched(t) /\ (Settled(t) => Settled(t)')
    BY <1>5 DEF Untouched, Settled
  <1>6. CASE LoadRow(r)
    <2>1. /\ h.at = "load" /\ h.event = "snapshot_restore" /\ Settled(s)
          /\ s \in Sessions /\ h # NoHandler /\ h \in ActiveHandler /\ Client(r) = s
      BY <1>1, <1>6 DEF LoadRow, Stage, StageFits, Kept
    <2>2. \A t \in Sessions : Untouched(t) /\ (Settled(t) => Settled(t)')
      BY <1>5, <1>6 DEF LoadRow, vars, tables
    <2>3. ASSUME s \in DOMAIN rows,
                 handler' = [handler EXCEPT ![r].at = "restore",
                                            ![r].map = rows[Client(r)].map]
          PROVE  Known'
      <3>1. /\ \A q \in Requests \ {r} : handler'[q] = handler[q]
            /\ handler'[r] = [h EXCEPT !.at = "restore", !.map = rows[s].map]
        BY <2>1, <2>3 DEF DaemonTypeOK
      <3>2. /\ handler'[r].at = "restore" /\ handler'[r].event = "snapshot_restore"
            /\ handler'[r].session = s /\ handler'[r].map = rows[s].map
        BY <2>1, <3>1 DEF ActiveHandler
      <3>3. Kept(handler[r])'
        BY <1>6, <2>1, <2>2, <2>3, <3>2 DEF Kept, LoadRow, tables
      <3> QED  BY <2>1, <2>2, <3>1, <3>2, <3>3, OneMoves
    <2> QED  BY <1>3, <1>6, <2>1, <2>2, <2>3 DEF LoadRow
  <1>7. CASE RestoreMap(r)
    <2>1. /\ h.at = "restore" /\ h.event = "snapshot_restore"
          /\ s \in DOMAIN rows /\ rows[s].map = h.map
          /\ s \in Sessions /\ Client(r) = s
      BY <1>1, <1>7 DEF RestoreMap, Stage, StageFits, Kept
    <2>2. /\ open' = open \cup {s} /\ map' = [map EXCEPT ![s] = h.map]
          /\ UNCHANGED <<rows, pins>>
      BY <1>7, <2>1 DEF RestoreMap, OnSnapshotRestore, tables
    <2>3. map'[s] = h.map /\ \A t \in Sessions \ {s} : Untouched(t)
      BY <2>1, <2>2 DEF DaemonTypeOK, TypeOK, Untouched
    <2>4. Settled(s)'
      BY <2>1, <2>2, <2>3 DEF Settled
    <2>5. Step(r, "manager")
      BY <1>7 DEF RestoreMap
    <2>6. /\ handler'[r].at = "manager" /\ handler'[r].event = "snapshot_restore"
          /\ handler'[r].session = s
      BY <2>1, <2>5, SteppedOn
    <2>7. Kept(handler[r])'
      BY <2>4, <2>6 DEF Kept
    <2> QED  BY <1>4, <2>1, <2>3, <2>5, <2>7
  <1>8. CASE SuspendClose(r)
    <2>1. /\ h.at = "suspend" /\ h.event = "session_suspend"
          /\ s \in pins /\ s \in Sessions /\ Client(r) = s
      BY <1>1, <1>8 DEF SuspendClose, Stage, StageFits, Kept
    <2>2. /\ open' = open \ {s} /\ map' = [map EXCEPT ![s] = {}]
          /\ UNCHANGED <<rows, pins>>
      BY <1>8, <2>1 DEF SuspendClose, OnSessionClose, tables
    <2>3. \A t \in Sessions \ {s} : Untouched(t)
      BY <2>1, <2>2 DEF DaemonTypeOK, TypeOK, Untouched
    <2>4. Settled(s)'
      BY <2>1, <2>2 DEF Settled
    <2>5. Step(r, "manager")
      BY <1>8 DEF SuspendClose
    <2>6. /\ handler'[r].at = "manager" /\ handler'[r].event = "session_suspend"
          /\ handler'[r].session = s
      BY <2>1, <2>5, SteppedOn
    <2>7. Kept(handler[r])'
      BY <2>1, <2>2, <2>4, <2>6 DEF Kept
    <2> QED  BY <1>4, <2>1, <2>3, <2>5, <2>7
  <1>9. CASE CoordinatorReturns(r)
    <2>1. h.at = "manager" /\ s \in Sessions /\ Kept(h) /\ h \in ActiveHandler
      BY <1>1, <1>9 DEF CoordinatorReturns, Stage
    <2>2. UNCHANGED <<open, map, rows, pins>>
      BY <1>9 DEF CoordinatorReturns, Return, stateVars, tables
    <2>3. \A t \in Sessions : Untouched(t) /\ (Settled(t) => Settled(t)')
      BY <1>5, <2>2
    <2>4. CASE Afterwards(h.event) = "none"
      <3>1. h.event \notin {"turn_end", "session_close"}
        BY <2>1, <2>4 DEF Afterwards, ActiveHandler, Events
      <3>2. Settled(s)' /\ Finish(r)
        BY <1>9, <2>1, <2>3, <2>4, <3>1 DEF Kept, CoordinatorReturns
      <3> QED  BY <1>3, <2>1, <2>3, <3>2
    <2>5. CASE Afterwards(h.event) # "none"
      <3> DEFINE at == Afterwards(h.event)
      <3>1. Step(r, at)
        BY <1>9, <2>5 DEF CoordinatorReturns
      <3>2. at \notin {"read_turns", "save", "restore"}
        BY <2>1 DEF Afterwards, ActiveHandler, Events
      <3> HIDE DEF at
      <3>3. handler'[r].at = at /\ handler'[r].event = h.event /\ handler'[r].session = s
        BY <2>1, <3>1, SteppedOn
      <3>4. Kept(handler[r])'
        BY <2>1, <2>2, <2>3, <3>2, <3>3 DEF Kept
      <3> QED  BY <1>4, <2>1, <2>3, <3>1, <3>4
    <2> QED  BY <2>4, <2>5
  <1>10. ~DebugFileFails(r)
    BY <1>2 DEF DebugFileFails
  <1>11. CASE ReadMap(r)
    <2>1. /\ h.at = "read_map" /\ h.event = "turn_end" /\ s \in open
          /\ s \in Sessions /\ h # NoHandler /\ h \in ActiveHandler /\ Client(r) = s
      BY <1>1, <1>11 DEF ReadMap, Stage, StageFits, Kept
    <2>2. UNCHANGED <<open, map>> /\ \A t \in Sessions : Untouched(t)
      BY <1>5, <1>11 DEF ReadMap, vars, tables
    <2>3. /\ \A q \in Requests \ {r} : handler'[q] = handler[q]
          /\ handler'[r] = [h EXCEPT !.at = "read_turns", !.map = map[s]]
      BY <1>11, <2>1 DEF ReadMap, DaemonTypeOK
    <2>4. /\ handler'[r].at = "read_turns" /\ handler'[r].event = "turn_end"
          /\ handler'[r].session = s /\ handler'[r].map = map[s]
      BY <2>1, <2>3 DEF ActiveHandler
    <2>5. Kept(handler[r])'
      BY <2>1, <2>2, <2>4 DEF Kept
    <2> QED  BY <2>1, <2>2, <2>3, <2>4, <2>5, OneMoves
  <1>12. CASE ReadTurns(r)
    <2>1. /\ h.at = "read_turns" /\ h.event = "turn_end"
          /\ s \in open /\ h.map = map[s]
          /\ s \in Sessions /\ h # NoHandler /\ h \in ActiveHandler
      BY <1>1, <1>12 DEF ReadTurns, Stage, StageFits, Kept
    <2>2. UNCHANGED <<open, map>> /\ \A t \in Sessions : Untouched(t)
      BY <1>5, <1>12 DEF ReadTurns, vars, tables
    <2>3. /\ \A q \in Requests \ {r} : handler'[q] = handler[q]
          /\ handler'[r] = [h EXCEPT !.at = "save", !.turns = turns[Client(r)]]
      BY <1>12, <2>1 DEF ReadTurns, DaemonTypeOK
    <2>4. /\ handler'[r].at = "save" /\ handler'[r].event = "turn_end"
          /\ handler'[r].session = s /\ handler'[r].map = h.map
      BY <2>1, <2>3 DEF ActiveHandler
    <2>5. Kept(handler[r])'
      BY <2>1, <2>2, <2>4 DEF Kept
    <2> QED  BY <2>1, <2>2, <2>3, <2>4, <2>5, OneMoves
  <1>13. CASE SaveRow(r)
    <2>1. /\ h.at = "save" /\ h.event = "turn_end" /\ s \in open /\ h.map = map[s]
          /\ s \in Sessions /\ Client(r) = s
      BY <1>1, <1>13 DEF SaveRow, Stage, StageFits, Kept
    <2>2. /\ rows' = RowsWith(s, [map |-> h.map, turns |-> h.turns])
          /\ UNCHANGED <<open, map, pins>>
      BY <1>2, <1>13, <2>1 DEF SaveRow, vars
    <2>3. s \in DOMAIN rows' /\ rows'[s].map = map[s]
      BY <2>1, <2>2 DEF RowsWith
    <2>4. \A t \in Sessions \ {s} : Untouched(t)
      BY <2>2 DEF RowsWith, Untouched
    <2>5. Settled(s)'
      BY <2>1, <2>2, <2>3 DEF Settled
    <2> QED  BY <1>3, <1>13, <2>1, <2>4, <2>5 DEF SaveRow
  <1>14. CASE CheckPin(r)
    <2>1. /\ h.at = "check_pin" /\ h.event = "session_close" /\ s \notin open
          /\ s \in Sessions /\ Client(r) = s
      BY <1>1, <1>14 DEF CheckPin, Stage, StageFits, Kept
    <2>2. UNCHANGED <<open, pins, rows>> /\ \A t \in Sessions : Untouched(t)
      BY <1>5, <1>14 DEF CheckPin, vars, tables
    <2>0. ~Fault
      BY DEF Fault
    <2>3. CASE s \in pins
      <3>1. Settled(s)' /\ Finish(r)
        <4>1. Finish(r)
          BY <1>14, <2>0, <2>1, <2>3 DEF CheckPin
        <4>2. Settled(s)'
          BY <2>1, <2>2, <2>3 DEF Settled
        <4> QED  BY <4>1, <4>2
      <3> QED  BY <1>3, <2>1, <2>2, <3>1
    <2>4. CASE s \notin pins
      <3>1. Step(r, "remove")
        BY <1>14, <2>0, <2>1, <2>4 DEF CheckPin
      <3>2. /\ handler'[r].at = "remove" /\ handler'[r].event = "session_close"
            /\ handler'[r].session = s
        BY <2>1, <3>1, SteppedOn
      <3>3. Kept(handler[r])'
        BY <2>1, <2>2, <3>2 DEF Kept
      <3> QED  BY <1>4, <2>1, <2>2, <3>1, <3>3
    <2> QED  BY <2>3, <2>4
  <1>15. CASE RemoveRow(r)
    <2>1. /\ h.at = "remove" /\ h.event = "session_close" /\ s \notin open
          /\ s \in Sessions /\ Client(r) = s
      BY <1>1, <1>15 DEF RemoveRow, Stage, StageFits, Kept
    <2>2. rows' = RowsWithout(s) /\ UNCHANGED <<open, map, pins>>
      BY <1>2, <1>15, <2>1 DEF RemoveRow, vars
    <2>3. \A t \in Sessions \ {s} : Untouched(t)
      BY <2>2 DEF RowsWithout, Untouched
    <2>4. Settled(s)'
      BY <2>1, <2>2 DEF RowsWithout, Settled
    <2> QED  BY <1>3, <1>15, <2>1, <2>3, <2>4 DEF RemoveRow
  <1>16. CASE PinRestored(r)
    <2>1. h.at = "pin" /\ h.event = "snapshot_restore" /\ Settled(s) /\ s \in Sessions
      BY <1>1, <1>16 DEF PinRestored, Stage, StageFits, Kept
    <2>2. \A t \in Sessions : Untouched(t) /\ (Settled(t) => Settled(t)')
      BY <1>5, <1>16 DEF PinRestored, PinRow, vars
    <2> QED  BY <1>3, <1>16, <2>1, <2>2 DEF PinRestored
  <1> QED  BY <1>6, <1>7, <1>8, <1>9, <1>10, <1>11, <1>12, <1>13, <1>14, <1>15,
              <1>16 DEF HandlerStep

(* Without hang-ups and failing statements so far, there were none before. *)
LEMMA MishapsGrow ==
  ASSUME DaemonTypeOK, [DaemonNext]_allVars, drops' = 0, faults' = 0
  PROVE  drops = 0 /\ faults = 0 /\ ~HangUp
  <1>1. \A r \in Requests : ~DropFork(r) /\ ~DropCall(r)
    BY DEF DropFork, DropCall, Drop, DaemonTypeOK, TypeOK
  <1>2. ~Drop /\ \A s : ~DropClose(s) /\ ~DropForkEnd(s)
               /\ \A new : ~DropTurnEnd(s, new)
    BY DEF DropClose, DropForkEnd, DropTurnEnd, Drop, DaemonTypeOK, TypeOK
  <1>3. ~HangUp
    BY <1>1, <1>2 DEF HangUp
  <1>4. drops = 0
    <2>1. CASE [DropNext]_vars
      BY <2>1, DropsGrow DEF DaemonTypeOK
    <2>2. CASE OnlyDrops
      BY <2>2 DEF OnlyDrops, DaemonTypeOK, TypeOK
    <2> QED  BY <2>1, <2>2, CoordinatorStep DEF EndsStale, Restart
  <1> QED  BY <1>3, <1>4, FaultsGrow

LEMMA StoreStep ==
  DaemonTypeOK /\ OneEach /\ StoreInv /\ [DaemonNext]_allVars => StoreInv'
  <1> SUFFICES ASSUME DaemonTypeOK, OneEach, StoreInv, [DaemonNext]_allVars,
                      SerialClients, drops' = 0, faults' = 0
               PROVE  Known'
    BY DEF StoreInv
  <1>1. faults = 0 /\ Known /\ ~HangUp
    BY MishapsGrow DEF StoreInv
  <1>2. ASSUME UNCHANGED <<open, map, daemonVars>>
        PROVE  Known'
    BY <1>1, <1>2 DEF Known, Kept, Settled, Busy, daemonVars
  <1>3. CASE Continue /\ UNCHANGED daemonVars
    <2>1. UNCHANGED stateVars
      BY <1>3 DEF Continue, ForkStep, ForkTakeId, ForkInsert, ForkCount,
                  BackendAnswers, BackendApplies, BackendRefuses,
                  BackendTimesOut, LateApplies, LateLost
    <2> QED  BY <1>2, <1>3, <2>1 DEF stateVars
  <1>4. CASE Restart
    <2>1. /\ open' = DOMAIN rows /\ UNCHANGED rows
          /\ \A s \in DOMAIN rows : map'[s] = rows[s].map
          /\ \A r \in Requests : handler'[r] = NoHandler
      BY <1>4 DEF Restart, tables, DaemonTypeOK
    <2> QED  BY <2>1 DEF Known, Settled
  <1>5. CASE UNCHANGED allVars
    BY <1>2, <1>5 DEF allVars, vars
  <1>6. ASSUME NEW r \in Requests, HandlerStep(r)
        PROVE  Known'
    <2>1. PICK s : s = handler[r].session
      OBVIOUS
    <2> QED  BY <1>1, <1>6, <2>1, StoreHandler
  <1> QED  BY <1>1, <1>3, <1>4, <1>5, <1>6, StoreArrival DEF DaemonNext

(* With serial clients, no hang-up and no failing statement, a session at  *)
(* rest has in its row the map it has in memory, and a row without a       *)
(* session is a pinned one: a crash at such a moment loses nothing.        *)
THEOREM StoreMatches == DaemonSpec => []StoreMatchesMemory
  <1>1. DaemonInit => StoreInv
    BY DEF DaemonInit, Init, StoreInv, Known, Settled
  <1>2. DaemonTypeOK /\ OneEach /\ StoreInv /\ [DaemonNext]_allVars => StoreInv'
    BY StoreStep
  <1>3. StoreInv => StoreMatchesMemory
    BY DEF StoreInv, Known, Settled, StoreMatchesMemory
  <1> QED  BY <1>1, <1>2, <1>3, DaemonTyped, OneEachAlways, PTL DEF DaemonSpec
=============================================================================
