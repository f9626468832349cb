------------------------------ MODULE KvManager ------------------------------
(***************************************************************************)
(* The KV-cache coordinator of the ram-a-kv daemon (manager-core crate).   *)
(*                                                                         *)
(* Every session names the set of KV-cache chunks it still needs.  The     *)
(* coordinator counts, per chunk, how many sessions and how many forks of  *)
(* sessions name it, and tells the cache backend to evict a chunk when the *)
(* count falls to zero.  The state is guarded by three mutexes (sessions,  *)
(* refcounts, fork_snapshots); the backend is always called after they     *)
(* have been released.                                                     *)
(*                                                                         *)
(* One step of this module is one critical section (a nested pair of       *)
(* sections, such as sessions then refcounts, is one step: nobody can see  *)
(* the state in between), or one answer of the backend.  Several requests  *)
(* are in flight at a time, one per element of Requests.                   *)
(*                                                                         *)
(* Chunk hashes are members of Chunks.  The order and the repetitions of a *)
(* hash list play no part in the counting (every operation goes through    *)
(* unique_hashes), so a map is the set of its hashes.                      *)
(***************************************************************************)
EXTENDS Naturals, FiniteSets

CONSTANTS
  Sessions,           \* session ids
  Chunks,             \* chunk hashes
  Requests,           \* requests that may be in flight at the same time
  NoSession,          \* the session of an idle request
  TurnStartPrefetch,  \* the config switch turn_start_prefetch
  LegacyForkEnd,      \* some client ends forks without their fork_id
  MaxForks,           \* bound: forks per run of the daemon
  MaxTurns,           \* bound: turns per session
  MaxLate,            \* bound: backend calls given up on and still under way
  MaxDrops            \* bound: requests dropped because the client hung up

ASSUME SessionsAssumption == IsFiniteSet(Sessions) /\ NoSession \notin Sessions
ASSUME SwitchAssumption == {TurnStartPrefetch, LegacyForkEnd} \subseteq BOOLEAN
ASSUME BoundAssumption == {MaxForks, MaxTurns, MaxLate, MaxDrops} \subseteq Nat

VARIABLES
  open,        \* keys of `sessions`
  map,         \* `sessions[s].map`, empty for a session that is not there
  turns,       \* `sessions[s].turn_count`, 0 for a session that is not there
  refcounts,   \* `refcounts`, 0 for a hash that has no entry
  snapshots,   \* `fork_snapshots`
  nextForkId,  \* `next_fork_id`
  req,         \* how far each request in flight has come
  resident,    \* external: the chunks the backend holds on the accelerator
  late,        \* external: calls to the backend whose caller no longer waits
  uncounted,   \* history: forks recorded in fork_snapshots and not yet counted
  stray,       \* history: chunks an unanswered or overtaken call left resident
  issued,      \* history: fork ids the clients have been given
  drops        \* history: number of requests dropped

stateVars   == <<open, map, turns>>
forkVars    == <<snapshots, nextForkId, uncounted, issued>>
backendVars == <<resident, late, stray>>
vars == <<open, map, turns, refcounts, snapshots, nextForkId, req,
          resident, late, uncounted, stray, issued, drops>>

Snapshot == [id: Nat, session: Sessions, hashes: SUBSET Chunks]

BackendCall == [kind: {"evict", "prefetch"}, hashes: SUBSET Chunks]

Operations == {"turn_start", "turn_end", "snapshot_restore", "session_close",
               "session_fork", "session_fork_end"}

IdleRequest == [pc |-> "idle", op |-> "none", session |-> NoSession,
                fork |-> 0, evict |-> {}, hashes |-> {}]

ActiveRequest == [pc: {"fork_read", "fork_id", "fork_inserted",
                       "evict", "prefetch", "done"},
                  op: Operations,
                  session: Sessions,
                  fork: Nat,
                  evict: SUBSET Chunks,
                  hashes: SUBSET Chunks]

Request == ActiveRequest \cup {IdleRequest}

-----------------------------------------------------------------------------
(* Who references a chunk.                                                 *)

SessionRefs(c) == {s \in Sessions : c \in map[s]}

ForkRefs(c) == {f \in snapshots : c \in f.hashes}

(* Increments a fork owes: its snapshot names c, its count does not yet.   *)
Owed(c) == {f \in uncounted : c \in f.hashes}

ForkIds(forks) == {f.id : f \in forks}

-----------------------------------------------------------------------------
(* Reference counting.                                                     *)

(* Mutant of Adjusted. *)
AdjustedEntryRemoved(drop, add) ==
  [c \in Chunks |-> IF c \in drop THEN 0
                    ELSE IF c \in add THEN refcounts[c] + 1 ELSE refcounts[c]]

(* decrement_refcounts over `drop`, which skips a hash without an entry,   *)
(* then one increment for each hash of `add`.                              *)
Adjusted(drop, add) ==
  [c \in Chunks |-> IF c \in drop /\ refcounts[c] > 0 THEN refcounts[c] - 1
                    ELSE IF c \in add THEN refcounts[c] + 1 ELSE refcounts[c]]

(* Mutant of Evictable. *)
EvictableTooLate(drop) == {c \in drop : refcounts[c] = 0}

(* What decrement_refcounts returns: the hashes whose count it takes to 0. *)
Evictable(drop) == {c \in drop : refcounts[c] = 1}

-----------------------------------------------------------------------------
(* Progress of a request.                                                  *)

Idle(r) == req[r].pc = "idle"

At(r, pc) == req[r].pc = pc

(* After the locks are released: evict if there is anything to evict, then *)
(* prefetch if there is anything to prefetch, then answer.                 *)
NextCall(evict, hashes) ==
  IF evict # {} THEN "evict" ELSE IF hashes # {} THEN "prefetch" ELSE "done"

Proceed(r, op, s, evict, hashes) ==
  req' = [req EXCEPT ![r] = [pc |-> NextCall(evict, hashes), op |-> op,
                             session |-> s, fork |-> 0,
                             evict |-> evict, hashes |-> hashes]]

Advance(r, pc) == req' = [req EXCEPT ![r].pc = pc]

-----------------------------------------------------------------------------
Init ==
  /\ open = {}
  /\ map = [s \in Sessions |-> {}]
  /\ turns = [s \in Sessions |-> 0]
  /\ refcounts = [c \in Chunks |-> 0]
  /\ snapshots = {}
  /\ nextForkId = 1
  /\ req = [r \in Requests |-> IdleRequest]
  /\ resident = {}
  /\ late = {}
  /\ uncounted = {}
  /\ stray = {}
  /\ issued = {}
  /\ drops = 0

(* on_turn_start: read the session's hashes under the lock, prefetch them  *)
(* after it.  Nothing to do for an unknown session or with the switch off. *)
TurnStart(r, s) ==
  /\ Idle(r)
  /\ Proceed(r, "turn_start", s, {}, IF TurnStartPrefetch THEN map[s] ELSE {})
  /\ UNCHANGED <<stateVars, refcounts, forkVars, backendVars, drops>>

(* on_turn_end without KV data: the turn is counted, the session created   *)
(* if need be, the map left alone.                                         *)
TurnEndNoKv(r, s) ==
  /\ Idle(r)
  /\ turns[s] < MaxTurns
  /\ open' = open \cup {s}
  /\ turns' = [turns EXCEPT ![s] = @ + 1]
  /\ Proceed(r, "turn_end", s, {}, {})
  /\ UNCHANGED <<map, refcounts, forkVars, backendVars, drops>>

(* on_turn_end with the hashes of the turn.  The inference engine has put  *)
(* these chunks on the accelerator before the client reports them.         *)
TurnEnd(r, s, new) ==
  LET drop == map[s] \ new
  IN  /\ Idle(r)
      /\ turns[s] < MaxTurns
      /\ open' = open \cup {s}
      /\ turns' = [turns EXCEPT ![s] = @ + 1]
      /\ map' = [map EXCEPT ![s] = new]
      /\ refcounts' = Adjusted(drop, new \ map[s])
      /\ resident' = resident \cup new
      /\ Proceed(r, "turn_end", s, Evictable(drop), {})
      /\ UNCHANGED <<late, stray, forkVars, drops>>

(* on_snapshot_restore: the same diff, turn_count kept, then a prefetch of *)
(* the whole list.                                                         *)
OnSnapshotRestore(r, s, new) ==
  LET drop == map[s] \ new
  IN  /\ Idle(r)
      /\ open' = open \cup {s}
      /\ map' = [map EXCEPT ![s] = new]
      /\ refcounts' = Adjusted(drop, new \ map[s])
      /\ Proceed(r, "snapshot_restore", s, Evictable(drop), new)
      /\ UNCHANGED <<turns, forkVars, backendVars, drops>>

(* Mutant of OnSessionClose. *)
OnSessionCloseForgetful(r, s) ==
  /\ Idle(r)
  /\ open' = open \ {s}
  /\ map' = [map EXCEPT ![s] = {}]
  /\ turns' = [turns EXCEPT ![s] = 0]
  /\ Proceed(r, "session_close", s, Evictable(map[s]), {})
  /\ UNCHANGED <<refcounts, forkVars, backendVars, drops>>

(* on_session_close: remove the session and its references.  An unknown    *)
(* session has an empty map here and nothing happens to it.                *)
OnSessionClose(r, s) ==
  /\ Idle(r)
  /\ open' = open \ {s}
  /\ map' = [map EXCEPT ![s] = {}]
  /\ turns' = [turns EXCEPT ![s] = 0]
  /\ refcounts' = Adjusted(map[s], {})
  /\ Proceed(r, "session_close", s, Evictable(map[s]), {})
  /\ UNCHANGED <<forkVars, backendVars, drops>>

-----------------------------------------------------------------------------
(* on_session_fork takes its three locks one after the other.              *)

(* Forks that have been started and have no id yet.                        *)
Unnumbered == {r \in Requests : At(r, "fork_read")}

(* Copy the parent's hashes; an unknown parent is an error.                *)
ForkRead(r, s) ==
  /\ Idle(r)
  /\ s \in open
  /\ nextForkId + Cardinality(Unnumbered) <= MaxForks
  /\ req' = [req EXCEPT ![r] = [pc |-> "fork_read", op |-> "session_fork",
                                session |-> s, fork |-> 0,
                                evict |-> {}, hashes |-> map[s]]]
  /\ UNCHANGED <<stateVars, refcounts, forkVars, backendVars, drops>>

ForkTakeId(r) ==
  /\ At(r, "fork_read")
  /\ req' = [req EXCEPT ![r].pc = "fork_id", ![r].fork = nextForkId]
  /\ nextForkId' = nextForkId + 1
  /\ UNCHANGED <<stateVars, refcounts, snapshots, uncounted, issued,
                 backendVars, drops>>

SnapshotOf(r) == [id |-> req[r].fork, session |-> req[r].session,
                  hashes |-> req[r].hashes]

ForkInsert(r) ==
  /\ At(r, "fork_id")
  /\ snapshots' = snapshots \cup {SnapshotOf(r)}
  /\ uncounted' = uncounted \cup {SnapshotOf(r)}
  /\ Advance(r, "fork_inserted")
  /\ UNCHANGED <<stateVars, refcounts, nextForkId, issued, backendVars, drops>>

(* Mutant of ForkCount. *)
ForkCountForgotten(r) ==
  /\ At(r, "fork_inserted")
  /\ uncounted' = uncounted \ {SnapshotOf(r)}
  /\ Advance(r, "done")
  /\ UNCHANGED <<stateVars, refcounts, snapshots, nextForkId, issued,
                 backendVars, drops>>

ForkCount(r) ==
  /\ At(r, "fork_inserted")
  /\ refcounts' = Adjusted({}, req[r].hashes)
  /\ uncounted' = uncounted \ {SnapshotOf(r)}
  /\ Advance(r, "done")
  /\ UNCHANGED <<stateVars, snapshots, nextForkId, issued, backendVars, drops>>

(* The snapshots a fork_end selects: by id, if the id belongs to the       *)
(* session, else the session's latest.  At most one.                       *)
SelectById(s, id) == {f \in snapshots : f.id = id /\ f.session = s}

SelectLatest(s) ==
  {f \in snapshots : /\ f.session = s
                     /\ \A g \in snapshots : g.session = s => g.id <= f.id}

(* The fork_end calls a client can make: with an id it was given, for any  *)
(* session, or without one.                                                *)
Selections(s) ==
  {SelectById(s, id) : id \in issued}
    \cup (IF LegacyForkEnd THEN {SelectLatest(s)} ELSE {})

(* on_session_fork_end: remove the selected snapshot, release its hashes;  *)
(* nothing when there is none.                                             *)
ForkEnd(r, s) ==
  \E chosen \in Selections(s) :
    LET hashes == UNION {f.hashes : f \in chosen}
    IN  /\ Idle(r)
        /\ snapshots' = snapshots \ chosen
        /\ refcounts' = Adjusted(hashes, {})
        /\ Proceed(r, "session_fork_end", s, Evictable(hashes), {})
        /\ UNCHANGED <<stateVars, nextForkId, uncounted, issued, backendVars,
                       drops>>

(* The request is answered; a fork's answer carries its fork_id.           *)
Return(r) ==
  /\ At(r, "done")
  /\ issued' = IF req[r].op = "session_fork" THEN issued \cup {req[r].fork}
               ELSE issued
  /\ req' = [req EXCEPT ![r] = IdleRequest]
  /\ UNCHANGED <<stateVars, refcounts, snapshots, nextForkId, uncounted,
                 backendVars, drops>>

-----------------------------------------------------------------------------
(* The backend.  An evict takes chunks off the accelerator, a prefetch     *)
(* puts them on it.  A call is made, then awaited, without any lock; a     *)
(* failed one is logged and never repeated.                                *)

Calling(r) == req[r].pc \in {"evict", "prefetch"}

CallOf(r) == [kind |-> req[r].pc,
              hashes |-> IF At(r, "evict") THEN req[r].evict ELSE req[r].hashes]

(* A prefetch that lands on a chunk nobody references leaves a stray.      *)
Apply(call) ==
  IF call.kind = "evict"
  THEN /\ resident' = resident \ call.hashes
       /\ stray' = stray \ call.hashes
  ELSE /\ resident' = resident \cup call.hashes
       /\ stray' = stray \cup {c \in call.hashes : refcounts[c] = 0}

GiveUp(call) ==
  stray' = IF call.kind = "evict" THEN stray \cup call.hashes ELSE stray

(* An operation prefetches after its evict, whatever became of the evict.  *)
Answered(r) ==
  Proceed(r, req[r].op, req[r].session, {},
          IF At(r, "evict") THEN req[r].hashes ELSE {})

BackendApplies(r) ==
  /\ Calling(r)
  /\ Apply(CallOf(r))
  /\ Answered(r)
  /\ UNCHANGED <<stateVars, refcounts, forkVars, late, drops>>

(* A non-2xx status, or no connection.                                     *)
BackendRefuses(r) ==
  /\ Calling(r)
  /\ GiveUp(CallOf(r))
  /\ Answered(r)
  /\ UNCHANGED <<stateVars, refcounts, forkVars, resident, late, drops>>

(* The client-side timeout: the backend may still carry the call out.      *)
BackendTimesOut(r) ==
  /\ Calling(r)
  /\ Cardinality(late) < MaxLate
  /\ late' = late \cup {CallOf(r)}
  /\ GiveUp(CallOf(r))
  /\ Answered(r)
  /\ UNCHANGED <<stateVars, refcounts, forkVars, resident, drops>>

LateApplies(call) ==
  /\ Apply(call)
  /\ late' = late \ {call}
  /\ UNCHANGED <<stateVars, refcounts, forkVars, req, drops>>

LateLost(call) ==
  /\ late' = late \ {call}
  /\ UNCHANGED <<stateVars, refcounts, forkVars, req, resident, stray, drops>>

-----------------------------------------------------------------------------
(* The HTTP server drops a handler whose client hung up, at the await it   *)
(* has reached.  Waiting for `refcounts` while holding the first lock of a *)
(* pair, a handler has made its change to the first table only.            *)

Drop == drops < MaxDrops /\ drops' = drops + 1

DropTurnEnd(s, new) ==
  /\ Drop
  /\ turns[s] < MaxTurns
  /\ open' = open \cup {s}
  /\ turns' = [turns EXCEPT ![s] = @ + 1]
  /\ resident' = resident \cup new
  /\ stray' = stray \cup new
  /\ UNCHANGED <<map, refcounts, forkVars, req, late>>

DropClose(s) ==
  /\ Drop
  /\ s \in open
  /\ open' = open \ {s}
  /\ map' = [map EXCEPT ![s] = {}]
  /\ turns' = [turns EXCEPT ![s] = 0]
  /\ UNCHANGED <<refcounts, forkVars, req, backendVars>>

DropForkEnd(s) ==
  \E chosen \in Selections(s) \ {{}} :
    /\ Drop
    /\ snapshots' = snapshots \ chosen
    /\ UNCHANGED <<stateVars, refcounts, nextForkId, uncounted, issued, req,
                   backendVars>>

DropFork(r) ==
  /\ Drop
  /\ req[r].pc \in {"fork_read", "fork_id", "fork_inserted"}
  /\ req' = [req EXCEPT ![r] = IdleRequest]
  /\ UNCHANGED <<stateVars, refcounts, forkVars, backendVars>>

DropCall(r) ==
  /\ Drop
  /\ Calling(r)
  /\ GiveUp(CallOf(r))
  /\ \/ late' = late
     \/ Cardinality(late) < MaxLate /\ late' = late \cup {CallOf(r)}
  /\ req' = [req EXCEPT ![r] = IdleRequest]
  /\ UNCHANGED <<stateVars, refcounts, forkVars, resident>>

-----------------------------------------------------------------------------
ForkStep(r) == ForkTakeId(r) \/ ForkInsert(r) \/ ForkCount(r)

BackendAnswers(r) == BackendApplies(r) \/ BackendRefuses(r) \/ BackendTimesOut(r)

(* Steps of requests under way and of the world around them.               *)
Continue ==
  \/ \E r \in Requests : ForkStep(r) \/ BackendAnswers(r)
  \/ \E call \in late : LateApplies(call) \/ LateLost(call)

ClientDrops ==
  \/ \E r \in Requests : DropFork(r) \/ DropCall(r)
  \/ \E s \in Sessions : DropClose(s) \/ DropForkEnd(s)
  \/ \E s \in Sessions, new \in SUBSET Chunks : DropTurnEnd(s, new)

(* A client's event reaches one critical section of the coordinator.       *)
Event(r, s) ==
  \/ TurnStart(r, s)
  \/ TurnEndNoKv(r, s)
  \/ \E new \in SUBSET Chunks : TurnEnd(r, s, new) \/ OnSnapshotRestore(r, s, new)
  \/ OnSessionClose(r, s)
  \/ ForkRead(r, s)
  \/ ForkEnd(r, s)

Next ==
  \/ \E r \in Requests, s \in Sessions : Event(r, s)
  \/ \E r \in Requests : Return(r)
  \/ Continue

(* A request under way is scheduled by the runtime, its mutexes are fair   *)
(* and held for bounded work, and every call to the backend is answered or *)
(* times out.  Clients owe nothing, and late calls may never land.         *)
Fairness ==
  \A r \in Requests : WF_vars(ForkStep(r)) /\ WF_vars(BackendAnswers(r))
                        /\ WF_vars(Return(r))

(* The same with clients that may hang up at any await.                    *)
DropNext == Next \/ ClientDrops

Spec == Init /\ [][Next]_vars

DropSpec == Init /\ [][DropNext]_vars

FairSpec == Spec /\ Fairness

-----------------------------------------------------------------------------
(* Every variable holds a value of its kind; a session that is not in      *)
(* memory has no chunks and no turns.                                      *)
TypeOK ==
  /\ open \subseteq Sessions
  /\ map \in [Sessions -> SUBSET Chunks]
  /\ turns \in [Sessions -> Nat]
  /\ \A s \in Sessions \ open : map[s] = {} /\ turns[s] = 0
  /\ refcounts \in [Chunks -> Nat]
  /\ snapshots \subseteq Snapshot /\ IsFiniteSet(snapshots)
  /\ nextForkId \in Nat \ {0}
  /\ req \in [Requests -> Request]
  /\ resident \subseteq Chunks
  /\ late \subseteq BackendCall
  /\ uncounted \subseteq Snapshot /\ IsFiniteSet(uncounted)
  /\ stray \subseteq Chunks
  /\ issued \subseteq Nat
  /\ drops \in Nat

(* The count of a chunk never falls short of the sessions and forks that   *)
(* name it by more than the increments that forks still owe, whatever the  *)
(* clients do and whenever they hang up: decrements are never made twice.  *)
RefcountCovers ==
  \A c \in Chunks :
    Cardinality(SessionRefs(c)) + Cardinality(ForkRefs(c))
      <= refcounts[c] + Cardinality(Owed(c))

(* When forks are ended by the id their client was given, and nobody hangs *)
(* up, the count is exact: no reference is lost and none leaks.            *)
RefcountExact ==
  ~LegacyForkEnd /\ drops = 0 =>
    /\ uncounted \subseteq snapshots
    /\ \A c \in Chunks :
         Cardinality(SessionRefs(c)) + Cardinality(ForkRefs(c))
           = refcounts[c] + Cardinality(Owed(c))

HasId(r) == req[r].op = "session_fork" /\ req[r].pc # "fork_read"

(* Fork ids tell forks apart: no id is taken twice, an id is given to a    *)
(* client only once its fork has been counted, and a snapshot waiting for  *)
(* its count is the one its request will count.                            *)
Numbering ==
  /\ \A r \in Requests :
       /\ At(r, "fork_read") \/ At(r, "fork_id") \/ At(r, "fork_inserted")
            => req[r].op = "session_fork"
       /\ Calling(r) => req[r].op # "session_fork"
       /\ HasId(r) => /\ req[r].fork < nextForkId
                      /\ req[r].fork \notin issued
       /\ HasId(r) /\ ~At(r, "fork_inserted") =>
            req[r].fork \notin ForkIds(uncounted)
       /\ At(r, "fork_id") => req[r].fork \notin ForkIds(snapshots)
       /\ At(r, "fork_inserted") => SnapshotOf(r) \in uncounted
  /\ \A q, r \in Requests :
       HasId(q) /\ HasId(r) /\ req[q].fork = req[r].fork => q = r
  /\ \A f, g \in snapshots : f.id = g.id => f = g
  /\ \A f, g \in uncounted : f.id = g.id => f = g
  /\ \A id \in issued \cup ForkIds(snapshots \cup uncounted) : id < nextForkId
  /\ issued \cap ForkIds(uncounted) = {}

Chosen(c) == \E r \in Requests : At(r, "evict") /\ c \in req[r].evict

(* This step tells r to evict.                                             *)
Chooses(r) == ~At(r, "evict") /\ At(r, "evict")'

(* The decision to evict is taken only about chunks that no session and no *)
(* counted fork names at that moment: the safety comment of the            *)
(* coordinator.  Forks still owing their increment are outside it, as are  *)
(* hang-ups and fork_ends without an id.                                   *)
EvictsUnreferenced ==
  [][~LegacyForkEnd /\ drops' = 0 =>
       \A r \in Requests : Chooses(r) =>
         \A c \in req'[r].evict : /\ SessionRefs(c)' = {}
                                  /\ ForkRefs(c)' \subseteq uncounted']_vars

(* A chunk that stays resident without a reference is about to be evicted, *)
(* or a failed, timed-out, overtaken or abandoned call accounts for it.    *)
NoSilentLeak ==
  \A c \in resident : refcounts[c] > 0 \/ Chosen(c) \/ c \in stray

(* Every chunk nobody references any more leaves the accelerator, unless   *)
(* it is referenced again or a call to the backend went wrong.             *)
ReleasedChunksLeave ==
  \A c \in Chunks :
    c \in resident /\ refcounts[c] = 0
      ~> c \notin resident \/ refcounts[c] > 0 \/ c \in stray
=============================================================================
