------------------------------- MODULE KvDaemon -------------------------------
(***************************************************************************)
(* The ram-a-kv daemon around the coordinator: what the HTTP handlers do   *)
(* before and after they call the coordinator, the SQLite session store    *)
(* (tables sessions and pins), and the crash and restart of the process.   *)
(*                                                                         *)
(* The store is guarded by a mutex of its own that is never held together  *)
(* with the coordinator's, so every statement is a step by itself, and     *)
(* what a handler has read from the coordinator may be old when it is      *)
(* written to the store.                                                   *)
(***************************************************************************)
EXTENDS KvManager

CONSTANTS
  SerialClients,  \* no client sends an event before its last one is answered
  MaxFaults,      \* bound: failing SQLite statements and debug-file writes
  MaxRestarts     \* bound: crashes of the daemon

ASSUME ClientAssumption == SerialClients \in BOOLEAN
ASSUME FaultAssumption == {MaxFaults, MaxRestarts} \subseteq Nat

VARIABLES
  rows,      \* table sessions: a function on the session ids that have a row
  pins,      \* table pins
  handler,   \* how far the handler of each request has come
  blind,     \* history: closes that cannot know of their session's pin
  stale,     \* history: fork ids given to clients before the last restart
  faults,    \* history: number of statements that failed
  restarts   \* history: number of restarts

tables      == <<rows, pins>>
histories   == <<stale, faults, restarts>>
daemonVars  == <<rows, pins, handler, blind, stale, faults, restarts>>
allVars     == <<vars, daemonVars>>

Row == [map: SUBSET Chunks, turns: Nat]

Events == {"turn_start", "turn_end", "snapshot_restore", "session_close",
           "session_suspend", "session_fork", "session_fork_end"}

NoHandler == [at |-> "none", event |-> "none", session |-> NoSession,
              map |-> {}, turns |-> 0]

RowsWith(s, row) ==
  [t \in DOMAIN rows \cup {s} |-> IF t = s THEN row ELSE rows[t]]

RowsWithout(s) == [t \in DOMAIN rows \ {s} |-> rows[t]]

Busy(s) == \E r \in Requests : handler[r].session = s

Stage(r) == handler[r].at
Client(r) == handler[r].session

-----------------------------------------------------------------------------
DaemonInit ==
  /\ Init
  /\ rows = <<>>
  /\ pins = {}
  /\ handler = [r \in Requests |-> NoHandler]
  /\ blind = {}
  /\ stale = {}
  /\ faults = 0
  /\ restarts = 0

(* A close is blind to a pin that comes while it is under way.             *)
Doing(s, event) == {q \in Requests : Client(q) = s /\ handler[q].event = event}

Blinded(r, s, event) ==
  {q \in Doing(s, "session_close") : event \in {"session_suspend", "snapshot_restore"}}
    \cup {q \in {r} : event = "session_close" /\ Doing(s, "snapshot_restore") # {}}

Accept(r, s, event, at, read) ==
  /\ handler[r] = NoHandler
  /\ SerialClients => ~Busy(s)
  /\ handler' = [handler EXCEPT ![r] = [at |-> at, event |-> event, session |-> s,
                                        map |-> read, turns |-> 0]]
  /\ blind' = blind \cup Blinded(r, s, event)

Step(r, at) == handler' = [handler EXCEPT ![r].at = at]

Finish(r) ==
  /\ handler' = [handler EXCEPT ![r] = NoHandler]
  /\ blind' = blind \ {r}

Fault == faults < MaxFaults /\ faults' = faults + 1

(* Events whose handlers go to the coordinator straight away.              *)
HandleDirect(r, s) ==
  /\ \/ TurnStart(r, s) /\ Accept(r, s, "turn_start", "manager", {})
     \/ TurnEndNoKv(r, s) /\ Accept(r, s, "turn_end", "manager", {})
     \/ /\ \E new \in SUBSET Chunks : TurnEnd(r, s, new)
        /\ Accept(r, s, "turn_end", "manager", {})
     \/ OnSessionClose(r, s) /\ Accept(r, s, "session_close", "manager", {})
     \/ ForkRead(r, s) /\ Accept(r, s, "session_fork", "manager", {})
     \/ ForkEnd(r, s) /\ Accept(r, s, "session_fork_end", "manager", {})
  /\ UNCHANGED <<tables, histories>>

(* A client ends a fork by an id it was given before the daemon restarted: *)
(* fork ids count from 1 again after a restart.                            *)
HandleStaleForkEnd(r, s) ==
  \E id \in stale :
    LET chosen == SelectById(s, id)
        hashes == UNION {f.hashes : f \in chosen}
    IN  /\ Idle(r)
        /\ Accept(r, s, "session_fork_end", "manager", {})
        /\ snapshots' = snapshots \ chosen
        /\ refcounts' = Adjusted(hashes, {})
        /\ Proceed(r, "session_fork_end", s, Evictable(hashes), {})
        /\ UNCHANGED <<stateVars, nextForkId, uncounted, issued, backendVars,
                       drops, tables, histories>>

(* snapshot_restore takes the session's map from memory if it is there and *)
(* not empty, else from its row; without either it is an error.            *)
HandleRestore(r, s) ==
  /\ Accept(r, s, "snapshot_restore",
            IF map[s] # {} THEN "restore" ELSE "load", map[s])
  /\ UNCHANGED <<vars, tables, histories>>

LoadRow(r) ==
  /\ Stage(r) = "load"
  /\ IF Client(r) \in DOMAIN rows /\ rows[Client(r)].map # {}
     THEN /\ handler' = [handler EXCEPT ![r].at = "restore",
                                        ![r].map = rows[Client(r)].map]
          /\ UNCHANGED blind
     ELSE Finish(r)
  /\ UNCHANGED <<vars, tables, histories>>

RestoreMap(r) ==
  /\ Stage(r) = "restore"
  /\ OnSnapshotRestore(r, Client(r), handler[r].map)
  /\ Step(r, "manager")
  /\ UNCHANGED <<tables, blind, histories>>

(* A pin that fails is logged and otherwise ignored.                       *)
PinRow(s) ==
  \/ pins' = pins \cup {s} /\ UNCHANGED faults
  \/ Fault /\ UNCHANGED pins

(* session_suspend pins the row, then closes the session in memory.        *)
HandleSuspend(r, s) ==
  /\ Accept(r, s, "session_suspend", "suspend", {})
  /\ PinRow(s)
  /\ UNCHANGED <<vars, rows, stale, restarts>>

SuspendClose(r) ==
  /\ Stage(r) = "suspend"
  /\ OnSessionClose(r, Client(r))
  /\ Step(r, "manager")
  /\ UNCHANGED <<tables, blind, histories>>

-----------------------------------------------------------------------------
(* What is left to do once the coordinator has answered.                   *)
Afterwards(event) ==
  CASE event = "turn_end"         -> "read_map"
    [] event = "session_close"    -> "check_pin"
    [] event = "snapshot_restore" -> "pin"
    [] OTHER                      -> "none"

CoordinatorReturns(r) ==
  /\ Stage(r) = "manager"
  /\ Return(r)
  /\ IF Afterwards(handler[r].event) = "none"
     THEN Finish(r)
     ELSE Step(r, Afterwards(handler[r].event)) /\ UNCHANGED blind
  /\ UNCHANGED <<tables, histories>>

(* on_turn_end fails when it cannot write its debug file: an error is      *)
(* answered and nothing is saved.                                          *)
DebugFileFails(r) ==
  /\ Stage(r) = "manager"
  /\ handler[r].event = "turn_end"
  /\ Fault
  /\ Return(r)
  /\ Finish(r)
  /\ UNCHANGED <<tables, stale, restarts>>

(* Saving a turn reads the map and the count under one lock each, then     *)
(* writes the row.  A session that has gone is not saved.                  *)
ReadMap(r) ==
  /\ Stage(r) = "read_map"
  /\ IF Client(r) \in open
     THEN /\ handler' = [handler EXCEPT ![r].at = "read_turns",
                                        ![r].map = map[Client(r)]]
          /\ UNCHANGED blind
     ELSE Finish(r)
  /\ UNCHANGED <<vars, tables, histories>>

ReadTurns(r) ==
  /\ Stage(r) = "read_turns"
  /\ handler' = [handler EXCEPT ![r].at = "save", ![r].turns = turns[Client(r)]]
  /\ UNCHANGED <<vars, tables, blind, histories>>

(* Mutant of SaveRow. *)
SaveRowOnce(r) ==
  /\ Stage(r) = "save"
  /\ \/ /\ Client(r) \notin DOMAIN rows
        /\ rows' = RowsWith(Client(r), [map |-> handler[r].map,
                                        turns |-> handler[r].turns])
        /\ UNCHANGED faults
     \/ Client(r) \in DOMAIN rows /\ UNCHANGED <<rows, faults>>
  /\ Finish(r)
  /\ UNCHANGED <<vars, pins, stale, restarts>>

SaveRow(r) ==
  /\ Stage(r) = "save"
  /\ \/ /\ rows' = RowsWith(Client(r), [map |-> handler[r].map,
                                        turns |-> handler[r].turns])
        /\ UNCHANGED faults
     \/ Fault /\ UNCHANGED rows
  /\ Finish(r)
  /\ UNCHANGED <<vars, pins, stale, restarts>>

(* Mutant of CheckPin. *)
CheckPinIgnored(r) ==
  /\ Stage(r) = "check_pin"
  /\ Step(r, "remove")
  /\ UNCHANGED <<vars, tables, blind, histories>>

(* A closed session loses its row unless it is pinned; a SELECT that fails *)
(* says that it is not.                                                    *)
CheckPin(r) ==
  /\ Stage(r) = "check_pin"
  /\ \/ Client(r) \in pins /\ Finish(r) /\ UNCHANGED faults
     \/ Client(r) \notin pins /\ Step(r, "remove") /\ UNCHANGED <<blind, faults>>
     \/ Fault /\ Step(r, "remove") /\ blind' = blind \cup {r}
  /\ UNCHANGED <<vars, tables, stale, restarts>>

RemoveRow(r) ==
  /\ Stage(r) = "remove"
  /\ \/ rows' = RowsWithout(Client(r)) /\ UNCHANGED faults
     \/ Fault /\ UNCHANGED rows
  /\ Finish(r)
  /\ UNCHANGED <<vars, pins, stale, restarts>>

PinRestored(r) ==
  /\ Stage(r) = "pin"
  /\ PinRow(Client(r))
  /\ Finish(r)
  /\ UNCHANGED <<vars, rows, stale, restarts>>

-----------------------------------------------------------------------------
(* A client hangs up while its handler waits: for the backend, for a lock  *)
(* of the coordinator inside an operation, or for its lock before one.     *)
HangUp ==
  /\ UNCHANGED <<tables, histories>>
  /\ \/ \E r \in Requests : (DropFork(r) \/ DropCall(r)) /\ Finish(r)
     \/ \E s \in Sessions :
          /\ SerialClients => ~Busy(s)
          /\ \/ DropClose(s)
             \/ DropForkEnd(s)
             \/ \E new \in SUBSET Chunks : DropTurnEnd(s, new)
          /\ UNCHANGED <<handler, blind>>
     \/ \E r \in Requests :
          /\ Stage(r) = "suspend" /\ DropClose(Client(r))
          /\ Finish(r)
     \/ \E r \in Requests :
          /\ Stage(r) \in {"restore", "suspend", "read_map", "read_turns"}
          /\ Drop
          /\ Finish(r)
          /\ UNCHANGED <<stateVars, refcounts, forkVars, backendVars, req>>

(* Mutant of Restart. *)
RestartKeepsCounts ==
  /\ restarts < MaxRestarts
  /\ restarts' = restarts + 1
  /\ open' = DOMAIN rows
  /\ map' = [s \in Sessions |-> IF s \in DOMAIN rows THEN rows[s].map ELSE {}]
  /\ turns' = [s \in Sessions |-> IF s \in DOMAIN rows THEN rows[s].turns ELSE 0]
  /\ refcounts' = refcounts
  /\ snapshots' = {} /\ uncounted' = {} /\ nextForkId' = 1
  /\ issued' = {} /\ stale' = stale \cup issued
  /\ req' = [r \in Requests |-> IdleRequest]
  /\ handler' = [r \in Requests |-> NoHandler]
  /\ blind' = {}
  /\ UNCHANGED <<late, resident, stray, drops, tables, faults>>

(* The process dies and starts again: every row becomes a session, the     *)
(* counts are rebuilt from the maps, forks and requests are forgotten.     *)
(* The backend goes on with the calls it has received.                     *)
Restart ==
  /\ restarts < MaxRestarts
  /\ restarts' = restarts + 1
  /\ open' = DOMAIN rows
  /\ map' = [s \in Sessions |-> IF s \in DOMAIN rows THEN rows[s].map ELSE {}]
  /\ turns' = [s \in Sessions |-> IF s \in DOMAIN rows THEN rows[s].turns ELSE 0]
  /\ refcounts' = [c \in Chunks |-> Cardinality(SessionRefs(c)')]
  /\ snapshots' = {} /\ uncounted' = {} /\ nextForkId' = 1
  /\ issued' = {} /\ stale' = stale \cup issued
  /\ req' = [r \in Requests |-> IdleRequest]
  /\ handler' = [r \in Requests |-> NoHandler]
  /\ blind' = {}
  /\ \E sent \in SUBSET {CallOf(r) : r \in {q \in Requests : Calling(q)}} :
       /\ Cardinality(late \cup sent) <= MaxLate
       /\ late' = late \cup sent
  /\ stray' = stray \cup {c \in resident : refcounts'[c] = 0}
  /\ UNCHANGED <<resident, drops, tables, faults>>

-----------------------------------------------------------------------------
HandlerStep(r) ==
  \/ LoadRow(r) \/ RestoreMap(r) \/ SuspendClose(r)
  \/ CoordinatorReturns(r) \/ DebugFileFails(r)
  \/ ReadMap(r) \/ ReadTurns(r) \/ SaveRow(r)
  \/ CheckPin(r) \/ RemoveRow(r) \/ PinRestored(r)

Arrival(r, s) ==
  \/ HandleDirect(r, s)
  \/ HandleStaleForkEnd(r, s)
  \/ HandleRestore(r, s)
  \/ HandleSuspend(r, s)

DaemonNext ==
  \/ \E r \in Requests, s \in Sessions : Arrival(r, s)
  \/ \E r \in Requests : HandlerStep(r)
  \/ Continue /\ UNCHANGED daemonVars
  \/ HangUp
  \/ Restart

DaemonSpec == DaemonInit /\ [][DaemonNext]_allVars

-----------------------------------------------------------------------------
(* Clients that wait for their answers, no hang-up and no failing          *)
(* statement: whenever nothing is under way for a session, its row is its  *)
(* map in memory, and a row without a session in memory is a pinned one.   *)
(* So what a restart brings back is what was there.                        *)
StoreMatchesMemory ==
  SerialClients /\ drops = 0 /\ faults = 0 =>
    \A s \in Sessions : ~Busy(s) =>
      /\ s \in open => s \in DOMAIN rows /\ rows[s].map = map[s]
      /\ s \in DOMAIN rows \ open => s \in pins

(* A pinned row is deleted only by a close of its session that could not   *)
(* know of the pin: its look at the pins failed, or the pin came while it  *)
(* was under way.  A suspended session keeps its row through any other     *)
(* overlap of its clients' events, through hang-ups and restarts.          *)
PinnedRowsStay ==
  [][\A s \in pins : s \in DOMAIN rows \ DOMAIN rows' =>
       \E r \in blind : Client(r) = s /\ handler[r].event = "session_close"]_allVars

(* Counts stay exact across restarts, whoever calls what and whenever the  *)
(* process dies, unless a stale fork id is used.                           *)
CountsSurviveRestart == stale = {} => RefcountExact
=============================================================================
