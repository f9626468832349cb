----------------------------- MODULE McpSessions -----------------------------
(***************************************************************************)
(* The door of memory-mcp's HTTP server: authorize_mcp, which admits, limits *)
(* and closes MCP sessions around the protocol library rmcp, and keeps the   *)
(* JSON-RPC ids of a session and the tools of a principal apart.             *)
(*                                                                          *)
(* The middleware keeps four tables, each under a mutex of its own, and      *)
(* awaits rmcp in between.  An action is what a request does between two     *)
(* awaits or two tables.  Its client may go away at any await: the future is *)
(* dropped and only its guards run.                                          *)
(*                                                                          *)
(* Authentication, permissions and the two rate limiters refuse a request    *)
(* before it has changed anything, and are left out.                         *)
(***************************************************************************)
EXTENDS Naturals, FiniteSets

CONSTANTS
  Principals,      \* who may call: a scope and an agent
  Requests,        \* HTTP requests that can be under way at the same time
  Ids,             \* JSON-RPC ids a client uses
  None,            \* no session, no principal, no id
  MaxPerPrincipal, \* max_active_sessions_per_principal
  MaxGlobal,       \* max_active_sessions_global
  MaxInFlight,     \* max_in_flight_per_principal_tool
  MaxSessions      \* bound on sessions ever created

ASSUME LimitsArePositive ==
  /\ MaxPerPrincipal \in Nat \ {0}
  /\ MaxGlobal \in Nat \ {0}
  /\ MaxInFlight \in Nat \ {0}
  /\ MaxSessions \in Nat
ASSUME RequestsAreFinite == IsFiniteSet(Requests)
ASSUME NoneIsNobody == None \notin Principals \cup Ids

VARIABLES
  active,   \* active[s]: whose session s is; None when it is not active
  stale,    \* active sessions that have been idle for session_idle_timeout
  closing,  \* SessionAdmissionInner::closing
  pending,  \* pending[p]: pending_by_principal
  global,   \* pending_global
  inFlight, \* inFlight[s]: InFlightRequests of session s
  permits,  \* permits[p]: permits taken of p's semaphore
  live,     \* rmcp: the sessions of LocalSessionManager
  born,     \* rmcp: how many sessions there have been
  orphans,  \* sessions no request answers for: their client went away first
  req       \* req[r]: the request r and how far it is

vars == <<active, stale, closing, pending, global, inFlight, permits, live, born,
          orphans, req>>

admission == <<active, stale, closing, pending, global>>
rmcp == <<live, born>>

Sessions == 1 .. MaxSessions
ActiveOnes == {s \in Sessions : active[s] # None}
ActiveOf(p) == {s \in Sessions : active[s] = p}

Free == [pc |-> "idle", who |-> None, session |-> 0, id |-> None,
         expired |-> {}, reserved |-> FALSE, listed |-> FALSE, permit |-> FALSE,
         tool |-> FALSE]

Init ==
  /\ active = [s \in Sessions |-> None]
  /\ stale = {}
  /\ closing = {}
  /\ pending = [p \in Principals |-> 0]
  /\ global = 0
  /\ inFlight = [s \in Sessions |-> {}]
  /\ permits = [p \in Principals |-> 0]
  /\ live = {}
  /\ born = 0
  /\ orphans = {}
  /\ req = [r \in Requests |-> Free]

Step(r, from) == req[r].pc = from

-----------------------------------------------------------------------------
(* What a request gives back.  Each of these runs in a Drop, so it runs on    *)
(* every way out, a lost client included.                                    *)

(* release_pending and the first half of commit_pending.                     *)
Released(r) ==
  /\ global' = IF req[r].reserved THEN global - 1 ELSE global
  /\ pending' = IF req[r].reserved
                THEN [pending EXCEPT ![req[r].who] = @ - 1] ELSE pending

(* Mutant of Unlisted. *)
UnlistedNever(r) == inFlight' = inFlight

(* InFlightRequestGuard: the id goes, if its session has not gone before.     *)
Unlisted(r) ==
  inFlight' = IF req[r].listed
              THEN [inFlight EXCEPT ![req[r].session] = @ \ {req[r].id}]
              ELSE inFlight

(* The handler of a tool holds the permit until it returns, whatever becomes  *)
(* of the HTTP request; without a handler the middleware does.               *)
PermitBack(r, running) ==
  permits' = IF req[r].permit /\ ~running
             THEN [permits EXCEPT ![req[r].who] = @ - 1] ELSE permits

(* The HTTP side of r ends; a tool that still runs goes on without it.        *)
Ended(r) ==
  IF req[r].tool THEN [req[r] EXCEPT !.pc = "left", !.listed = FALSE] ELSE Free

-----------------------------------------------------------------------------
(* Initialize.                                                              *)

WithoutStale == [s \in Sessions |-> IF s \in stale THEN None ELSE active[s]]

(* Mutant of CapsReached. *)
CapsReachedBySessions(p) ==
  \/ Cardinality(ActiveOf(p) \ stale) >= MaxPerPrincipal
  \/ Cardinality(ActiveOnes \ stale) >= MaxGlobal

(* Sessions that are still being made count, as principal's and as anyone's. *)
CapsReached(p) ==
  \/ Cardinality(ActiveOf(p) \ stale) + pending[p] >= MaxPerPrincipal
  \/ Cardinality(ActiveOnes \ stale) + global >= MaxGlobal

(* SessionAdmission::reserve: sessions that have been idle for too long stop  *)
(* counting at once and are closed by the request that has found them.       *)
Reserve(r, p) ==
  /\ Step(r, "idle")
  /\ active' = WithoutStale
  /\ stale' = {}
  /\ closing' = closing \cup stale
  /\ \/ /\ CapsReached(p)
        /\ UNCHANGED <<pending, global>>
        /\ req' = [req EXCEPT ![r] =
             [Free EXCEPT !.pc = "sweep", !.who = p, !.expired = stale]]
     \/ /\ ~CapsReached(p)
        /\ pending' = [pending EXCEPT ![p] = @ + 1]
        /\ global' = global + 1
        /\ req' = [req EXCEPT ![r] =
             [Free EXCEPT !.pc = "sweep", !.who = p, !.expired = stale,
                          !.reserved = TRUE]]
  /\ UNCHANGED <<inFlight, permits, rmcp, orphans>>

(* close_sessions: one session after the other; its ids go first.            *)
SweepIds(r) ==
  /\ Step(r, "sweep")
  /\ \E s \in req[r].expired :
       /\ inFlight' = [inFlight EXCEPT ![s] = {}]
       /\ req' = [req EXCEPT ![r].pc = "close", ![r].session = s,
                             ![r].expired = @ \ {s}]
  /\ UNCHANGED <<admission, permits, rmcp, orphans>>

CloseExpired(r) ==
  /\ Step(r, "close")
  /\ live' = live \ {req[r].session}
  /\ closing' = closing \ {req[r].session}
  /\ req' = [req EXCEPT ![r].pc = "sweep", ![r].session = 0]
  /\ UNCHANGED <<active, stale, pending, global, inFlight, permits, born, orphans>>

(* Mutant of Swept. *)
SweptOnceReserved(r) ==
  /\ Step(r, "sweep")
  /\ req[r].expired = {} \/ ~req[r].reserved
  /\ req' = [req EXCEPT ![r] =
       IF req[r].reserved THEN [req[r] EXCEPT !.pc = "create"] ELSE Free]
  /\ UNCHANGED <<admission, inFlight, permits, rmcp, orphans>>

(* All are closed: the request goes on to rmcp, or is refused (429 without a  *)
(* reservation, 404 when its own session was the one that had expired).       *)
Swept(r) ==
  /\ Step(r, "sweep")
  /\ req[r].expired = {}
  /\ req' = [req EXCEPT ![r] =
       IF req[r].reserved THEN [req[r] EXCEPT !.pc = "create"] ELSE Free]
  /\ UNCHANGED <<admission, inFlight, permits, rmcp, orphans>>

(* rmcp makes a session and answers with its id.                             *)
CreateSession(r) ==
  /\ Step(r, "create")
  /\ born < MaxSessions
  /\ born' = born + 1
  /\ live' = live \cup {born'}
  /\ req' = [req EXCEPT ![r].pc = "answer", ![r].session = born']
  /\ UNCHANGED <<admission, inFlight, permits, orphans>>

(* rmcp refuses, and no session has been made.                               *)
RefuseSession(r) ==
  /\ Step(r, "create")
  /\ Released(r)
  /\ req' = [req EXCEPT ![r] = Free]
  /\ UNCHANGED <<active, stale, closing, inFlight, permits, rmcp, orphans>>

(* The answer is a result: PendingSessionReservation::commit.                *)
Commit(r) ==
  LET s == req[r].session IN
  /\ Step(r, "answer")
  /\ Released(r)
  /\ closing' = closing \ {s}
  /\ active' = [active EXCEPT ![s] = req[r].who]
  /\ req' = [req EXCEPT ![r] = Free]
  /\ UNCHANGED <<stale, inFlight, permits, rmcp, orphans>>

(* The answer is an error or too large: the session is closed.               *)
Reject(r) ==
  /\ Step(r, "answer")
  /\ Released(r)
  /\ live' = live \ {req[r].session}
  /\ req' = [req EXCEPT ![r] = Free]
  /\ UNCHANGED <<active, stale, closing, inFlight, permits, born, orphans>>

-----------------------------------------------------------------------------
(* Requests on a session.  validate_and_touch: the caller must own it, and    *)
(* using it makes it fresh; one that has expired is closed by who finds it.   *)

Validate(p, s) == active[s] = p /\ s \notin stale /\ s \notin closing

OnSession(r, p, s, request) ==
  /\ Step(r, "idle")
  /\ Validate(p, s)
  /\ req' = [req EXCEPT ![r] = request]

FindExpired(r, p, s) ==
  /\ Step(r, "idle")
  /\ s \in stale
  /\ active' = [active EXCEPT ![s] = None]
  /\ stale' = stale \ {s}
  /\ closing' = closing \cup {s}
  /\ req' = [req EXCEPT ![r] =
       [Free EXCEPT !.pc = "sweep", !.who = p, !.expired = {s}]]
  /\ UNCHANGED <<pending, global, inFlight, permits, rmcp, orphans>>

Call(r, p, s, i) ==
  /\ OnSession(r, p, s,
       [Free EXCEPT !.pc = "acquire", !.who = p, !.session = s, !.id = i])
  /\ UNCHANGED <<admission, inFlight, permits, rmcp, orphans>>

(* try_acquire_tool: refused with 429 at the limit.                          *)
Acquire(r) ==
  LET p == req[r].who IN
  /\ Step(r, "acquire")
  /\ \/ /\ permits[p] < MaxInFlight
        /\ permits' = [permits EXCEPT ![p] = @ + 1]
        /\ req' = [req EXCEPT ![r].pc = "list", ![r].permit = TRUE]
     \/ /\ permits[p] >= MaxInFlight
        /\ req' = [req EXCEPT ![r] = Free]
        /\ UNCHANGED permits
  /\ UNCHANGED <<admission, inFlight, rmcp, orphans>>

(* A request that calls no tool needs no permit.                             *)
CallNoTool(r) ==
  /\ Step(r, "acquire")
  /\ req' = [req EXCEPT ![r].pc = "list"]
  /\ UNCHANGED <<admission, inFlight, permits, rmcp, orphans>>

(* InFlightRequests::try_register, refused with 409 for an id in use.        *)
Register(r) ==
  LET s == req[r].session IN
  /\ Step(r, "list")
  /\ \/ /\ req[r].id \notin inFlight[s]
        /\ inFlight' = [inFlight EXCEPT ![s] = @ \cup {req[r].id}]
        /\ req' = [req EXCEPT ![r].pc = "serve", ![r].listed = TRUE]
        /\ UNCHANGED permits
     \/ /\ req[r].id \in inFlight[s]
        /\ PermitBack(r, FALSE)
        /\ req' = [req EXCEPT ![r] = Free]
        /\ UNCHANGED inFlight
  /\ UNCHANGED <<admission, rmcp, orphans>>

(* rmcp takes the request: the handler of a tool runs in a task of its own,   *)
(* and the answer is a stream that carries the registration.                 *)
Serve(r) ==
  /\ Step(r, "serve")
  /\ req[r].session \in live
  /\ req' = [req EXCEPT ![r].pc = "stream", ![r].tool = req[r].permit]
  /\ UNCHANGED <<admission, inFlight, permits, rmcp, orphans>>

(* rmcp does not know the session any more.                                  *)
ServeUnknown(r) ==
  /\ Step(r, "serve")
  /\ req[r].session \notin live
  /\ Unlisted(r)
  /\ PermitBack(r, FALSE)
  /\ req' = [req EXCEPT ![r] = Free]
  /\ UNCHANGED <<admission, rmcp, orphans>>

ToolReturns(r) ==
  /\ req[r].tool
  /\ PermitBack(r, FALSE)
  /\ req' = [req EXCEPT ![r] =
       IF Step(r, "left") THEN Free ELSE [req[r] EXCEPT !.tool = FALSE, !.permit = FALSE]]
  /\ UNCHANGED <<admission, inFlight, rmcp, orphans>>

(* The stream ends: its answer has been sent, or its session is gone.        *)
EndStream(r) ==
  /\ Step(r, "stream")
  /\ ~req[r].tool \/ req[r].session \notin live
  /\ Unlisted(r)
  /\ PermitBack(r, req[r].tool)
  /\ req' = [req EXCEPT ![r] = Ended(r)]
  /\ UNCHANGED <<admission, rmcp, orphans>>

-----------------------------------------------------------------------------
(* DELETE: mark_closing, drop_session, rmcp's own DELETE, and finish_closing. *)

Delete(r, p, s) ==
  /\ OnSession(r, p, s,
       [Free EXCEPT !.pc = "mark", !.who = p, !.session = s])
  /\ UNCHANGED <<admission, inFlight, permits, rmcp, orphans>>

MarkClosing(r) ==
  LET s == req[r].session IN
  /\ Step(r, "mark")
  /\ active' = [active EXCEPT ![s] = None]
  /\ stale' = stale \ {s}
  /\ closing' = closing \cup {s}
  /\ req' = [req EXCEPT ![r].pc = "drop"]
  /\ UNCHANGED <<pending, global, inFlight, permits, rmcp, orphans>>

DropIds(r) ==
  /\ Step(r, "drop")
  /\ inFlight' = [inFlight EXCEPT ![req[r].session] = {}]
  /\ req' = [req EXCEPT ![r].pc = "remove"]
  /\ UNCHANGED <<admission, permits, rmcp, orphans>>

FinishDelete(r) ==
  /\ Step(r, "remove")
  /\ live' = live \ {req[r].session}
  /\ closing' = closing \ {req[r].session}
  /\ req' = [req EXCEPT ![r] = Free]
  /\ UNCHANGED <<active, stale, pending, global, inFlight, permits, born, orphans>>

-----------------------------------------------------------------------------
(* The client of r goes away while r awaits: nothing but the guards runs.  A  *)
(* session that rmcp has made, and those r was about to close, are left.      *)
LeftBehind(r) ==
  CASE req[r].pc = "answer" -> {req[r].session}
    [] req[r].pc \in {"close", "remove"} -> req[r].expired \cup {req[r].session}
    [] OTHER -> req[r].expired

Disconnect(r) ==
  /\ req[r].pc \in {"close", "create", "answer", "serve", "stream", "remove"}
  /\ Released(r)
  /\ Unlisted(r)
  /\ PermitBack(r, req[r].tool)
  /\ orphans' = orphans \cup LeftBehind(r)
  /\ req' = [req EXCEPT ![r] = Ended(r)]
  /\ UNCHANGED <<active, stale, closing, rmcp>>

(* Nobody has used a session for session_idle_timeout.                       *)
GoStale(s) ==
  /\ active[s] # None
  /\ s \notin stale
  /\ stale' = stale \cup {s}
  /\ UNCHANGED <<active, closing, pending, global, inFlight, permits, rmcp, orphans, req>>

(* rmcp ends a session that has been idle for its keep_alive.                *)
KeepAliveEnds(s) ==
  /\ s \in live
  /\ live' = live \ {s}
  /\ UNCHANGED <<admission, inFlight, permits, born, orphans, req>>

-----------------------------------------------------------------------------
Arrive(r) ==
  \E p \in Principals :
    \/ Reserve(r, p)
    \/ \E s \in Sessions :
         \/ FindExpired(r, p, s)
         \/ Delete(r, p, s)
         \/ \E i \in Ids : Call(r, p, s, i)

Proceed(r) ==
  \/ SweepIds(r)
  \/ CloseExpired(r)
  \/ Swept(r)
  \/ CreateSession(r)
  \/ RefuseSession(r)
  \/ Commit(r)
  \/ Reject(r)
  \/ Acquire(r)
  \/ CallNoTool(r)
  \/ Register(r)
  \/ Serve(r)
  \/ ServeUnknown(r)
  \/ ToolReturns(r)
  \/ EndStream(r)
  \/ MarkClosing(r)
  \/ DropIds(r)
  \/ FinishDelete(r)

Next ==
  \/ \E r \in Requests : Arrive(r) \/ Proceed(r) \/ Disconnect(r)
  \/ \E s \in Sessions : GoStale(s) \/ KeepAliveEnds(s)

Spec == Init /\ [][Next]_vars

-----------------------------------------------------------------------------
(* The tables and requests keep to their types.                             *)
TypeOK ==
  /\ active \in [Sessions -> Principals \cup {None}]
  /\ stale \subseteq ActiveOnes
  /\ closing \subseteq Sessions
  /\ pending \in [Principals -> Nat]
  /\ global \in Nat
  /\ inFlight \in [Sessions -> SUBSET Ids]
  /\ permits \in [Principals -> 0 .. MaxInFlight]
  /\ live \subseteq 1 .. born
  /\ born \in 0 .. MaxSessions
  /\ orphans \subseteq Sessions
  /\ req \in [Requests ->
       [pc: {"idle", "sweep", "close", "create", "answer", "acquire", "list", "serve",
             "stream", "left", "mark", "drop", "remove"},
        who: Principals \cup {None}, session: Sessions \cup {0}, id: Ids \cup {None},
        expired: SUBSET Sessions, reserved: BOOLEAN, listed: BOOLEAN,
        permit: BOOLEAN, tool: BOOLEAN]]

(* No reservation is lost and none is given back twice: the two counters are  *)
(* the reservations of the requests under way.                              *)
Reserving(p) == {r \in Requests : req[r].reserved /\ req[r].who = p}

ReservationsCounted ==
  /\ \A p \in Principals : pending[p] = Cardinality(Reserving(p))
  /\ global = Cardinality({r \in Requests : req[r].reserved})

(* The tools a principal has running, also those nobody waits for any more.    *)
Tools(p) == {r \in Requests : req[r].tool /\ req[r].who = p}

(* However initializations and calls overlap, fail and are abandoned, nobody   *)
(* gets past a limit: sessions and reservations for sessions together keep    *)
(* within those of a principal and of the server, and running tools within     *)
(* the principal's.                                                         *)
LimitsKept ==
  /\ ReservationsCounted
  /\ \A p \in Principals : Cardinality(ActiveOf(p)) + pending[p] <= MaxPerPrincipal
  /\ Cardinality(ActiveOnes) + global <= MaxGlobal
  /\ \A p \in Principals : Cardinality(Tools(p)) <= MaxInFlight

(* A comment in authorize_mcp: "refused requests never linger in the in-flight *)
(* table".  On an active session the ids in flight are those of the requests  *)
(* that are being answered, and no two of these have the same.               *)
Answering(s) == {r \in Requests : req[r].listed /\ req[r].session = s}

IdsKeptApart ==
  \A s \in ActiveOnes :
    /\ inFlight[s] = {req[r].id : r \in Answering(s)}
    /\ \A q, r \in Answering(s) : req[q].id = req[r].id => q = r

(* rmcp keeps no session that the admission does not count: one it has made    *)
(* is active, being closed, or about to become active, unless a client that    *)
(* went away left it behind; nor is a session marked as closing for nothing.  *)
Closers(s) ==
  {r \in Requests :
     \/ s \in req[r].expired
     \/ req[r].session = s /\ req[r].pc \in {"close", "drop", "remove"}}

SessionsAreSomeones ==
  /\ \A s \in live \ orphans :
       \/ active[s] # None
       \/ Closers(s) # {}
       \/ \E r \in Requests : req[r].session = s /\ Step(r, "answer")
  /\ \A s \in closing \ orphans : Closers(s) # {}
=============================================================================
