--------------------------- MODULE McpSessionsProofs ---------------------------
(***************************************************************************)
(* Machine-checked proofs about McpSessions: however requests overlap, fail  *)
(* and are abandoned, reservations and permits are given back exactly once,   *)
(* nobody gets past a limit, the ids in flight are those of the requests that  *)
(* are answered, and every session is somebody's.                            *)
(***************************************************************************)
EXTENDS McpSessions, FiniteSetTheorems, TLAPS

RequestType ==
  [pc: {"idle", "sweep", "close", "create", "answer", "acquire", "list", "serve",
        "stream", "left", "mark", "drop", "remove"},
   who: Principals \cup {None}, session: Sessions \cup {0}, id: Ids \cup {None},
   expired: SUBSET Sessions, reserved: BOOLEAN, listed: BOOLEAN,
   permit: BOOLEAN, tool: BOOLEAN]

(* What a request holds where it is.                                        *)
Good(q) ==
  /\ q.pc # "idle" => q.who \in Principals
  /\ q.reserved => q.pc \in {"sweep", "close", "create", "answer"}
  /\ q.pc \in {"create", "answer"} => q.reserved
  /\ q.permit => q.pc \in {"list", "serve", "stream", "left"}
  /\ q.listed => q.pc \in {"serve", "stream"}
  /\ q.tool => q.permit /\ q.pc \in {"stream", "left"}
  /\ q.pc \notin {"idle", "sweep", "create"} => q.session \in Sessions
  /\ q.pc \in {"acquire", "list"} => q.id \in Ids

(* The permits taken are those requests hold, and none can hold too many.    *)
Holding(p) == {r \in Requests : req[r].permit /\ req[r].who = p}
PermitsCounted == \A p \in Principals : permits[p] = Cardinality(Holding(p))

CapsKept ==
  /\ \A p \in Principals : Cardinality(ActiveOf(p)) + pending[p] <= MaxPerPrincipal
  /\ Cardinality(ActiveOnes) + global <= MaxGlobal

SInv ==
  /\ TypeOK
  /\ \A r \in Requests : Good(req[r])
  /\ ReservationsCounted /\ PermitsCounted /\ CapsKept

-----------------------------------------------------------------------------
(* Counting: what one request that changes does to the counts.               *)

LEMMA RequestTyped ==
  TypeOK => req \in [Requests -> RequestType]
  BY DEF TypeOK, RequestType

LEMMA OneChanges ==
  ASSUME SInv, NEW r \in Requests, NEW q \in RequestType, Good(q), req' = [req EXCEPT ![r] = q]
  PROVE  /\ req' \in [Requests -> RequestType]
         /\ req'[r] = q /\ \A x \in Requests \ {r} : req'[x] = req[x]
         /\ \A x \in Requests : Good(req[x])'
  <1>1. /\ req' \in [Requests -> RequestType]
        /\ req'[r] = q /\ \A x \in Requests \ {r} : req'[x] = req[x]
    BY RequestTyped DEF SInv
  <1>2. ASSUME NEW x \in Requests PROVE Good(req[x])'
    <2>1. CASE x = r
      BY <1>1, <2>1 DEF Good
    <2>2. CASE x # r
      BY <1>1, <2>2 DEF Good, SInv
    <2> QED
      BY <2>1, <2>2
  <1> QED
    BY <1>1, <1>2

LEMMA SetsAreFinite ==
  /\ IsFiniteSet(Sessions)
  /\ \A S \in SUBSET Sessions : IsFiniteSet(S) /\ Cardinality(S) \in Nat
  /\ \A S \in SUBSET Requests : IsFiniteSet(S) /\ Cardinality(S) \in Nat
  <1>1. IsFiniteSet(Sessions)
    BY FS_Interval, LimitsArePositive DEF Sessions
  <1>2. \A S \in SUBSET Sessions : IsFiniteSet(S) /\ Cardinality(S) \in Nat
    BY <1>1, FS_Subset, FS_CardinalityType
  <1>3. \A S \in SUBSET Requests : IsFiniteSet(S) /\ Cardinality(S) \in Nat
    BY RequestsAreFinite, FS_Subset, FS_CardinalityType
  <1> QED
    BY <1>1, <1>2, <1>3

(* A set of requests in which r is, or is not, in the end.                   *)
LEMMA Joins ==
  ASSUME NEW S \in SUBSET Requests, NEW r \in Requests, r \notin S
  PROVE  Cardinality(S \cup {r}) = Cardinality(S) + 1
  BY SetsAreFinite, FS_AddElement

LEMMA Leaves ==
  ASSUME NEW S \in SUBSET Requests, NEW r \in Requests, r \in S
  PROVE  Cardinality(S \ {r}) = Cardinality(S) - 1 /\ Cardinality(S) > 0
  <1>1. Cardinality(S \ {r}) = Cardinality(S) - 1
    BY SetsAreFinite, FS_RemoveElement
  <1>2. Cardinality(S \ {r}) \in Nat /\ Cardinality(S) \in Nat
    BY SetsAreFinite
  <1> QED
    BY <1>1, <1>2

Reserved == {r \in Requests : req[r].reserved}

LEMMA SameReservations ==
  ASSUME SInv, NEW r \in Requests, NEW q \in RequestType, req' = [req EXCEPT ![r] = q],
         q.reserved = req[r].reserved, q.reserved => q.who = req[r].who,
         UNCHANGED <<pending, global>>
  PROVE  ReservationsCounted'
  <1>1. req'[r] = q /\ \A x \in Requests \ {r} : req'[x] = req[x]
    BY RequestTyped DEF SInv
  <1>2. \A p \in Principals : Reserving(p)' = Reserving(p)
    BY <1>1 DEF Reserving
  <1>3. Reserved' = Reserved
    BY <1>1 DEF Reserved
  <1> QED
    BY <1>2, <1>3 DEF SInv, ReservationsCounted, Reserved

LEMMA OneReservationMore ==
  ASSUME SInv, NEW r \in Requests, NEW q \in RequestType, req' = [req EXCEPT ![r] = q],
         NEW p \in Principals, ~req[r].reserved, q.reserved, q.who = p,
         pending' = [pending EXCEPT ![p] = @ + 1], global' = global + 1
  PROVE  ReservationsCounted'
  <1>1. req'[r] = q /\ \A x \in Requests \ {r} : req'[x] = req[x]
    BY RequestTyped DEF SInv
  <1>2. Reserving(p)' = Reserving(p) \cup {r} /\ r \notin Reserving(p)
    BY <1>1 DEF Reserving
  <1>3. \A x \in Principals \ {p} : Reserving(x)' = Reserving(x)
    BY <1>1 DEF Reserving
  <1>4. Reserved' = Reserved \cup {r} /\ r \notin Reserved
    BY <1>1 DEF Reserved
  <1>5. Cardinality(Reserving(p)') = Cardinality(Reserving(p)) + 1 /\ Cardinality(Reserved') = Cardinality(Reserved) + 1
    BY <1>2, <1>4, Joins DEF Reserving, Reserved
  <1>6. pending'[p] = pending[p] + 1 /\ \A x \in Principals \ {p} : pending'[x] = pending[x]
    BY DEF SInv, TypeOK
  <1> QED
    BY <1>3, <1>5, <1>6 DEF SInv, ReservationsCounted, Reserved

LEMMA ReservationBack ==
  ASSUME SInv, NEW r \in Requests, NEW q \in RequestType, req' = [req EXCEPT ![r] = q],
         ~q.reserved, Released(r)
  PROVE  /\ ReservationsCounted'
         /\ pending' \in [Principals -> Nat] /\ global' \in Nat
         /\ \A p \in Principals : pending'[p] <= pending[p]
         /\ req[r].reserved => pending'[req[r].who] = pending[req[r].who] - 1 /\ global' = global - 1
         /\ global' <= global
  <1>1. req'[r] = q /\ \A x \in Requests \ {r} : req'[x] = req[x]
    BY RequestTyped DEF SInv
  <1>2. pending \in [Principals -> Nat] /\ global \in Nat
    BY DEF SInv, TypeOK
  <1>3. CASE ~req[r].reserved
    <2>1. \A p \in Principals : Reserving(p)' = Reserving(p)
      BY <1>1, <1>3 DEF Reserving
    <2>2. Reserved' = Reserved
      BY <1>1, <1>3 DEF Reserved
    <2>3. UNCHANGED <<pending, global>>
      BY <1>3 DEF Released
    <2> QED
      <3>1. ReservationsCounted'
        BY <2>1, <2>2, <2>3 DEF SInv, ReservationsCounted, Reserved
      <3>2. \A p \in Principals : pending[p] \in Nat
        BY <1>2
      <3> QED
        BY <1>2, <1>3, <2>3, <3>1, <3>2
  <1>4. CASE req[r].reserved
    <2>0. req[r].who \in Principals
      BY <1>4, RequestTyped DEF SInv, Good, RequestType
    <2>1. PICK w \in Principals : w = req[r].who
      BY <2>0
    <2>2. Reserving(w)' = Reserving(w) \ {r} /\ r \in Reserving(w)
      BY <1>1, <1>4, <2>1 DEF Reserving
    <2>3. \A x \in Principals \ {w} : Reserving(x)' = Reserving(x)
      BY <1>1, <2>1 DEF Reserving
    <2>4. Reserved' = Reserved \ {r} /\ r \in Reserved
      BY <1>1, <1>4 DEF Reserved
    <2>5. /\ Cardinality(Reserving(w)') = Cardinality(Reserving(w)) - 1 /\ Cardinality(Reserving(w)) > 0
          /\ Cardinality(Reserved') = Cardinality(Reserved) - 1 /\ Cardinality(Reserved) > 0
      BY <2>2, <2>4, Leaves DEF Reserving, Reserved
    <2>6. /\ pending[w] = Cardinality(Reserving(w)) /\ global = Cardinality(Reserved)
          /\ \A x \in Principals \ {w} : pending[x] = Cardinality(Reserving(x))
      BY <2>1 DEF SInv, ReservationsCounted, Reserved
    <2>7. pending' = [pending EXCEPT ![w] = @ - 1] /\ global' = global - 1
      BY <1>4, <2>1 DEF Released
    <2>8. pending[w] - 1 \in Nat /\ global - 1 \in Nat
      BY <1>2, <2>1, <2>5, <2>6
    <2>9. /\ pending' \in [Principals -> Nat] /\ global' \in Nat
          /\ pending'[w] = pending[w] - 1 /\ \A x \in Principals \ {w} : pending'[x] = pending[x]
      BY <1>2, <2>1, <2>7, <2>8
    <2>10. \A p \in Principals : pending'[p] <= pending[p]
      BY <1>2, <2>1, <2>9
    <2>11. \A p \in Principals : pending'[p] = Cardinality(Reserving(p)')
      BY <2>1, <2>3, <2>5, <2>6, <2>9
    <2>12. global' = Cardinality(Reserved')
      BY <2>5, <2>6, <2>7
    <2>13. global' <= global
      BY <1>2, <2>7
    <2> QED
      BY <1>4, <2>1, <2>7, <2>9, <2>10, <2>11, <2>12, <2>13 DEF ReservationsCounted, Reserved
  <1> QED
    BY <1>3, <1>4

LEMMA SamePermits ==
  ASSUME SInv, NEW r \in Requests, NEW q \in RequestType, req' = [req EXCEPT ![r] = q],
         q.permit = req[r].permit, q.permit => q.who = req[r].who, UNCHANGED permits
  PROVE  PermitsCounted'
  <1>1. req'[r] = q /\ \A x \in Requests \ {r} : req'[x] = req[x]
    BY RequestTyped DEF SInv
  <1>2. \A p \in Principals : Holding(p)' = Holding(p)
    BY <1>1 DEF Holding
  <1> QED
    BY <1>2 DEF SInv, PermitsCounted

LEMMA OnePermitMore ==
  ASSUME SInv, NEW r \in Requests, NEW q \in RequestType, req' = [req EXCEPT ![r] = q],
         NEW p \in Principals, ~req[r].permit, q.permit, q.who = p,
         permits' = [permits EXCEPT ![p] = @ + 1]
  PROVE  PermitsCounted'
  <1>1. req'[r] = q /\ \A x \in Requests \ {r} : req'[x] = req[x]
    BY RequestTyped DEF SInv
  <1>2. Holding(p)' = Holding(p) \cup {r} /\ r \notin Holding(p)
    BY <1>1 DEF Holding
  <1>3. \A x \in Principals \ {p} : Holding(x)' = Holding(x)
    BY <1>1 DEF Holding
  <1>4. Cardinality(Holding(p)') = Cardinality(Holding(p)) + 1
    BY <1>2, Joins DEF Holding
  <1>5. permits'[p] = permits[p] + 1 /\ \A x \in Principals \ {p} : permits'[x] = permits[x]
    BY DEF SInv, TypeOK
  <1> QED
    BY <1>3, <1>4, <1>5 DEF SInv, PermitsCounted

LEMMA PermitReturned ==
  ASSUME SInv, NEW r \in Requests, NEW q \in RequestType, req' = [req EXCEPT ![r] = q],
         NEW running \in BOOLEAN, PermitBack(r, running),
         q.permit <=> (req[r].permit /\ running), q.permit => q.who = req[r].who
  PROVE  PermitsCounted' /\ permits' \in [Principals -> 0 .. MaxInFlight]
  <1>1. req'[r] = q /\ \A x \in Requests \ {r} : req'[x] = req[x]
    BY RequestTyped DEF SInv
  <1>2. permits \in [Principals -> 0 .. MaxInFlight]
    BY DEF SInv, TypeOK
  <1>3. CASE ~(req[r].permit /\ ~running)
    <2>1. q.permit = req[r].permit
      BY <1>3, RequestTyped DEF SInv, RequestType
    <2>2. UNCHANGED permits
      BY <1>3 DEF PermitBack
    <2> QED
      BY <1>2, <2>1, <2>2, SamePermits
  <1>4. CASE req[r].permit /\ ~running
    <2>0. req[r].who \in Principals
      BY <1>4, RequestTyped DEF SInv, Good, RequestType
    <2>1. PICK w \in Principals : w = req[r].who
      BY <2>0
    <2>2. Holding(w)' = Holding(w) \ {r} /\ r \in Holding(w)
      BY <1>1, <1>4, <2>1 DEF Holding
    <2>3. \A x \in Principals \ {w} : Holding(x)' = Holding(x)
      BY <1>1, <2>1 DEF Holding
    <2>4. Cardinality(Holding(w)') = Cardinality(Holding(w)) - 1 /\ Cardinality(Holding(w)) > 0
      BY <2>2, Leaves DEF Holding
    <2>5. permits[w] = Cardinality(Holding(w)) /\ \A x \in Principals \ {w} : permits[x] = Cardinality(Holding(x))
      BY <2>1 DEF SInv, PermitsCounted
    <2>6. permits' = [permits EXCEPT ![w] = @ - 1]
      BY <1>4, <2>1 DEF PermitBack
    <2>7. permits[w] - 1 \in 0 .. MaxInFlight
      BY <1>2, <2>1, <2>4, <2>5, LimitsArePositive
    <2>8. /\ permits' \in [Principals -> 0 .. MaxInFlight]
          /\ permits'[w] = permits[w] - 1 /\ \A x \in Principals \ {w} : permits'[x] = permits[x]
      BY <1>2, <2>1, <2>6, <2>7
    <2>9. \A p \in Principals : permits'[p] = Cardinality(Holding(p)')
      BY <2>1, <2>3, <2>4, <2>5, <2>8
    <2> QED
      BY <2>8, <2>9 DEF PermitsCounted
  <1> QED
    BY <1>3, <1>4

LEMMA FewerActive ==
  ASSUME SInv, \A s \in Sessions : active'[s] = active[s] \/ active'[s] = None,
         pending' \in [Principals -> Nat], \A p \in Principals : pending'[p] <= pending[p],
         global' \in Nat, global' <= global
  PROVE  CapsKept'
  <1>1. ASSUME NEW p \in Principals PROVE Cardinality(ActiveOf(p)') <= Cardinality(ActiveOf(p))
    <2>1. ActiveOf(p)' \subseteq ActiveOf(p)
      BY NoneIsNobody DEF ActiveOf
    <2> QED
      BY <2>1, SetsAreFinite, FS_Subset DEF ActiveOf
  <1>2. Cardinality(ActiveOnes') <= Cardinality(ActiveOnes)
    <2>1. ActiveOnes' \subseteq ActiveOnes
      BY DEF ActiveOnes
    <2> QED
      BY <2>1, SetsAreFinite, FS_Subset DEF ActiveOnes
  <1>3. /\ \A p \in Principals : Cardinality(ActiveOf(p)) \in Nat /\ Cardinality(ActiveOf(p)') \in Nat /\ pending[p] \in Nat
        /\ Cardinality(ActiveOnes) \in Nat /\ Cardinality(ActiveOnes') \in Nat /\ global \in Nat
    BY SetsAreFinite DEF ActiveOf, ActiveOnes, SInv, TypeOK
  <1>4. \A p \in Principals : Cardinality(ActiveOf(p)') + pending'[p] <= MaxPerPrincipal
    BY <1>1, <1>3, LimitsArePositive DEF SInv, CapsKept
  <1>5. Cardinality(ActiveOnes') + global' <= MaxGlobal
    BY <1>2, <1>3, LimitsArePositive DEF SInv, CapsKept
  <1> QED
    BY <1>4, <1>5 DEF CapsKept

(* The tables whose counts are of no matter to the limits.                   *)
Tables ==
  /\ active \in [Sessions -> Principals \cup {None}]
  /\ stale \subseteq ActiveOnes
  /\ closing \subseteq Sessions
  /\ inFlight \in [Sessions -> SUBSET Ids]
  /\ live \subseteq 1 .. born
  /\ born \in 0 .. MaxSessions
  /\ orphans \subseteq Sessions

LEMMA Assembled ==
  ASSUME Tables', req' \in [Requests -> RequestType], pending' \in [Principals -> Nat],
         global' \in Nat, permits' \in [Principals -> 0 .. MaxInFlight]
  PROVE  TypeOK'
  BY DEF Tables, TypeOK, RequestType

(* Steps that reserve nothing, release nothing and take no permit.           *)
LEMMA QuietStep ==
  ASSUME SInv, NEW r \in Requests, NEW q \in RequestType, Good(q), req' = [req EXCEPT ![r] = q],
         q.reserved = req[r].reserved, q.permit = req[r].permit,
         q.reserved \/ q.permit => q.who = req[r].who,
         UNCHANGED <<pending, global, permits>>,
         \A s \in Sessions : active'[s] = active[s] \/ active'[s] = None,
         Tables'
  PROVE  SInv'
  <1>1. /\ req' \in [Requests -> RequestType] /\ \A x \in Requests : Good(req[x])'
    BY OneChanges
  <1>2. /\ pending' \in [Principals -> Nat] /\ global' \in Nat /\ permits' \in [Principals -> 0 .. MaxInFlight]
        /\ \A p \in Principals : pending'[p] <= pending[p] /\ global' <= global
    BY DEF SInv, TypeOK
  <1>3. CapsKept'
    BY <1>2, FewerActive DEF SInv, TypeOK
  <1>4. ReservationsCounted' /\ PermitsCounted'
    BY SameReservations, SamePermits
  <1>5. TypeOK'
    BY <1>1, <1>2, Assembled
  <1> QED
    BY <1>1, <1>3, <1>4, <1>5 DEF SInv

(* Steps that give back what is held of reservations.                        *)
LEMMA ReleasingStep ==
  ASSUME SInv, NEW r \in Requests, NEW q \in RequestType, Good(q), req' = [req EXCEPT ![r] = q],
         ~q.reserved, Released(r), PermitsCounted', permits' \in [Principals -> 0 .. MaxInFlight],
         UNCHANGED active, Tables'
  PROVE  SInv'
  <1>1. /\ req' \in [Requests -> RequestType] /\ \A x \in Requests : Good(req[x])'
    BY OneChanges
  <1>2. /\ ReservationsCounted'
        /\ pending' \in [Principals -> Nat] /\ global' \in Nat
        /\ \A p \in Principals : pending'[p] <= pending[p]
        /\ global' <= global
    BY ReservationBack
  <1>3. CapsKept'
    BY <1>2, FewerActive
  <1> QED
    BY <1>1, <1>2, <1>3, Assembled DEF SInv

(* Steps that take or give back a permit, and reserve and release nothing.   *)
LEMMA PermitStep ==
  ASSUME SInv, NEW r \in Requests, NEW q \in RequestType, Good(q), req' = [req EXCEPT ![r] = q],
         ~q.reserved, ~req[r].reserved, PermitsCounted', permits' \in [Principals -> 0 .. MaxInFlight],
         UNCHANGED <<pending, global, active>>, Tables'
  PROVE  SInv'
  <1>1. /\ req' \in [Requests -> RequestType] /\ \A x \in Requests : Good(req[x])'
    BY OneChanges
  <1>2. /\ pending' \in [Principals -> Nat] /\ global' \in Nat
        /\ \A p \in Principals : pending'[p] <= pending[p] /\ global' <= global
    BY DEF SInv, TypeOK
  <1>3. CapsKept'
    BY <1>2, FewerActive DEF SInv, TypeOK
  <1>4. ReservationsCounted'
    <2>1. q.reserved = req[r].reserved
      BY RequestTyped DEF SInv, RequestType
    <2> QED
      BY <2>1, SameReservations
  <1> QED
    BY <1>1, <1>2, <1>3, <1>4, Assembled DEF SInv

-----------------------------------------------------------------------------
(* Every step keeps SInv.                                                   *)

LEMMA FreeIsGood ==
  Free \in RequestType /\ Good(Free) /\ ~Free.reserved /\ ~Free.permit /\ Free.reserved = FALSE /\ Free.permit = FALSE
  BY DEF Free, RequestType, Good

(* What is known of a request before its step.                               *)
LEMMA Before ==
  ASSUME SInv, NEW r \in Requests
  PROVE  req[r] \in RequestType /\ Good(req[r]) /\ Tables
         /\ req[r].reserved \in BOOLEAN /\ req[r].permit \in BOOLEAN
  BY RequestTyped DEF SInv, Tables, TypeOK, RequestType

LEMMA InitKeeps == Init => SInv
  <1> SUFFICES ASSUME Init PROVE SInv
    OBVIOUS
  <1>1. /\ \A p \in Principals : ActiveOf(p) = {} /\ Reserving(p) = {} /\ Holding(p) = {}
        /\ ActiveOnes = {} /\ Reserved = {}
    BY NoneIsNobody DEF Init, ActiveOf, ActiveOnes, Reserving, Reserved, Holding, Free
  <1>2. Cardinality({}) = 0
    BY FS_EmptySet
  <1>3. ReservationsCounted /\ PermitsCounted /\ CapsKept
    <2>1. /\ \A p \in Principals : pending[p] = 0 /\ permits[p] = 0
          /\ global = 0
      BY DEF Init
    <2>2. ReservationsCounted
      BY <1>1, <1>2, <2>1 DEF ReservationsCounted, Reserved
    <2>3. PermitsCounted
      BY <1>1, <1>2, <2>1 DEF PermitsCounted
    <2>4. CapsKept
      BY <1>1, <1>2, <2>1, LimitsArePositive DEF CapsKept
    <2> QED
      BY <2>2, <2>3, <2>4
  <1>4. \A r \in Requests : Good(req[r])
    BY FreeIsGood DEF Init
  <1>5. TypeOK
    BY LimitsArePositive, FreeIsGood DEF Init, TypeOK, RequestType, ActiveOnes
  <1> QED
    BY <1>3, <1>4, <1>5 DEF SInv

LEMMA ReserveKeeps ==
  ASSUME SInv, NEW r \in Requests, NEW p \in Principals, Reserve(r, p)
  PROVE  SInv'
  <1> USE Before
  <1>1. \A s \in Sessions : active'[s] = IF s \in stale THEN None ELSE active[s]
    BY DEF Reserve, WithoutStale
  <1>2. Tables'
    <2>1. active' \in [Sessions -> Principals \cup {None}]
      BY DEF Reserve, WithoutStale, Tables
    <2>2. stale \subseteq Sessions
      BY DEF Tables, ActiveOnes
    <2> QED
      BY <2>1, <2>2 DEF Reserve, Tables, rmcp
  <1>3. ~req[r].reserved /\ ~req[r].permit
    BY DEF Reserve, Step, Good
  <1>4. stale \subseteq Sessions /\ UNCHANGED permits
    BY DEF Tables, ActiveOnes, Reserve
  <1>5. CASE CapsReached(p) /\ UNCHANGED <<pending, global>>
             /\ req' = [req EXCEPT ![r] = [Free EXCEPT !.pc = "sweep", !.who = p, !.expired = stale]]
    <2> DEFINE q == [Free EXCEPT !.pc = "sweep", !.who = p, !.expired = stale]
    <2>1. q \in RequestType /\ Good(q) /\ q.reserved = FALSE /\ q.permit = FALSE
      BY <1>4 DEF Free, RequestType, Good
    <2> QED
      BY <1>1, <1>2, <1>3, <1>4, <1>5, <2>1, QuietStep
  <1>6. CASE /\ ~CapsReached(p)
             /\ pending' = [pending EXCEPT ![p] = @ + 1] /\ global' = global + 1
             /\ req' = [req EXCEPT ![r] = [Free EXCEPT !.pc = "sweep", !.who = p, !.expired = stale, !.reserved = TRUE]]
    <2> DEFINE q == [Free EXCEPT !.pc = "sweep", !.who = p, !.expired = stale, !.reserved = TRUE]
    <2>1. q \in RequestType /\ Good(q) /\ q.reserved = TRUE /\ q.permit = FALSE /\ q.who = p
      BY <1>4 DEF Free, RequestType, Good
    <2>2. /\ req' \in [Requests -> RequestType] /\ \A x \in Requests : Good(req[x])'
      BY <1>6, <2>1, OneChanges
    <2>3. ReservationsCounted' /\ PermitsCounted'
      BY <1>3, <1>4, <1>6, <2>1, OneReservationMore, SamePermits
    <2>4. pending \in [Principals -> Nat] /\ global \in Nat /\ permits \in [Principals -> 0 .. MaxInFlight]
      BY DEF SInv, TypeOK
    <2>5. /\ pending' \in [Principals -> Nat] /\ global' \in Nat
          /\ pending'[p] = pending[p] + 1 /\ \A x \in Principals \ {p} : pending'[x] = pending[x]
      BY <1>6, <2>4
    <2>6. /\ \A x \in Principals : ActiveOf(x)' = ActiveOf(x) \ stale
          /\ ActiveOnes' = ActiveOnes \ stale
      BY <1>1, NoneIsNobody DEF ActiveOf, ActiveOnes
    <2>7. /\ \A x \in Principals : /\ Cardinality(ActiveOf(x)') <= Cardinality(ActiveOf(x))
                                   /\ Cardinality(ActiveOf(x)') \in Nat /\ Cardinality(ActiveOf(x)) \in Nat
          /\ Cardinality(ActiveOnes') \in Nat
      BY <2>6, SetsAreFinite, FS_Subset DEF ActiveOf, ActiveOnes
    <2>8. /\ Cardinality(ActiveOf(p)') + pending[p] < MaxPerPrincipal
          /\ Cardinality(ActiveOnes') + global < MaxGlobal
      <3>1. /\ Cardinality(ActiveOf(p)') = Cardinality(ActiveOf(p) \ stale)
            /\ Cardinality(ActiveOnes') = Cardinality(ActiveOnes \ stale)
        BY <2>6
      <3>2. /\ ~(Cardinality(ActiveOf(p)') + pending[p] >= MaxPerPrincipal)
            /\ ~(Cardinality(ActiveOnes') + global >= MaxGlobal)
        BY <1>6, <3>1 DEF CapsReached
      <3>3. Cardinality(ActiveOf(p)') \in Nat /\ Cardinality(ActiveOnes') \in Nat /\ pending[p] \in Nat /\ global \in Nat
        BY <2>4, <2>7
      <3> QED
        BY <3>2, <3>3, LimitsArePositive
    <2>9. \A x \in Principals : Cardinality(ActiveOf(x)') + pending'[x] <= MaxPerPrincipal
      <3> SUFFICES ASSUME NEW x \in Principals PROVE Cardinality(ActiveOf(x)') + pending'[x] <= MaxPerPrincipal
        OBVIOUS
      <3>1. CASE x = p
        BY <3>1, <2>4, <2>5, <2>7, <2>8, LimitsArePositive
      <3>2. CASE x # p
        BY <3>2, <2>4, <2>5, <2>7, LimitsArePositive DEF SInv, CapsKept
      <3> QED
        BY <3>1, <3>2
    <2>10. Cardinality(ActiveOnes') + global' <= MaxGlobal
      BY <1>6, <2>4, <2>7, <2>8, LimitsArePositive
    <2>11. TypeOK'
      BY <1>2, <1>4, <2>2, <2>4, <2>5, Assembled
    <2> QED
      BY <2>2, <2>3, <2>9, <2>10, <2>11 DEF SInv, CapsKept
  <1> QED
    BY <1>5, <1>6 DEF Reserve

LEMMA SweepIdsKeeps ==
  ASSUME SInv, NEW r \in Requests, SweepIds(r)
  PROVE  SInv'
  <1> USE Before
  <1>1. PICK s \in req[r].expired :
          /\ inFlight' = [inFlight EXCEPT ![s] = {}]
          /\ req' = [req EXCEPT ![r].pc = "close", ![r].session = s, ![r].expired = @ \ {s}]
    BY DEF SweepIds
  <1> DEFINE q == [req[r] EXCEPT !.pc = "close", !.session = s, !.expired = @ \ {s}]
  <1>2. s \in Sessions /\ req[r].pc = "sweep"
    BY DEF RequestType, SweepIds, Step
  <1>3. req' = [req EXCEPT ![r] = q]
    BY <1>1
  <1>4. q \in RequestType /\ q.reserved = req[r].reserved /\ q.permit = req[r].permit /\ q.who = req[r].who
    BY <1>2 DEF RequestType
  <1>5. Good(q)
    BY <1>2 DEF RequestType, Good
  <1>6. Tables' /\ UNCHANGED <<pending, global, permits, active>>
    BY <1>1, <1>2 DEF SweepIds, Tables, ActiveOnes, admission, rmcp
  <1> QED
    BY <1>3, <1>4, <1>5, <1>6, QuietStep

LEMMA CloseExpiredKeeps ==
  ASSUME SInv, NEW r \in Requests, CloseExpired(r)
  PROVE  SInv'
  <1> USE Before
  <1> DEFINE q == [req[r] EXCEPT !.pc = "sweep", !.session = 0]
  <1>1. req' = [req EXCEPT ![r] = q] /\ req[r].pc = "close"
    BY DEF CloseExpired, Step
  <1>2. q \in RequestType /\ q.reserved = req[r].reserved /\ q.permit = req[r].permit /\ q.who = req[r].who
    BY DEF RequestType
  <1>3. Good(q)
    BY <1>1 DEF RequestType, Good
  <1>4. Tables' /\ UNCHANGED <<pending, global, permits, active>>
    BY DEF CloseExpired, Tables, ActiveOnes
  <1> QED
    BY <1>1, <1>2, <1>3, <1>4, QuietStep

LEMMA SweptKeeps ==
  ASSUME SInv, NEW r \in Requests, Swept(r)
  PROVE  SInv'
  <1> USE Before
  <1>1. Tables' /\ UNCHANGED <<pending, global, permits, active>> /\ req[r].pc = "sweep"
    BY DEF Swept, Tables, ActiveOnes, admission, rmcp, Step
  <1>2. ~req[r].permit
    BY <1>1 DEF Good
  <1>3. CASE req[r].reserved
    <2> DEFINE q == [req[r] EXCEPT !.pc = "create"]
    <2>1. req' = [req EXCEPT ![r] = q]
      BY <1>3 DEF Swept
    <2>2. q \in RequestType /\ q.reserved = req[r].reserved /\ q.permit = req[r].permit /\ q.who = req[r].who
      BY DEF RequestType
    <2>3. Good(q)
      BY <1>1, <1>3 DEF RequestType, Good
    <2> QED
      BY <1>1, <2>1, <2>2, <2>3, QuietStep
  <1>4. CASE ~req[r].reserved
    <2>1. req' = [req EXCEPT ![r] = Free]
      BY <1>4 DEF Swept
    <2> QED
      BY <1>1, <1>2, <1>4, <2>1, FreeIsGood, QuietStep
  <1> QED
    BY <1>3, <1>4

LEMMA CreateSessionKeeps ==
  ASSUME SInv, NEW r \in Requests, CreateSession(r)
  PROVE  SInv'
  <1> USE Before
  <1> DEFINE q == [req[r] EXCEPT !.pc = "answer", !.session = born + 1]
  <1>1. req' = [req EXCEPT ![r] = q] /\ req[r].pc = "create"
    BY DEF CreateSession, Step
  <1>2. born + 1 \in Sessions /\ born \in Nat /\ born' = born + 1
    BY LimitsArePositive DEF CreateSession, Tables, Sessions
  <1>3. q \in RequestType /\ q.reserved = req[r].reserved /\ q.permit = req[r].permit /\ q.who = req[r].who
    BY <1>2 DEF RequestType
  <1>4. Good(q)
    BY <1>1, <1>2 DEF RequestType, Good
  <1>5. live' \subseteq 1 .. born' /\ born' \in 0 .. MaxSessions
    BY <1>2, LimitsArePositive DEF CreateSession, Tables, Sessions
  <1>6. Tables' /\ UNCHANGED <<pending, global, permits, active>>
    BY <1>5 DEF CreateSession, Tables, ActiveOnes, admission
  <1> QED
    BY <1>1, <1>3, <1>4, <1>6, QuietStep

LEMMA CallKeeps ==
  ASSUME SInv, NEW r \in Requests, NEW p \in Principals, NEW s \in Sessions, NEW i \in Ids, Call(r, p, s, i)
  PROVE  SInv'
  <1> USE Before
  <1> DEFINE q == [Free EXCEPT !.pc = "acquire", !.who = p, !.session = s, !.id = i]
  <1>1. ~req[r].permit /\ ~req[r].reserved
    BY DEF Call, OnSession, Step, Good
  <1>2. Tables' /\ UNCHANGED <<pending, global, permits, active>>
    BY DEF Call, OnSession, Tables, ActiveOnes, admission, rmcp
  <1>3. q \in RequestType /\ Good(q) /\ q.reserved = FALSE /\ q.permit = FALSE
    BY DEF RequestType, Free, Good
  <1> QED
    BY <1>1, <1>2, <1>3, QuietStep DEF Call, OnSession

LEMMA DeleteKeeps ==
  ASSUME SInv, NEW r \in Requests, NEW p \in Principals, NEW s \in Sessions, Delete(r, p, s)
  PROVE  SInv'
  <1> USE Before
  <1> DEFINE q == [Free EXCEPT !.pc = "mark", !.who = p, !.session = s]
  <1>1. ~req[r].permit /\ ~req[r].reserved
    BY DEF Delete, OnSession, Step, Good
  <1>2. Tables' /\ UNCHANGED <<pending, global, permits, active>>
    BY DEF Delete, OnSession, Tables, ActiveOnes, admission, rmcp
  <1>3. q \in RequestType /\ Good(q) /\ q.reserved = FALSE /\ q.permit = FALSE
    BY DEF RequestType, Free, Good
  <1> QED
    BY <1>1, <1>2, <1>3, QuietStep DEF Delete, OnSession

LEMMA FindExpiredKeeps ==
  ASSUME SInv, NEW r \in Requests, NEW p \in Principals, NEW s \in Sessions, FindExpired(r, p, s)
  PROVE  SInv'
  <1> USE Before
  <1> DEFINE q == [Free EXCEPT !.pc = "sweep", !.who = p, !.expired = {s}]
  <1>1. ~req[r].permit /\ ~req[r].reserved
    BY DEF Good, FindExpired, Step
  <1>2. q \in RequestType /\ Good(q) /\ q.reserved = FALSE /\ q.permit = FALSE
    BY DEF RequestType, Free, Good
  <1>3. Tables'
    BY DEF FindExpired, Tables, ActiveOnes, rmcp
  <1>4. \A x \in Sessions : active'[x] = active[x] \/ active'[x] = None
    BY DEF FindExpired, Tables
  <1> QED
    BY <1>1, <1>2, <1>3, <1>4, QuietStep DEF FindExpired

LEMMA CallNoToolKeeps ==
  ASSUME SInv, NEW r \in Requests, CallNoTool(r)
  PROVE  SInv'
  <1> USE Before
  <1> DEFINE q == [req[r] EXCEPT !.pc = "list"]
  <1>1. req' = [req EXCEPT ![r] = q] /\ req[r].pc = "acquire"
    BY DEF CallNoTool, Step
  <1>2. q \in RequestType /\ q.reserved = req[r].reserved /\ q.permit = req[r].permit /\ q.who = req[r].who
    BY DEF RequestType
  <1>3. Good(q)
    BY <1>1 DEF RequestType, Good
  <1>4. Tables' /\ UNCHANGED <<pending, global, permits, active>>
    BY DEF CallNoTool, Tables, ActiveOnes, admission, rmcp
  <1> QED
    BY <1>1, <1>2, <1>3, <1>4, QuietStep

LEMMA ServeKeeps ==
  ASSUME SInv, NEW r \in Requests, Serve(r)
  PROVE  SInv'
  <1> USE Before
  <1> DEFINE q == [req[r] EXCEPT !.pc = "stream", !.tool = req[r].permit]
  <1>1. req' = [req EXCEPT ![r] = q] /\ req[r].pc = "serve"
    BY DEF Serve, Step
  <1>2. q \in RequestType /\ q.reserved = req[r].reserved /\ q.permit = req[r].permit /\ q.who = req[r].who
    BY DEF RequestType
  <1>3. Good(q)
    BY <1>1 DEF RequestType, Good
  <1>4. Tables' /\ UNCHANGED <<pending, global, permits, active>>
    BY DEF Serve, Tables, ActiveOnes, admission, rmcp
  <1> QED
    BY <1>1, <1>2, <1>3, <1>4, QuietStep

LEMMA MarkClosingKeeps ==
  ASSUME SInv, NEW r \in Requests, MarkClosing(r)
  PROVE  SInv'
  <1> USE Before
  <1> DEFINE q == [req[r] EXCEPT !.pc = "drop"]
  <1>1. req' = [req EXCEPT ![r] = q] /\ req[r].pc = "mark"
    BY DEF MarkClosing, Step
  <1>2. q \in RequestType /\ q.reserved = req[r].reserved /\ q.permit = req[r].permit /\ q.who = req[r].who
    BY DEF RequestType
  <1>3. Good(q) /\ req[r].session \in Sessions
    BY <1>1 DEF RequestType, Good
  <1>4. Tables'
    BY <1>3 DEF MarkClosing, Tables, ActiveOnes, rmcp
  <1>5. \A x \in Sessions : active'[x] = active[x] \/ active'[x] = None
    BY DEF MarkClosing, Tables
  <1>6. UNCHANGED <<pending, global, permits>>
    BY DEF MarkClosing
  <1> QED
    BY <1>1, <1>2, <1>3, <1>4, <1>5, <1>6, QuietStep

LEMMA DropIdsKeeps ==
  ASSUME SInv, NEW r \in Requests, DropIds(r)
  PROVE  SInv'
  <1> USE Before
  <1> DEFINE q == [req[r] EXCEPT !.pc = "remove"]
  <1>1. req' = [req EXCEPT ![r] = q] /\ req[r].pc = "drop"
    BY DEF DropIds, Step
  <1>2. q \in RequestType /\ q.reserved = req[r].reserved /\ q.permit = req[r].permit /\ q.who = req[r].who
    BY DEF RequestType
  <1>3. Good(q)
    BY <1>1 DEF RequestType, Good
  <1>4. Tables' /\ UNCHANGED <<pending, global, permits, active>>
    BY DEF DropIds, Tables, ActiveOnes, admission, rmcp
  <1> QED
    BY <1>1, <1>2, <1>3, <1>4, QuietStep

LEMMA FinishDeleteKeeps ==
  ASSUME SInv, NEW r \in Requests, FinishDelete(r)
  PROVE  SInv'
  <1> USE Before
  <1>1. ~req[r].permit /\ ~req[r].reserved
    BY DEF Good, FinishDelete, Step
  <1>2. Tables' /\ UNCHANGED <<pending, global, permits, active>>
    BY DEF FinishDelete, Tables, ActiveOnes
  <1> QED
    BY <1>1, <1>2, FreeIsGood, QuietStep DEF FinishDelete

LEMMA SamePermitsTyped ==
  ASSUME SInv, NEW r \in Requests, NEW q \in RequestType, req' = [req EXCEPT ![r] = q],
         ~q.permit, ~req[r].permit, UNCHANGED permits
  PROVE  PermitsCounted' /\ permits' \in [Principals -> 0 .. MaxInFlight]
  <1>1. q.permit = req[r].permit
    BY Before DEF RequestType
  <1> QED
    BY <1>1, SamePermits DEF SInv, TypeOK

LEMMA RefuseKeeps ==
  ASSUME SInv, NEW r \in Requests, RefuseSession(r) \/ Reject(r)
  PROVE  SInv'
  <1> USE Before
  <1>1. req' = [req EXCEPT ![r] = Free] /\ req[r].pc \in {"create", "answer"} /\ Released(r) /\ UNCHANGED <<permits, active>>
    BY DEF RefuseSession, Reject, Step
  <1>2. ~req[r].permit
    BY <1>1 DEF Good
  <1>3. Tables'
    BY DEF RefuseSession, Reject, Tables, ActiveOnes, rmcp
  <1>4. PermitsCounted' /\ permits' \in [Principals -> 0 .. MaxInFlight]
    BY <1>1, <1>2, FreeIsGood, SamePermitsTyped
  <1> QED
    BY <1>1, <1>3, <1>4, FreeIsGood, ReleasingStep

LEMMA CommitKeeps ==
  ASSUME SInv, NEW r \in Requests, Commit(r)
  PROVE  SInv'
  <1> USE Before
  <1>1. /\ req' = [req EXCEPT ![r] = Free] /\ req[r].pc = "answer" /\ Released(r) /\ UNCHANGED permits
        /\ active' = [active EXCEPT ![req[r].session] = req[r].who]
    BY DEF Commit, Step
  <1>2. ~req[r].permit /\ req[r].reserved /\ req[r].who \in Principals /\ req[r].session \in Sessions
    BY <1>1 DEF Good
  <1>3. PICK w \in Principals, s \in Sessions : w = req[r].who /\ s = req[r].session
    BY <1>2
  <1>4. active' \in [Sessions -> Principals \cup {None}]
        /\ active'[s] = w /\ \A x \in Sessions \ {s} : active'[x] = active[x]
    BY <1>1, <1>3 DEF Tables
  <1>5. Tables'
    <2>1. stale' \subseteq ActiveOnes'
      BY <1>4, NoneIsNobody DEF Commit, Tables, ActiveOnes
    <2> QED
      BY <1>4, <2>1 DEF Commit, Tables, rmcp
  <1>6. /\ ReservationsCounted'
        /\ pending' \in [Principals -> Nat] /\ global' \in Nat
        /\ \A p \in Principals : pending'[p] <= pending[p]
        /\ pending'[w] = pending[w] - 1 /\ global' = global - 1
    BY <1>1, <1>2, <1>3, FreeIsGood, ReservationBack
  <1>7. PermitsCounted' /\ permits' \in [Principals -> 0 .. MaxInFlight]
    BY <1>1, <1>2, FreeIsGood, SamePermitsTyped
  <1>8. req' \in [Requests -> RequestType] /\ \A x \in Requests : Good(req[x])'
    BY <1>1, FreeIsGood, OneChanges
  <1>9. /\ \A p \in Principals : Cardinality(ActiveOf(p)) \in Nat /\ Cardinality(ActiveOf(p)') \in Nat /\ pending[p] \in Nat
        /\ Cardinality(ActiveOnes) \in Nat /\ Cardinality(ActiveOnes') \in Nat /\ global \in Nat
    BY SetsAreFinite DEF ActiveOf, ActiveOnes, SInv, TypeOK
  <1>10. \A S \in SUBSET Sessions : Cardinality(S \cup {s}) <= Cardinality(S) + 1
    <2> SUFFICES ASSUME NEW S \in SUBSET Sessions PROVE Cardinality(S \cup {s}) <= Cardinality(S) + 1
      OBVIOUS
    <2>1. IsFiniteSet(S) /\ Cardinality(S) \in Nat
      BY SetsAreFinite
    <2>2. Cardinality(S \cup {s}) = Cardinality(S) \/ Cardinality(S \cup {s}) = Cardinality(S) + 1
      BY <2>1, FS_AddElement
    <2> QED
      BY <2>1, <2>2
  <1>11. Cardinality(ActiveOf(w)') <= Cardinality(ActiveOf(w)) + 1
    <2>1. ActiveOf(w)' \subseteq ActiveOf(w) \cup {s} /\ ActiveOf(w) \in SUBSET Sessions
      BY <1>4 DEF ActiveOf
    <2>2. Cardinality(ActiveOf(w)') <= Cardinality(ActiveOf(w) \cup {s})
      BY <2>1, SetsAreFinite, FS_Subset
    <2>3. Cardinality(ActiveOf(w) \cup {s}) \in Nat
      BY <2>1, SetsAreFinite
    <2> QED
      BY <2>1, <2>2, <2>3, <1>9, <1>10
  <1>12. Cardinality(ActiveOnes') <= Cardinality(ActiveOnes) + 1
    <2>1. ActiveOnes' \subseteq ActiveOnes \cup {s} /\ ActiveOnes \in SUBSET Sessions
      BY <1>4 DEF ActiveOnes
    <2>2. Cardinality(ActiveOnes') <= Cardinality(ActiveOnes \cup {s})
      BY <2>1, SetsAreFinite, FS_Subset
    <2>3. Cardinality(ActiveOnes \cup {s}) \in Nat
      BY <2>1, SetsAreFinite
    <2> QED
      BY <2>1, <2>2, <2>3, <1>9, <1>10
  <1>13. ASSUME NEW p \in Principals PROVE Cardinality(ActiveOf(p)') + pending'[p] <= MaxPerPrincipal
    <2>1. CASE p = w
      BY <2>1, <1>6, <1>9, <1>11, LimitsArePositive DEF SInv, CapsKept
    <2>2. CASE p # w
      <3>1. ActiveOf(p)' \subseteq ActiveOf(p)
        BY <2>2, <1>4 DEF ActiveOf
      <3>2. Cardinality(ActiveOf(p)') <= Cardinality(ActiveOf(p))
        BY <3>1, SetsAreFinite, FS_Subset DEF ActiveOf
      <3> QED
        BY <3>2, <1>6, <1>9, LimitsArePositive DEF SInv, CapsKept
    <2> QED
      BY <2>1, <2>2
  <1>14. Cardinality(ActiveOnes') + global' <= MaxGlobal
    BY <1>6, <1>9, <1>12, LimitsArePositive DEF SInv, CapsKept
  <1>15. TypeOK'
    BY <1>5, <1>6, <1>7, <1>8, Assembled
  <1> QED
    BY <1>6, <1>7, <1>8, <1>13, <1>14, <1>15 DEF SInv, CapsKept

LEMMA AcquireKeeps ==
  ASSUME SInv, NEW r \in Requests, Acquire(r)
  PROVE  SInv'
  <1> USE Before
  <1>1. /\ req[r].pc = "acquire" /\ ~req[r].permit /\ ~req[r].reserved /\ req[r].who \in Principals
    BY DEF Acquire, Step, Good
  <1>2. Tables' /\ UNCHANGED <<pending, global, active>>
    BY DEF Acquire, Tables, ActiveOnes, admission, rmcp
  <1>3. PICK p \in Principals : p = req[r].who
    BY <1>1
  <1>4. permits \in [Principals -> 0 .. MaxInFlight]
    BY DEF SInv, TypeOK
  <1>5. CASE /\ permits[p] < MaxInFlight /\ permits' = [permits EXCEPT ![p] = @ + 1]
             /\ req' = [req EXCEPT ![r].pc = "list", ![r].permit = TRUE]
    <2> DEFINE q == [req[r] EXCEPT !.pc = "list", !.permit = TRUE]
    <2>1. req' = [req EXCEPT ![r] = q]
      BY <1>5
    <2>2. q \in RequestType /\ ~q.reserved /\ q.permit /\ q.who = p
      BY <1>1, <1>3 DEF RequestType
    <2>3. Good(q)
      BY <1>1 DEF RequestType, Good
    <2>4. permits' \in [Principals -> 0 .. MaxInFlight]
      BY <1>4, <1>5, LimitsArePositive
    <2>5. PermitsCounted'
      BY <1>1, <1>5, <2>1, <2>2, OnePermitMore
    <2> QED
      BY <1>1, <1>2, <2>1, <2>2, <2>3, <2>4, <2>5, PermitStep
  <1>6. CASE req' = [req EXCEPT ![r] = Free] /\ UNCHANGED permits
    BY <1>1, <1>2, <1>6, FreeIsGood, QuietStep
  <1> QED
    BY <1>3, <1>5, <1>6 DEF Acquire

LEMMA RegisterKeeps ==
  ASSUME SInv, NEW r \in Requests, Register(r)
  PROVE  SInv'
  <1> USE Before
  <1>1. /\ req[r].pc = "list" /\ ~req[r].reserved /\ req[r].session \in Sessions /\ req[r].id \in Ids
    BY DEF Register, Step, Good
  <1>2. Tables' /\ UNCHANGED <<pending, global, active>>
    <2>1. inFlight' \in [Sessions -> SUBSET Ids]
      <3>1. inFlight \in [Sessions -> SUBSET Ids]
        BY DEF Tables
      <3>2. CASE UNCHANGED inFlight
        BY <3>1, <3>2
      <3>3. CASE inFlight' = [inFlight EXCEPT ![req[r].session] = @ \cup {req[r].id}]
        <4>1. inFlight[req[r].session] \cup {req[r].id} \in SUBSET Ids
          BY <1>1, <3>1
        <4> QED
          BY <3>1, <3>3, <4>1
      <3> QED
        BY <3>2, <3>3 DEF Register
    <2> QED
      BY <2>1 DEF Register, Tables, ActiveOnes, admission, rmcp
  <1>3. CASE UNCHANGED permits /\ req' = [req EXCEPT ![r].pc = "serve", ![r].listed = TRUE]
    <2> DEFINE q == [req[r] EXCEPT !.pc = "serve", !.listed = TRUE]
    <2>1. req' = [req EXCEPT ![r] = q]
      BY <1>3
    <2>2. q \in RequestType /\ q.reserved = req[r].reserved /\ q.permit = req[r].permit /\ q.who = req[r].who
      BY DEF RequestType
    <2>3. Good(q)
      BY <1>1 DEF RequestType, Good
    <2> QED
      BY <1>2, <1>3, <2>1, <2>2, <2>3, QuietStep
  <1>4. CASE PermitBack(r, FALSE) /\ req' = [req EXCEPT ![r] = Free]
    <2>1. PermitsCounted' /\ permits' \in [Principals -> 0 .. MaxInFlight]
      BY <1>4, FreeIsGood, PermitReturned
    <2> QED
      BY <1>1, <1>2, <1>4, <2>1, FreeIsGood, PermitStep
  <1> QED
    BY <1>3, <1>4 DEF Register

(* The ids a request registered are ids of clients.                          *)
LEMMA UnlistedTyped ==
  ASSUME SInv, NEW r \in Requests, Unlisted(r)
  PROVE  inFlight' \in [Sessions -> SUBSET Ids]
  <1> USE Before
  <1>1. inFlight \in [Sessions -> SUBSET Ids]
    BY DEF Tables
  <1>2. CASE req[r].listed
    <2>1. req[r].session \in Sessions
      BY <1>2 DEF Good
    <2> QED
      BY <1>1, <1>2, <2>1 DEF Unlisted
  <1> QED
    BY <1>1, <1>2 DEF Unlisted

LEMMA ServeUnknownKeeps ==
  ASSUME SInv, NEW r \in Requests, ServeUnknown(r)
  PROVE  SInv'
  <1> USE Before
  <1>1. ~req[r].reserved /\ req' = [req EXCEPT ![r] = Free] /\ PermitBack(r, FALSE)
    BY DEF ServeUnknown, Step, Good
  <1>2. Tables' /\ UNCHANGED <<pending, global, active>>
    BY UnlistedTyped DEF ServeUnknown, Tables, ActiveOnes, admission, rmcp
  <1>3. PermitsCounted' /\ permits' \in [Principals -> 0 .. MaxInFlight]
    BY <1>1, FreeIsGood, PermitReturned
  <1> QED
    BY <1>1, <1>2, <1>3, FreeIsGood, PermitStep

LEMMA ToolReturnsKeeps ==
  ASSUME SInv, NEW r \in Requests, ToolReturns(r)
  PROVE  SInv'
  <1> USE Before
  <1>1. /\ req[r].tool /\ req[r].permit /\ req[r].pc \in {"stream", "left"} /\ ~req[r].reserved /\ PermitBack(r, FALSE)
    BY DEF ToolReturns, Good
  <1>2. Tables' /\ UNCHANGED <<pending, global, active>>
    BY DEF ToolReturns, Tables, ActiveOnes, admission, rmcp
  <1>3. PICK q : q = (IF Step(r, "left") THEN Free ELSE [req[r] EXCEPT !.tool = FALSE, !.permit = FALSE])
    OBVIOUS
  <1>4. q \in RequestType /\ ~q.permit /\ ~q.reserved
    BY <1>1, <1>3, FreeIsGood DEF RequestType
  <1>5. Good(q)
    BY <1>1, <1>3, FreeIsGood DEF RequestType, Good
  <1>6. req' = [req EXCEPT ![r] = q]
    BY <1>3 DEF ToolReturns
  <1>7. PermitsCounted' /\ permits' \in [Principals -> 0 .. MaxInFlight]
    BY <1>1, <1>4, <1>6, PermitReturned
  <1> QED
    BY <1>1, <1>2, <1>4, <1>5, <1>6, <1>7, PermitStep

(* A request that ends keeps its permit while its tool runs.                 *)
LEMMA EndedIsGood ==
  ASSUME SInv, NEW r \in Requests, PermitBack(r, req[r].tool), req' = [req EXCEPT ![r] = Ended(r)]
  PROVE  /\ Ended(r) \in RequestType /\ Good(Ended(r)) /\ ~Ended(r).reserved
         /\ PermitsCounted' /\ permits' \in [Principals -> 0 .. MaxInFlight]
  <1> USE Before
  <1>1. CASE req[r].tool
    <2>1. Ended(r) = [req[r] EXCEPT !.pc = "left", !.listed = FALSE]
      BY <1>1 DEF Ended
    <2>2. req[r].permit /\ ~req[r].reserved /\ req[r].pc \in {"stream", "left"}
      BY <1>1 DEF Good
    <2>3. Ended(r) \in RequestType /\ ~Ended(r).reserved /\ Ended(r).permit /\ Ended(r).who = req[r].who
      BY <2>1, <2>2 DEF RequestType
    <2>4. Good(Ended(r))
      BY <2>1, <2>2 DEF RequestType, Good
    <2>5. PermitsCounted' /\ permits' \in [Principals -> 0 .. MaxInFlight]
      BY <1>1, <2>2, <2>3, PermitReturned DEF RequestType
    <2> QED
      BY <2>3, <2>4, <2>5
  <1>2. CASE ~req[r].tool
    <2>1. Ended(r) = Free
      BY <1>2 DEF Ended
    <2>2. PermitsCounted' /\ permits' \in [Principals -> 0 .. MaxInFlight]
      BY <1>2, <2>1, FreeIsGood, PermitReturned DEF RequestType
    <2> QED
      BY <2>1, <2>2, FreeIsGood
  <1> QED
    BY <1>1, <1>2

LEMMA EndStreamKeeps ==
  ASSUME SInv, NEW r \in Requests, EndStream(r)
  PROVE  SInv'
  <1> USE Before
  <1>1. ~req[r].reserved /\ req' = [req EXCEPT ![r] = Ended(r)] /\ PermitBack(r, req[r].tool)
    BY DEF EndStream, Step, Good
  <1>2. Tables' /\ UNCHANGED <<pending, global, active>>
    BY UnlistedTyped DEF EndStream, Tables, ActiveOnes, admission, rmcp
  <1> QED
    BY <1>1, <1>2, EndedIsGood, PermitStep

LEMMA DisconnectKeeps ==
  ASSUME SInv, NEW r \in Requests, Disconnect(r)
  PROVE  SInv'
  <1> USE Before
  <1>1. /\ req' = [req EXCEPT ![r] = Ended(r)] /\ PermitBack(r, req[r].tool) /\ Released(r)
        /\ Unlisted(r) /\ UNCHANGED <<active, stale, closing, live, born>>
    BY DEF Disconnect, rmcp
  <1>2. LeftBehind(r) \subseteq Sessions
    BY DEF LeftBehind, RequestType, Good
  <1>3. Tables'
    BY <1>1, <1>2, UnlistedTyped DEF Disconnect, Tables, ActiveOnes
  <1> QED
    BY <1>1, <1>3, EndedIsGood, ReleasingStep

(* Steps of nobody: sessions grow stale and rmcp ends them.                  *)
LEMMA TimeKeeps ==
  ASSUME SInv, (\E s \in Sessions : GoStale(s) \/ KeepAliveEnds(s)) \/ UNCHANGED vars
  PROVE  SInv'
  <1>1. Tables
    BY DEF SInv, TypeOK, Tables
  <1>2. UNCHANGED <<active, pending, global, permits, req>>
    BY DEF GoStale, KeepAliveEnds, admission, vars
  <1>3. Tables'
    <2>1. ASSUME NEW s \in Sessions, GoStale(s) PROVE Tables'
      BY <1>1, <2>1 DEF GoStale, rmcp, Tables, ActiveOnes
    <2>2. ASSUME NEW s \in Sessions, KeepAliveEnds(s) PROVE Tables'
      BY <1>1, <2>2 DEF KeepAliveEnds, admission, Tables, ActiveOnes
    <2>3. ASSUME UNCHANGED vars PROVE Tables'
      BY <1>1, <2>3 DEF vars, Tables, ActiveOnes
    <2> QED
      BY <2>1, <2>2, <2>3
  <1>4. TypeOK'
    BY <1>2, <1>3, RequestTyped, Assembled DEF SInv, TypeOK
  <1>5. ReservationsCounted' /\ PermitsCounted' /\ CapsKept'
    BY <1>2 DEF SInv, ReservationsCounted, PermitsCounted, CapsKept, Reserving, Holding, ActiveOf, ActiveOnes
  <1>6. \A r \in Requests : Good(req[r])'
    BY <1>2 DEF SInv, Good
  <1> QED
    BY <1>4, <1>5, <1>6 DEF SInv

LEMMA StepKeeps == SInv /\ [Next]_vars => SInv'
  <1> SUFFICES ASSUME SInv, [Next]_vars PROVE SInv'
    OBVIOUS
  <1>1. ASSUME NEW r \in Requests, Arrive(r) PROVE SInv'
    <2>1. ASSUME NEW p \in Principals, Reserve(r, p) PROVE SInv'
      BY <2>1, ReserveKeeps
    <2>2. ASSUME NEW p \in Principals, NEW s \in Sessions, FindExpired(r, p, s) PROVE SInv'
      BY <2>2, FindExpiredKeeps
    <2>3. ASSUME NEW p \in Principals, NEW s \in Sessions, Delete(r, p, s) PROVE SInv'
      BY <2>3, DeleteKeeps
    <2>4. ASSUME NEW p \in Principals, NEW s \in Sessions, NEW i \in Ids, Call(r, p, s, i) PROVE SInv'
      BY <2>4, CallKeeps
    <2> QED
      BY <1>1, <2>1, <2>2, <2>3, <2>4 DEF Arrive
  <1>2. ASSUME NEW r \in Requests, Proceed(r) PROVE SInv'
    BY <1>2, SweepIdsKeeps, CloseExpiredKeeps, SweptKeeps, CreateSessionKeeps, RefuseKeeps, CommitKeeps,
       AcquireKeeps, CallNoToolKeeps, RegisterKeeps, ServeKeeps, ServeUnknownKeeps, ToolReturnsKeeps,
       EndStreamKeeps, MarkClosingKeeps, DropIdsKeeps, FinishDeleteKeeps DEF Proceed
  <1>3. ASSUME NEW r \in Requests, Disconnect(r) PROVE SInv'
    BY <1>3, DisconnectKeeps
  <1> QED
    BY <1>1, <1>2, <1>3, TimeKeeps DEF Next

(* SInv holds in every state, whatever the clients and the limits.         *)
THEOREM SessionInvariance == Spec => []SInv
  BY InitKeeps, StepKeeps, PTL DEF Spec

-----------------------------------------------------------------------------
(* The tables of the admission keep to their types: no counter of reservations *)
(* or of permits goes below zero (SessionAdmission, try_acquire_tool).         *)
THEOREM TablesTyped == Spec => []TypeOK
  <1>1. SInv => TypeOK
    BY DEF SInv
  <1> QED
    BY <1>1, SessionInvariance, PTL

(* Nobody gets past a limit, and no reservation is lost or given back twice:   *)
(* of authorize_mcp's requests, however many overlap, fail and are abandoned.  *)
THEOREM NobodyPassesALimit == Spec => []LimitsKept
  <1>1. SInv => LimitsKept
    <2> SUFFICES ASSUME SInv PROVE LimitsKept
      OBVIOUS
    <2>1. ASSUME NEW p \in Principals PROVE Cardinality(Tools(p)) <= MaxInFlight
      <3>1. Tools(p) \subseteq Holding(p) /\ Holding(p) \subseteq Requests
        BY DEF SInv, Good, Tools, Holding
      <3>2. Cardinality(Tools(p)) <= Cardinality(Holding(p))
        BY <3>1, SetsAreFinite, FS_Subset
      <3>3. Cardinality(Holding(p)) \in 0 .. MaxInFlight
        BY DEF SInv, PermitsCounted, TypeOK
      <3>4. Cardinality(Tools(p)) \in Nat
        BY <3>1, SetsAreFinite
      <3> QED
        BY <3>2, <3>3, <3>4, LimitsArePositive
    <2> QED
      BY <2>1 DEF SInv, CapsKept, LimitsKept
  <1> QED
    BY <1>1, SessionInvariance, PTL

-----------------------------------------------------------------------------
(* Sessions and ids.  What is needed beside SInv: ids are only in flight for  *)
(* sessions there have been, a session about to become active is nobody's     *)
(* yet, and one that is being closed has stopped being active for good.      *)
Bounded ==
  /\ \A r \in Requests : req[r].expired # {} => req[r].pc \in {"sweep", "close"}
  /\ \A r \in Requests : req[r].session <= born /\ req[r].expired \subseteq 1 .. born
  /\ \A s \in Sessions : s > born => active[s] = None /\ inFlight[s] = {}

Fresh ==
  \A r \in Requests : req[r].pc = "answer" =>
    /\ active[req[r].session] = None /\ inFlight[req[r].session] = {}
    /\ \A q \in Requests \ {r} :
         req[q].session # req[r].session /\ req[r].session \notin req[q].expired

Gone ==
  \A r \in Requests :
    /\ \A s \in req[r].expired : active[s] = None
    /\ req[r].pc \in {"close", "drop", "remove"} => active[req[r].session] = None

KInv == Bounded /\ Fresh /\ Gone /\ IdsKeptApart /\ SessionsAreSomeones

LEMMA OtherRequests ==
  ASSUME SInv, NEW r \in Requests, NEW q, req' = [req EXCEPT ![r] = q]
  PROVE  req'[r] = q /\ \A x \in Requests \ {r} : req'[x] = req[x]
  BY RequestTyped DEF SInv

(* No session changes hands and no id comes or goes.                         *)
LEMMA IdsStay ==
  ASSUME SInv, KInv, NEW r \in Requests, NEW q \in RequestType, req' = [req EXCEPT ![r] = q],
         \A s \in Sessions : active'[s] # None => active[s] # None /\ inFlight'[s] = inFlight[s],
         q.listed = req[r].listed,
         q.listed => q.session = req[r].session /\ q.id = req[r].id
  PROVE  IdsKeptApart'
  <1>1. req'[r] = q /\ \A x \in Requests \ {r} : req'[x] = req[x]
    BY OtherRequests
  <1>2. ASSUME NEW s \in Sessions PROVE Answering(s)' = Answering(s)
    BY <1>1 DEF Answering
  <1>3. \A x \in Requests : req'[x].listed => req'[x].id = req[x].id
    BY <1>1
  <1>4. \A s \in Sessions : {req'[x].id : x \in Answering(s)} = {req[x].id : x \in Answering(s)}
    BY <1>1, <1>2, <1>3 DEF Answering
  <1>5. ASSUME NEW s \in ActiveOnes'
        PROVE  /\ inFlight'[s] = {req'[x].id : x \in Answering(s)'}
               /\ \A x, y \in Answering(s)' : req'[x].id = req'[y].id => x = y
    <2>1. s \in Sessions /\ s \in ActiveOnes /\ inFlight'[s] = inFlight[s]
      BY <1>5 DEF ActiveOnes
    <2>2. /\ inFlight[s] = {req[x].id : x \in Answering(s)}
          /\ \A x, y \in Answering(s) : req[x].id = req[y].id => x = y
      BY <2>1 DEF KInv, IdsKeptApart
    <2>3. inFlight'[s] = {req'[x].id : x \in Answering(s)'}
      BY <1>2, <1>4, <2>1, <2>2
    <2>4. \A x, y \in Answering(s)' : req'[x].id = req'[y].id => x = y
      BY <1>2, <1>3, <2>1, <2>2 DEF Answering
    <2> QED
      BY <2>3, <2>4
  <1> QED
    BY <1>5 DEF IdsKeptApart

(* A request that was listed is not any more, and takes its id with it.       *)
LEMMA IdGoes ==
  ASSUME SInv, KInv, NEW r \in Requests, NEW q \in RequestType, req' = [req EXCEPT ![r] = q],
         UNCHANGED active, Unlisted(r), ~q.listed
  PROVE  /\ IdsKeptApart'
         /\ \A s \in Sessions : inFlight'[s] \subseteq inFlight[s]
  <1> USE Before
  <1>1. req'[r] = q /\ \A x \in Requests \ {r} : req'[x] = req[x]
    BY OtherRequests
  <1>2. inFlight \in [Sessions -> SUBSET Ids]
    BY DEF Tables
  <1>3. CASE ~req[r].listed
    <2>1. req[r].listed = FALSE /\ q.listed = FALSE /\ inFlight' = inFlight
      BY <1>3 DEF Unlisted, RequestType
    <2> QED
      BY <2>1, IdsStay
  <1>4. CASE req[r].listed
    <2>1. req[r].session \in Sessions
      BY <1>4 DEF Good
    <2>2. PICK t \in Sessions : t = req[r].session
      BY <2>1
    <2>3. /\ inFlight'[t] = inFlight[t] \ {req[r].id}
          /\ \A s \in Sessions \ {t} : inFlight'[s] = inFlight[s]
      BY <1>2, <1>4, <2>2 DEF Unlisted
    <2>4. /\ Answering(t)' = Answering(t) \ {r} /\ r \in Answering(t)
          /\ \A s \in Sessions \ {t} : Answering(s)' = Answering(s) /\ r \notin Answering(s)
      BY <1>1, <1>4, <2>2 DEF Answering
    <2>5. ASSUME NEW s \in ActiveOnes'
          PROVE  /\ inFlight'[s] = {req'[x].id : x \in Answering(s)'}
                 /\ \A x, y \in Answering(s)' : req'[x].id = req'[y].id => x = y
      <3>1. s \in Sessions /\ s \in ActiveOnes
        BY <2>5 DEF ActiveOnes
      <3>2. /\ inFlight[s] = {req[x].id : x \in Answering(s)}
            /\ \A x, y \in Answering(s) : req[x].id = req[y].id => x = y
        BY <3>1 DEF KInv, IdsKeptApart
      <3>3. Answering(s)' \subseteq Answering(s) /\ r \notin Answering(s)'
        BY <2>4, <3>1
      <3>4. \A x \in Answering(s)' : req'[x] = req[x] /\ x \in Requests
        BY <1>1, <3>3 DEF Answering
      <3>5. CASE s = t
        <4>1. \A x \in Answering(t) : req[x].id = req[r].id => x = r
          BY <2>4, <3>2, <3>5
        <4> QED
          BY <2>3, <2>4, <3>2, <3>3, <3>4, <3>5, <4>1
      <3>6. CASE s # t
        BY <2>3, <2>4, <3>1, <3>2, <3>4, <3>6
      <3> QED
        BY <3>5, <3>6
    <2>6. \A s \in Sessions : inFlight'[s] \subseteq inFlight[s]
      BY <2>3
    <2> QED
      BY <2>5, <2>6 DEF IdsKeptApart
  <1> QED
    BY <1>3, <1>4

(* Steps of a request that neither opens nor closes a session, nor ends as    *)
(* one that does.                                                           *)
LEMMA BystanderStep ==
  ASSUME SInv, KInv, NEW r \in Requests, NEW q \in RequestType, req' = [req EXCEPT ![r] = q],
         req[r].pc \notin {"close", "drop", "remove", "answer"}, req[r].expired = {},
         q.pc \notin {"close", "drop", "remove", "answer"}, q.expired = {},
         \/ q.session \in {0, req[r].session}
         \/ q.session \in ActiveOnes,
         UNCHANGED <<active, closing, live, born>>, orphans \subseteq orphans',
         \A s \in Sessions : s # req[r].session => inFlight'[s] \subseteq inFlight[s],
         IdsKeptApart'
  PROVE  KInv'
  <1> USE Before
  <1>1. req'[r] = q /\ \A x \in Requests \ {r} : req'[x] = req[x]
    BY OtherRequests
  <1>2. born \in Nat /\ \A x \in Requests : req[x].session \in Nat /\ req[x].expired \subseteq Sessions
    BY LimitsArePositive DEF Tables, RequestType, Sessions
  <1>3. q.session <= born /\ q.session \in Nat
    <2>1. CASE q.session \in {0, req[r].session}
      BY <1>2, <2>1 DEF KInv, Bounded
    <2>2. CASE q.session \in ActiveOnes
      BY <1>2, <2>2 DEF KInv, Bounded, ActiveOnes, Sessions
    <2> QED
      BY <2>1, <2>2
  <1>4. Bounded'
    <2>1. ASSUME NEW s \in Sessions, s > born PROVE inFlight'[s] = {}
      <3>1. s # req[r].session
        BY <1>2, <2>1 DEF KInv, Bounded, Sessions
      <3>2. inFlight[s] = {}
        BY <2>1 DEF KInv, Bounded
      <3> QED
        BY <3>1, <3>2
    <2> QED
      BY <1>1, <1>3, <2>1 DEF KInv, Bounded
  <1>5. Fresh'
    <2> SUFFICES ASSUME NEW x \in Requests, req'[x].pc = "answer"
                 PROVE  /\ active'[req'[x].session] = None /\ inFlight'[req'[x].session] = {}
                        /\ \A y \in Requests \ {x} :
                             req'[y].session # req'[x].session /\ req'[x].session \notin req'[y].expired
      BY DEF Fresh
    <2>1. x # r /\ req'[x] = req[x] /\ req[x].pc = "answer"
      BY <1>1
    <2>2. /\ active[req[x].session] = None /\ inFlight[req[x].session] = {}
          /\ \A y \in Requests \ {x} :
               req[y].session # req[x].session /\ req[x].session \notin req[y].expired
      BY <2>1 DEF KInv, Fresh
    <2>3. req[x].session \in Sessions
      BY <2>1 DEF Good
    <2>4. q.session # req[x].session
      BY <2>1, <2>2, <2>3 DEF ActiveOnes, Sessions
    <2>5. inFlight'[req[x].session] = {}
      BY <2>1, <2>2, <2>3
    <2> QED
      BY <1>1, <2>1, <2>2, <2>4, <2>5
  <1>6. Gone'
    BY <1>1 DEF KInv, Gone
  <1>7. SessionsAreSomeones'
    <2>1. \A s : Closers(s) \subseteq Closers(s)'
      BY <1>1 DEF Closers
    <2>2. \A s : (\E x \in Requests : req[x].session = s /\ Step(x, "answer"))
                   => \E x \in Requests : req'[x].session = s /\ Step(x, "answer")'
      BY <1>1 DEF Step
    <2> QED
      BY <2>1, <2>2 DEF KInv, SessionsAreSomeones
  <1> QED
    BY <1>4, <1>5, <1>6, <1>7 DEF KInv

LEMMA CallBoth ==
  ASSUME SInv, KInv, NEW r \in Requests, NEW p \in Principals, NEW s \in Sessions,
         Delete(r, p, s) \/ (\E i \in Ids : Call(r, p, s, i))
  PROVE  KInv'
  <1> USE Before
  <1>1. PICK q \in RequestType :
          /\ req' = [req EXCEPT ![r] = q] /\ q.pc \in {"acquire", "mark"} /\ q.expired = {}
          /\ q.session = s /\ q.listed = FALSE
    <2>2. CASE Delete(r, p, s)
      <3> DEFINE q == [Free EXCEPT !.pc = "mark", !.who = p, !.session = s]
      <3>1. q \in RequestType /\ q.pc = "mark" /\ q.expired = {} /\ q.session = s /\ q.listed = FALSE
        BY DEF Free, RequestType
      <3> QED
        BY <2>2, <3>1 DEF Delete, OnSession
    <2>3. CASE \E i \in Ids : Call(r, p, s, i)
      <3>2. PICK i \in Ids : Call(r, p, s, i)
        BY <2>3
      <3> DEFINE q == [Free EXCEPT !.pc = "acquire", !.who = p, !.session = s, !.id = i]
      <3>1. q \in RequestType /\ q.pc = "acquire" /\ q.expired = {} /\ q.session = s /\ q.listed = FALSE
        BY DEF Free, RequestType
      <3> QED
        BY <3>1, <3>2 DEF Call, OnSession
    <2> QED
      BY <2>2, <2>3
  <1>2. /\ req[r].pc = "idle" /\ active[s] = p
        /\ UNCHANGED <<active, stale, closing, pending, global, inFlight, permits, live, born, orphans>>
    BY DEF Delete, Call, OnSession, Validate, Step, admission, rmcp
  <1>3. req[r].expired = {} /\ req[r].listed = FALSE
    BY <1>2 DEF KInv, Bounded, Good, RequestType
  <1>4. s \in ActiveOnes
    BY <1>2, NoneIsNobody DEF ActiveOnes
  <1>5. IdsKeptApart'
    BY <1>1, <1>2, <1>3, IdsStay
  <1> QED
    BY <1>1, <1>2, <1>3, <1>4, <1>5, BystanderStep

LEMMA SweptKInv ==
  ASSUME SInv, KInv, NEW r \in Requests, Swept(r) \/ RefuseSession(r)
  PROVE  KInv'
  <1> USE Before
  <1>1. PICK q \in RequestType :
          /\ req' = [req EXCEPT ![r] = q] /\ q.pc \in {"create", "idle"} /\ q.expired = {}
          /\ q.session \in {0, req[r].session} /\ q.listed = FALSE
    <2>1. req[r].listed = FALSE /\ req[r].pc \in {"sweep", "create"}
      BY DEF Swept, RefuseSession, Step, Good, RequestType
    <2>2. Free \in RequestType /\ Free.pc = "idle" /\ Free.expired = {} /\ Free.session = 0 /\ Free.listed = FALSE
      BY FreeIsGood DEF Free
    <2>3. CASE req[r].expired = {}
      <3> DEFINE q == [req[r] EXCEPT !.pc = "create"]
      <3>1. q \in RequestType /\ q.pc = "create" /\ q.expired = {} /\ q.session = req[r].session /\ q.listed = FALSE
        BY <2>1, <2>3 DEF RequestType
      <3> QED
        BY <2>2, <3>1 DEF Swept, RefuseSession
    <2>4. CASE req[r].expired # {}
      BY <2>1, <2>2, <2>4 DEF Swept, RefuseSession
    <2> QED
      BY <2>3, <2>4
  <1>2. /\ req[r].pc \in {"sweep", "create"} /\ req[r].expired = {} /\ req[r].listed = FALSE
        /\ UNCHANGED <<active, stale, closing, inFlight, permits, live, born, orphans>>
    BY DEF Swept, RefuseSession, Step, admission, rmcp, KInv, Bounded, Good, RequestType
  <1>3. IdsKeptApart'
    BY <1>1, <1>2, IdsStay
  <1> QED
    BY <1>1, <1>2, <1>3, BystanderStep

(* Steps of a call that leave the ids alone.                                 *)
LEMMA CallStepKInv ==
  ASSUME SInv, KInv, NEW r \in Requests, Acquire(r) \/ CallNoTool(r) \/ Serve(r) \/ ToolReturns(r)
  PROVE  KInv'
  <1> USE Before
  <1>1. req[r].pc \in {"acquire", "serve", "stream", "left"}
    BY DEF Acquire, CallNoTool, Serve, ToolReturns, Step, Good
  <1>2. req[r].expired = {} /\ (req[r].pc \in {"acquire", "left"} => req[r].listed = FALSE)
    BY <1>1 DEF KInv, Bounded, Good, RequestType
  <1>3. PICK q \in RequestType :
          /\ req' = [req EXCEPT ![r] = q] /\ q.pc \in {"list", "idle", "stream"} /\ q.expired = {}
          /\ q.session \in {0, req[r].session} /\ q.listed = req[r].listed
          /\ q.listed => q.session = req[r].session /\ q.id = req[r].id
    <2>1. Free \in RequestType /\ Free.pc = "idle" /\ Free.expired = {} /\ Free.session = 0 /\ Free.listed = FALSE
      BY FreeIsGood DEF Free
    <2>2. ASSUME NEW q, q = [req[r] EXCEPT !.pc = "list"]
          PROVE  /\ q \in RequestType /\ q.pc = "list" /\ q.expired = {} /\ q.session = req[r].session
                 /\ q.listed = req[r].listed /\ q.id = req[r].id
      BY <1>2, <2>2 DEF RequestType
    <2>3. ASSUME NEW q, q = [req[r] EXCEPT !.pc = "list", !.permit = TRUE]
          PROVE  /\ q \in RequestType /\ q.pc = "list" /\ q.expired = {} /\ q.session = req[r].session
                 /\ q.listed = req[r].listed /\ q.id = req[r].id
      BY <1>2, <2>3 DEF RequestType
    <2>4. ASSUME NEW q, q = [req[r] EXCEPT !.pc = "stream", !.tool = req[r].permit]
          PROVE  /\ q \in RequestType /\ q.pc = "stream" /\ q.expired = {} /\ q.session = req[r].session
                 /\ q.listed = req[r].listed /\ q.id = req[r].id
      BY <1>2, <2>4 DEF RequestType
    <2>5. ASSUME NEW q, q = [req[r] EXCEPT !.tool = FALSE, !.permit = FALSE]
          PROVE  /\ q \in RequestType /\ q.pc = req[r].pc /\ q.expired = {} /\ q.session = req[r].session
                 /\ q.listed = req[r].listed /\ q.id = req[r].id
      BY <1>2, <2>5 DEF RequestType
    <2>6. CASE Acquire(r)
      <3>1. req[r].listed = FALSE
        BY <1>2, <2>6 DEF Acquire, Step
      <3>2. CASE req' = [req EXCEPT ![r] = [req[r] EXCEPT !.pc = "list", !.permit = TRUE]]
        BY <2>3, <3>2
      <3>3. CASE req' = [req EXCEPT ![r] = Free]
        BY <2>1, <3>1, <3>3
      <3> QED
        BY <2>6, <3>2, <3>3 DEF Acquire
    <2>7. CASE CallNoTool(r)
      BY <2>2, <2>7 DEF CallNoTool
    <2>8. CASE Serve(r)
      BY <2>4, <2>8 DEF Serve
    <2>9. CASE ToolReturns(r)
      <3>1. CASE req[r].pc = "left"
        <4>1. req' = [req EXCEPT ![r] = Free] /\ req[r].listed = FALSE
          BY <1>2, <2>9, <3>1 DEF ToolReturns, Step
        <4> QED
          BY <2>1, <4>1
      <3>2. CASE req[r].pc # "left"
        <4>1. req' = [req EXCEPT ![r] = [req[r] EXCEPT !.tool = FALSE, !.permit = FALSE]] /\ req[r].pc = "stream"
          BY <2>9, <3>2 DEF ToolReturns, Step, Good
        <4> QED
          BY <2>5, <4>1
      <3> QED
        BY <3>1, <3>2
    <2> QED
      BY <2>6, <2>7, <2>8, <2>9
  <1>4. UNCHANGED <<active, stale, closing, inFlight, live, born, orphans>>
    BY DEF Acquire, CallNoTool, Serve, ToolReturns, admission, rmcp
  <1>5. IdsKeptApart'
    BY <1>3, <1>4, IdsStay
  <1> QED
    BY <1>1, <1>2, <1>3, <1>4, <1>5, BystanderStep

(* Steps that take a listed request off the list.                            *)
LEMMA UnlistingKInv ==
  ASSUME SInv, KInv, NEW r \in Requests,
         \/ ServeUnknown(r)
         \/ EndStream(r)
         \/ Disconnect(r) /\ req[r].pc \in {"serve", "stream", "create"}
  PROVE  KInv'
  <1> USE Before
  <1>1. /\ req[r].pc \in {"serve", "stream", "create"} /\ req[r].expired = {} /\ Unlisted(r)
        /\ UNCHANGED <<active, stale, closing, live, born>> /\ orphans \subseteq orphans'
    BY DEF ServeUnknown, EndStream, Disconnect, Step, admission, rmcp, KInv, Bounded
  <1>2. /\ Free \in RequestType /\ Free.pc = "idle" /\ Free.expired = {} /\ Free.session = 0 /\ Free.listed = FALSE
    BY FreeIsGood DEF Free
  <1>3. PICK q \in RequestType :
          /\ req' = [req EXCEPT ![r] = q] /\ q.pc \in {"idle", "left"} /\ q.expired = {}
          /\ q.session \in {0, req[r].session} /\ q.listed = FALSE
    <2>1. ASSUME NEW q, q = [req[r] EXCEPT !.pc = "left", !.listed = FALSE]
          PROVE  q \in RequestType /\ q.pc = "left" /\ q.expired = {} /\ q.session = req[r].session /\ q.listed = FALSE
      BY <1>1, <2>1 DEF RequestType
    <2>2. \/ req' = [req EXCEPT ![r] = Free]
          \/ req' = [req EXCEPT ![r] = [req[r] EXCEPT !.pc = "left", !.listed = FALSE]]
      BY DEF ServeUnknown, EndStream, Disconnect, Ended
    <2> QED
      BY <1>2, <2>1, <2>2
  <1>4. IdsKeptApart' /\ \A s \in Sessions : inFlight'[s] \subseteq inFlight[s]
    BY <1>1, <1>3, IdGoes
  <1> QED
    BY <1>1, <1>3, <1>4, BystanderStep

(* An id is registered: on an active session, nobody has it.                 *)
LEMMA RegisterKInv ==
  ASSUME SInv, KInv, NEW r \in Requests, Register(r)
  PROVE  KInv'
  <1> USE Before
  <1>1. /\ req[r].pc = "list" /\ req[r].expired = {} /\ req[r].listed = FALSE
        /\ req[r].session \in Sessions /\ req[r].id \in Ids
        /\ UNCHANGED <<active, stale, closing, live, born, orphans>>
    BY DEF Register, Step, admission, rmcp, KInv, Bounded, Good, RequestType
  <1>2. CASE req' = [req EXCEPT ![r] = Free] /\ UNCHANGED inFlight
    <2>1. Free \in RequestType /\ Free.pc = "idle" /\ Free.expired = {} /\ Free.session = 0 /\ Free.listed = FALSE
      BY FreeIsGood DEF Free
    <2>2. IdsKeptApart'
      BY <1>1, <1>2, <2>1, IdsStay
    <2> QED
      BY <1>1, <1>2, <2>1, <2>2, BystanderStep
  <1>3. CASE /\ req[r].id \notin inFlight[req[r].session]
             /\ inFlight' = [inFlight EXCEPT ![req[r].session] = @ \cup {req[r].id}]
             /\ req' = [req EXCEPT ![r].pc = "serve", ![r].listed = TRUE]
    <2> DEFINE q == [req[r] EXCEPT !.pc = "serve", !.listed = TRUE]
    <2>1. q \in RequestType /\ q.pc = "serve" /\ q.expired = {} /\ q.session = req[r].session /\ q.listed
          /\ q.id = req[r].id
      BY <1>1 DEF RequestType
    <2>2. req' = [req EXCEPT ![r] = q]
      BY <1>3
    <2> HIDE DEF q
    <2>3. req'[r] = q /\ \A x \in Requests \ {r} : req'[x] = req[x]
      BY <2>2, OtherRequests
    <2>4. PICK t \in Sessions : t = req[r].session
      BY <1>1
    <2>5. /\ inFlight'[t] = inFlight[t] \cup {req[r].id}
          /\ \A s \in Sessions \ {t} : inFlight'[s] = inFlight[s]
      BY <1>3, <2>4 DEF Tables
    <2>6. /\ Answering(t)' = Answering(t) \cup {r} /\ r \notin Answering(t)
          /\ \A s \in Sessions \ {t} : Answering(s)' = Answering(s) /\ r \notin Answering(s)
      BY <1>1, <2>1, <2>3, <2>4 DEF Answering
    <2>7. ASSUME NEW s \in ActiveOnes'
          PROVE  /\ inFlight'[s] = {req'[x].id : x \in Answering(s)'}
                 /\ \A x, y \in Answering(s)' : req'[x].id = req'[y].id => x = y
      <3>1. s \in Sessions /\ s \in ActiveOnes
        BY <1>1, <2>7 DEF ActiveOnes
      <3>2. /\ inFlight[s] = {req[x].id : x \in Answering(s)}
            /\ \A x, y \in Answering(s) : req[x].id = req[y].id => x = y
        BY <3>1 DEF KInv, IdsKeptApart
      <3>3. \A x \in Answering(s) : x # r /\ req'[x] = req[x]
        BY <2>3, <2>6, <3>1 DEF Answering
      <3>4. CASE s = t
        <4>1. \A x \in Answering(t) : req[x].id # req[r].id
          BY <1>3, <2>4, <3>2, <3>4
        <4>2. req'[r].id = req[r].id
          BY <2>1, <2>3
        <4> QED
          BY <2>5, <2>6, <3>2, <3>3, <3>4, <4>1, <4>2
      <3>5. CASE s # t
        BY <2>5, <2>6, <3>1, <3>2, <3>3, <3>5
      <3> QED
        BY <3>4, <3>5
    <2>8. \A s \in Sessions : s # req[r].session => inFlight'[s] \subseteq inFlight[s]
      BY <2>4, <2>5
    <2> QED
      BY <1>1, <2>1, <2>2, <2>7, <2>8, BystanderStep DEF IdsKeptApart
  <1> QED
    BY <1>2, <1>3 DEF Register

(* Who may close a session, after r has changed from its state to q.         *)
LEMMA ClosersAfter ==
  ASSUME SInv, NEW r \in Requests, NEW q, req' = [req EXCEPT ![r] = q]
  PROVE  /\ \A s : Closers(s) \ {r} \subseteq Closers(s)'
         /\ \A s \in q.expired : r \in Closers(s)'
         /\ q.pc \in {"close", "drop", "remove"} => r \in Closers(q.session)'
         /\ \A s : r \in Closers(s) =>
              \/ s \in req[r].expired
              \/ s = req[r].session /\ req[r].pc \in {"close", "drop", "remove"}
  BY OtherRequests DEF Closers

(* Sessions s cease to be active, and r is to close them.                    *)
LEMMA ClosingStep ==
  ASSUME SInv, KInv, NEW r \in Requests, NEW q \in RequestType, req' = [req EXCEPT ![r] = q],
         NEW S \in SUBSET Sessions, S \subseteq 1 .. born,
         req[r].pc \in {"idle", "mark"}, req[r].listed = FALSE, q.listed = FALSE,
         \A s \in Sessions : active'[s] = IF s \in S THEN None ELSE active[s],
         closing' = closing \cup S, UNCHANGED <<inFlight, live, born, orphans>>,
         \A s \in S : \A x \in Requests : req[x].pc = "answer" => req[x].session # s,
         \/ q.pc = "sweep" /\ q.session = 0 /\ q.expired = S
         \/ q.pc = "drop" /\ q.session = req[r].session /\ q.expired = {} /\ S = {q.session}
  PROVE  KInv'
  <1> USE Before
  <1>1. req'[r] = q /\ \A x \in Requests \ {r} : req'[x] = req[x]
    BY OtherRequests
  <1>2. born \in Nat /\ req[r].expired = {}
    BY LimitsArePositive DEF Tables, KInv, Bounded
  <1>3. Bounded'
    <2>1. q.expired # {} => q.pc \in {"sweep", "close"}
      OBVIOUS
    <2>2. q.session <= born /\ q.expired \subseteq 1 .. born
      <3>1. req[r].session <= born /\ 0 <= born
        BY <1>2 DEF KInv, Bounded
      <3>2. CASE q.session = 0 /\ q.expired = S
        BY <3>1, <3>2
      <3>3. CASE q.session = req[r].session /\ q.expired = {}
        BY <3>1, <3>3
      <3> QED
        BY <3>2, <3>3
    <2>3. \A s \in Sessions : s > born => active'[s] = None /\ inFlight'[s] = {}
      BY DEF KInv, Bounded
    <2>4. born' = born
      OBVIOUS
    <2> QED
      BY <1>1, <2>1, <2>2, <2>3, <2>4 DEF KInv, Bounded
  <1>4. Fresh'
    <2> SUFFICES ASSUME NEW x \in Requests, req'[x].pc = "answer"
                 PROVE  /\ active'[req'[x].session] = None /\ inFlight'[req'[x].session] = {}
                        /\ \A y \in Requests \ {x} :
                             req'[y].session # req'[x].session /\ req'[x].session \notin req'[y].expired
      BY DEF Fresh
    <2>1. x # r /\ req'[x] = req[x] /\ req[x].pc = "answer" /\ req[x].session \in Sessions
      BY <1>1 DEF Good
    <2>2. /\ active[req[x].session] = None /\ inFlight[req[x].session] = {}
          /\ \A y \in Requests \ {x} :
               req[y].session # req[x].session /\ req[x].session \notin req[y].expired
      BY <2>1 DEF KInv, Fresh
    <2>3. q.session # req[x].session /\ req[x].session \notin q.expired
      BY <2>1, <2>2 DEF Sessions
    <2> QED
      BY <1>1, <2>1, <2>2, <2>3
  <1>5. Gone'
    <2> SUFFICES ASSUME NEW x \in Requests
                 PROVE  /\ \A s \in req'[x].expired : active'[s] = None
                        /\ req'[x].pc \in {"close", "drop", "remove"} => active'[req'[x].session] = None
      BY DEF Gone
    <2>1. CASE x = r
      BY <1>1, <2>1
    <2>2. CASE x # r
      <3>1. /\ \A s \in req[x].expired : active[s] = None
            /\ req[x].pc \in {"close", "drop", "remove"} => active[req[x].session] = None
        BY DEF KInv, Gone
      <3>2. req[x].expired \subseteq Sessions /\ (req[x].pc \in {"close", "drop", "remove"} => req[x].session \in Sessions)
        BY DEF RequestType, Good
      <3> QED
        BY <1>1, <2>2, <3>1, <3>2
    <2> QED
      BY <2>1, <2>2
  <1>6. IdsKeptApart'
    <2>1. \A s \in Sessions : active'[s] # None => active[s] # None
      OBVIOUS
    <2> QED
      BY <2>1, IdsStay
  <1>7. SessionsAreSomeones'
    <2>1. /\ \A s : Closers(s) \subseteq Closers(s)'
          /\ \A s \in S : r \in Closers(s)'
      BY <1>2, ClosersAfter
    <2>2. ASSUME NEW s \in live' \ orphans'
          PROVE  \/ active'[s] # None
                 \/ Closers(s)' # {}
                 \/ \E x \in Requests : req'[x].session = s /\ Step(x, "answer")'
      <3>1. s \in Sessions
        <4>1. s \in 1 .. born /\ born <= MaxSessions /\ MaxSessions \in Nat
          BY <2>2, LimitsArePositive DEF Tables
        <4> QED
          BY <1>2, <4>1 DEF Sessions
      <3>2. \/ active[s] # None
            \/ Closers(s) # {}
            \/ \E x \in Requests : req[x].session = s /\ Step(x, "answer")
        BY <2>2 DEF KInv, SessionsAreSomeones
      <3>3. \A x \in Requests : Step(x, "answer") => req'[x] = req[x] /\ Step(x, "answer")'
        BY <1>1 DEF Step
      <3> QED
        BY <2>1, <3>1, <3>2, <3>3
    <2>3. ASSUME NEW s \in closing' \ orphans'
          PROVE  Closers(s)' # {}
      <3>1. CASE s \in S
        BY <2>1, <3>1
      <3>2. CASE s \notin S
        <4>1. s \in closing \ orphans
          BY <2>3, <3>2
        <4>2. Closers(s) # {}
          BY <4>1 DEF KInv, SessionsAreSomeones
        <4> QED
          BY <2>1, <4>2
      <3> QED
        BY <3>1, <3>2
    <2> QED
      BY <2>2, <2>3 DEF SessionsAreSomeones
  <1> QED
    BY <1>3, <1>4, <1>5, <1>6, <1>7 DEF KInv

LEMMA ReserveKInv ==
  ASSUME SInv, KInv, NEW r \in Requests, NEW p \in Principals, Reserve(r, p)
  PROVE  KInv'
  <1> USE Before
  <1>1. req[r].pc = "idle" /\ UNCHANGED <<inFlight, live, born, orphans>> /\ closing' = closing \cup stale
    BY DEF Reserve, Step, rmcp
  <1>2. req[r].listed = FALSE
    BY <1>1 DEF Good, RequestType
  <1>3. stale \subseteq ActiveOnes /\ ActiveOnes \subseteq Sessions /\ born \in Nat
    BY LimitsArePositive DEF Tables, ActiveOnes
  <1>4. stale \subseteq 1 .. born
    BY <1>3 DEF KInv, Bounded, ActiveOnes, Sessions
  <1>5. PICK q \in RequestType :
          req' = [req EXCEPT ![r] = q] /\ q.pc = "sweep" /\ q.session = 0 /\ q.expired = stale /\ q.listed = FALSE
    <2>1. ASSUME NEW q, \/ q = [Free EXCEPT !.pc = "sweep", !.who = p, !.expired = stale]
                        \/ q = [Free EXCEPT !.pc = "sweep", !.who = p, !.expired = stale, !.reserved = TRUE]
          PROVE  q \in RequestType /\ q.pc = "sweep" /\ q.session = 0 /\ q.expired = stale /\ q.listed = FALSE
      BY <1>3, <2>1 DEF Free, RequestType
    <2> QED
      BY <2>1 DEF Reserve
  <1>6. \A s \in stale : \A x \in Requests : req[x].pc = "answer" => req[x].session # s
    BY <1>3 DEF KInv, Fresh, ActiveOnes
  <1>7. \A s \in Sessions : active'[s] = IF s \in stale THEN None ELSE active[s]
    BY DEF Reserve, WithoutStale
  <1> QED
    BY <1>1, <1>2, <1>3, <1>4, <1>5, <1>6, <1>7, ClosingStep

LEMMA FindExpiredKInv ==
  ASSUME SInv, KInv, NEW r \in Requests, NEW p \in Principals, NEW s \in Sessions, FindExpired(r, p, s)
  PROVE  KInv'
  <1> USE Before
  <1>1. /\ req[r].pc = "idle" /\ UNCHANGED <<inFlight, live, born, orphans>> /\ closing' = closing \cup {s}
        /\ active' = [active EXCEPT ![s] = None]
    BY DEF FindExpired, Step, rmcp
  <1>2. req[r].listed = FALSE
    BY <1>1 DEF Good, RequestType
  <1>3. s \in ActiveOnes /\ born \in Nat
    BY LimitsArePositive DEF FindExpired, Tables
  <1>4. {s} \subseteq 1 .. born
    BY <1>3 DEF KInv, Bounded, ActiveOnes, Sessions
  <1>5. PICK q \in RequestType :
          req' = [req EXCEPT ![r] = q] /\ q.pc = "sweep" /\ q.session = 0 /\ q.expired = {s} /\ q.listed = FALSE
    <2> DEFINE q == [Free EXCEPT !.pc = "sweep", !.who = p, !.expired = {s}]
    <2>1. q \in RequestType /\ q.pc = "sweep" /\ q.session = 0 /\ q.expired = {s} /\ q.listed = FALSE
      BY DEF Free, RequestType
    <2> QED
      BY <2>1 DEF FindExpired
  <1>6. \A x \in Requests : req[x].pc = "answer" => req[x].session # s
    BY <1>3 DEF KInv, Fresh, ActiveOnes
  <1>7. \A x \in Sessions : active'[x] = IF x \in {s} THEN None ELSE active[x]
    BY <1>1 DEF Tables
  <1>8. closing' = closing \cup {s} /\ \A y \in {s} : \A x \in Requests : req[x].pc = "answer" => req[x].session # y
    BY <1>1, <1>6
  <1> QED
    BY <1>1, <1>2, <1>4, <1>5, <1>7, <1>8, ClosingStep

LEMMA MarkClosingKInv ==
  ASSUME SInv, KInv, NEW r \in Requests, MarkClosing(r)
  PROVE  KInv'
  <1> USE Before
  <1>1. req[r].pc = "mark" /\ UNCHANGED <<inFlight, live, born, orphans>>
    BY DEF MarkClosing, Step, rmcp
  <1>2. req[r].listed = FALSE /\ req[r].expired = {} /\ req[r].session \in Sessions
    BY <1>1 DEF Good, RequestType, KInv, Bounded
  <1>3. PICK s \in Sessions : s = req[r].session
    BY <1>2
  <1>4. {s} \subseteq 1 .. born
    BY <1>3, LimitsArePositive DEF KInv, Bounded, Sessions, Tables
  <1>5. PICK q \in RequestType :
          req' = [req EXCEPT ![r] = q] /\ q.pc = "drop" /\ q.session = s /\ q.expired = {} /\ q.listed = FALSE
    <2> DEFINE q == [req[r] EXCEPT !.pc = "drop"]
    <2>1. q \in RequestType /\ q.pc = "drop" /\ q.session = s /\ q.expired = {} /\ q.listed = FALSE
      BY <1>2, <1>3 DEF RequestType
    <2> QED
      BY <2>1 DEF MarkClosing
  <1>6. \A y \in {s} : \A x \in Requests : req[x].pc = "answer" => req[x].session # y
    BY <1>1, <1>3 DEF KInv, Fresh
  <1>7. \A x \in Sessions : active'[x] = IF x \in {s} THEN None ELSE active[x]
    BY <1>3 DEF MarkClosing, Tables
  <1>8. closing' = closing \cup {s}
    BY <1>3 DEF MarkClosing
  <1> QED
    BY <1>1, <1>2, <1>3, <1>4, <1>5, <1>6, <1>7, <1>8, ClosingStep

(* A request that closes sessions goes on, or ends and leaves none behind.    *)
LEMMA CloserStep ==
  ASSUME SInv, KInv, NEW r \in Requests, NEW q \in RequestType, req' = [req EXCEPT ![r] = q],
         req[r].listed = FALSE, q.listed = FALSE, q.pc # "answer",
         q.session \in {0, req[r].session} \cup req[r].expired, q.expired \subseteq req[r].expired,
         q.expired # {} => q.pc \in {"sweep", "close"},
         q.pc \in {"close", "drop", "remove"} =>
           \/ q.session \in req[r].expired
           \/ req[r].pc \in {"close", "drop", "remove"} /\ q.session = req[r].session,
         UNCHANGED <<active, born>>, live' \subseteq live, closing' \subseteq closing, orphans \subseteq orphans',
         \A s \in Sessions : inFlight'[s] = inFlight[s] \/ (inFlight'[s] = {} /\ active[s] = None),
         \A s : r \in Closers(s) => r \in Closers(s)' \/ s \in orphans' \/ s \notin live' \cup closing',
         req[r].pc = "answer" => req[r].session \in orphans' \/ req[r].session \notin live'
  PROVE  KInv'
  <1> USE Before
  <1>1. req'[r] = q /\ \A x \in Requests \ {r} : req'[x] = req[x]
    BY OtherRequests
  <1>2. born \in Nat /\ \A x \in Requests : req[x].session \in Nat /\ req[x].expired \subseteq Sessions
    BY LimitsArePositive DEF Tables, RequestType, Sessions
  <1>3. Bounded'
    <2>1. q.session <= born /\ q.expired \subseteq 1 .. born
      BY <1>2 DEF KInv, Bounded
    <2> QED
      BY <1>1, <2>1 DEF KInv, Bounded
  <1>4. Fresh'
    <2> SUFFICES ASSUME NEW x \in Requests, req'[x].pc = "answer"
                 PROVE  /\ active'[req'[x].session] = None /\ inFlight'[req'[x].session] = {}
                        /\ \A y \in Requests \ {x} :
                             req'[y].session # req'[x].session /\ req'[x].session \notin req'[y].expired
      BY DEF Fresh
    <2>1. x # r /\ req'[x] = req[x] /\ req[x].pc = "answer" /\ req[x].session \in Sessions
      BY <1>1 DEF Good
    <2>2. /\ active[req[x].session] = None /\ inFlight[req[x].session] = {}
          /\ \A y \in Requests \ {x} :
               req[y].session # req[x].session /\ req[x].session \notin req[y].expired
      BY <2>1 DEF KInv, Fresh
    <2>3. q.session # req[x].session /\ req[x].session \notin q.expired
      BY <2>1, <2>2 DEF Sessions
    <2> QED
      BY <1>1, <2>1, <2>2, <2>3
  <1>5. Gone'
    BY <1>1 DEF KInv, Gone
  <1>6. IdsKeptApart'
    <2>1. \A s \in Sessions : active'[s] # None => active[s] # None /\ inFlight'[s] = inFlight[s]
      OBVIOUS
    <2> QED
      BY <2>1, IdsStay
  <1>7. SessionsAreSomeones'
    <2>1. \A s : Closers(s) \ {r} \subseteq Closers(s)'
      BY ClosersAfter
    <2>2. ASSUME NEW s \in live' \ orphans'
          PROVE  \/ active'[s] # None
                 \/ Closers(s)' # {}
                 \/ \E x \in Requests : req'[x].session = s /\ Step(x, "answer")'
      <3>1. \/ active[s] # None
            \/ Closers(s) # {}
            \/ \E x \in Requests : req[x].session = s /\ Step(x, "answer")
        BY <2>2 DEF KInv, SessionsAreSomeones
      <3>2. CASE Closers(s) # {}
        BY <2>1, <2>2, <3>2
      <3>3. CASE \E x \in Requests : req[x].session = s /\ Step(x, "answer")
        <4>1. PICK x \in Requests : req[x].session = s /\ req[x].pc = "answer"
          BY <3>3 DEF Step
        <4>2. x # r
          BY <2>2, <4>1
        <4> QED
          BY <1>1, <4>1, <4>2 DEF Step
      <3> QED
        BY <3>1, <3>2, <3>3
    <2>3. \A s \in closing' \ orphans' : Closers(s)' # {}
      BY <2>1 DEF KInv, SessionsAreSomeones
    <2> QED
      BY <2>2, <2>3 DEF SessionsAreSomeones
  <1> QED
    BY <1>3, <1>4, <1>5, <1>6, <1>7 DEF KInv

LEMMA SweepIdsKInv ==
  ASSUME SInv, KInv, NEW r \in Requests, SweepIds(r)
  PROVE  KInv'
  <1> USE Before
  <1>1. PICK s \in req[r].expired :
          /\ inFlight' = [inFlight EXCEPT ![s] = {}]
          /\ req' = [req EXCEPT ![r].pc = "close", ![r].session = s, ![r].expired = @ \ {s}]
    BY DEF SweepIds
  <1>2. /\ req[r].pc = "sweep" /\ req[r].listed = FALSE /\ s \in Sessions /\ active[s] = None
        /\ UNCHANGED <<active, closing, live, born, orphans>>
    BY DEF SweepIds, Step, admission, rmcp, KInv, Gone, RequestType, Good
  <1> DEFINE q == [req[r] EXCEPT !.pc = "close", !.session = s, !.expired = @ \ {s}]
  <1>3. /\ q \in RequestType /\ q.pc = "close" /\ q.session = s /\ q.expired = req[r].expired \ {s}
        /\ q.listed = FALSE
    BY <1>2 DEF RequestType
  <1>4. req' = [req EXCEPT ![r] = q]
    BY <1>1
  <1>5. \A x \in Sessions : inFlight'[x] = inFlight[x] \/ (inFlight'[x] = {} /\ active[x] = None)
    BY <1>1, <1>2 DEF Tables
  <1> HIDE DEF q
  <1>6. \A x : r \in Closers(x) => r \in Closers(x)'
    BY <1>2, <1>3, <1>4, ClosersAfter
  <1> QED
    BY <1>1, <1>2, <1>3, <1>4, <1>5, <1>6, CloserStep

LEMMA DropIdsKInv ==
  ASSUME SInv, KInv, NEW r \in Requests, DropIds(r)
  PROVE  KInv'
  <1> USE Before
  <1>1. /\ req[r].pc = "drop" /\ req[r].listed = FALSE /\ req[r].expired = {}
        /\ req[r].session \in Sessions /\ active[req[r].session] = None
        /\ UNCHANGED <<active, closing, live, born, orphans>>
    BY DEF DropIds, Step, admission, rmcp, KInv, Gone, Bounded, RequestType, Good
  <1> DEFINE q == [req[r] EXCEPT !.pc = "remove"]
  <1>2. /\ q \in RequestType /\ q.pc = "remove" /\ q.session = req[r].session /\ q.expired = {}
        /\ q.listed = FALSE
    BY <1>1 DEF RequestType
  <1>3. req' = [req EXCEPT ![r] = q]
    BY DEF DropIds
  <1>4. \A x \in Sessions : inFlight'[x] = inFlight[x] \/ (inFlight'[x] = {} /\ active[x] = None)
    BY <1>1 DEF DropIds, Tables
  <1> HIDE DEF q
  <1>5. \A x : r \in Closers(x) => r \in Closers(x)'
    BY <1>1, <1>2, <1>3, ClosersAfter
  <1> QED
    BY <1>1, <1>2, <1>3, <1>4, <1>5, CloserStep

LEMMA ClosedKInv ==
  ASSUME SInv, KInv, NEW r \in Requests, CloseExpired(r) \/ FinishDelete(r)
  PROVE  KInv'
  <1> USE Before
  <1>1. /\ req[r].pc \in {"close", "remove"} /\ req[r].listed = FALSE
        /\ live' = live \ {req[r].session} /\ closing' = closing \ {req[r].session}
        /\ UNCHANGED <<active, inFlight, born, orphans>>
    BY DEF CloseExpired, FinishDelete, Step, RequestType, Good
  <1>2. PICK q \in RequestType :
          /\ req' = [req EXCEPT ![r] = q] /\ q.pc \in {"sweep", "idle"} /\ q.session = 0
          /\ q.expired = req[r].expired /\ q.listed = FALSE /\ (q.expired # {} => q.pc = "sweep")
    <2>1. CASE CloseExpired(r)
      <3> DEFINE q == [req[r] EXCEPT !.pc = "sweep", !.session = 0]
      <3>1. q \in RequestType /\ q.pc = "sweep" /\ q.session = 0 /\ q.expired = req[r].expired /\ q.listed = FALSE
        BY <1>1 DEF RequestType
      <3> QED
        BY <2>1, <3>1 DEF CloseExpired
    <2>2. CASE FinishDelete(r)
      <3>1. Free \in RequestType /\ Free.pc = "idle" /\ Free.session = 0 /\ Free.expired = {} /\ Free.listed = FALSE
        BY FreeIsGood DEF Free
      <3>2. req[r].expired = {}
        BY <2>2 DEF FinishDelete, Step, KInv, Bounded
      <3> QED
        BY <2>2, <3>1, <3>2 DEF FinishDelete
    <2> QED
      BY <2>1, <2>2
  <1>3. \A x : r \in Closers(x) => r \in Closers(x)' \/ x \notin live' \cup closing'
    BY <1>1, <1>2, ClosersAfter
  <1> QED
    BY <1>1, <1>2, <1>3, CloserStep

LEMMA RejectKInv ==
  ASSUME SInv, KInv, NEW r \in Requests, Reject(r)
  PROVE  KInv'
  <1> USE Before
  <1>1. /\ req[r].pc = "answer" /\ req[r].listed = FALSE /\ req[r].expired = {}
        /\ live' = live \ {req[r].session} /\ req' = [req EXCEPT ![r] = Free]
        /\ UNCHANGED <<active, closing, inFlight, born, orphans>>
    BY DEF Reject, Step, RequestType, Good, KInv, Bounded
  <1>2. Free \in RequestType /\ Free.pc = "idle" /\ Free.session = 0 /\ Free.expired = {} /\ Free.listed = FALSE
    BY FreeIsGood DEF Free
  <1>3. \A x : r \notin Closers(x)
    BY <1>1 DEF Closers
  <1> QED
    BY <1>1, <1>2, <1>3, CloserStep

LEMMA DisconnectKInv ==
  ASSUME SInv, KInv, NEW r \in Requests, Disconnect(r)
  PROVE  KInv'
  <1> USE Before
  <1>1. CASE req[r].pc \in {"serve", "stream", "create"}
    BY <1>1, UnlistingKInv
  <1>2. CASE req[r].pc \in {"close", "answer", "remove"}
    <2>1. /\ req[r].listed = FALSE /\ req[r].tool = FALSE
          /\ (req[r].pc \in {"answer", "remove"} => req[r].expired = {})
      BY <1>2 DEF RequestType, Good, KInv, Bounded
    <2>2. /\ req' = [req EXCEPT ![r] = Free] /\ orphans' = orphans \cup LeftBehind(r)
          /\ UNCHANGED <<active, closing, inFlight, live, born>>
      BY <2>1 DEF Disconnect, Ended, Unlisted, rmcp
    <2>3. Free \in RequestType /\ Free.pc = "idle" /\ Free.session = 0 /\ Free.expired = {} /\ Free.listed = FALSE
      BY FreeIsGood DEF Free
    <2>4. req[r].pc # "answer" => LeftBehind(r) = req[r].expired \cup {req[r].session}
      BY <1>2 DEF LeftBehind
    <2>5. req[r].pc = "answer" => LeftBehind(r) = {req[r].session}
      BY DEF LeftBehind
    <2>6. \A x : r \in Closers(x) => x \in orphans'
      BY <1>2, <2>1, <2>2, <2>4 DEF Closers
    <2> QED
      BY <1>2, <2>1, <2>2, <2>3, <2>5, <2>6, CloserStep
  <1> QED
    BY <1>1, <1>2 DEF Disconnect

LEMMA CreateSessionKInv ==
  ASSUME SInv, KInv, NEW r \in Requests, CreateSession(r)
  PROVE  KInv'
  <1> USE Before
  <1>1. /\ req[r].pc = "create" /\ req[r].listed = FALSE /\ req[r].expired = {}
        /\ born < MaxSessions /\ born' = born + 1 /\ live' = live \cup {born'}
        /\ UNCHANGED <<active, closing, inFlight, orphans>>
    BY DEF CreateSession, Step, admission, RequestType, Good, KInv, Bounded
  <1>2. born \in Nat /\ born' \in Sessions /\ \A x \in Requests : req[x].session \in Nat /\ req[x].expired \subseteq Sessions
    BY <1>1, LimitsArePositive DEF Tables, RequestType, Sessions
  <1> DEFINE q == [req[r] EXCEPT !.pc = "answer", !.session = born']
  <1>3. q \in RequestType /\ q.pc = "answer" /\ q.session = born' /\ q.expired = {} /\ q.listed = FALSE
    BY <1>1, <1>2 DEF RequestType
  <1>4. req' = [req EXCEPT ![r] = q]
    BY DEF CreateSession
  <1> HIDE DEF q
  <1>5. req'[r] = q /\ \A x \in Requests \ {r} : req'[x] = req[x]
    BY <1>4, OtherRequests
  <1>6. Bounded'
    BY <1>1, <1>2, <1>3, <1>5 DEF KInv, Bounded, Sessions
  <1>7. Fresh'
    <2>1. /\ active[born'] = None /\ inFlight[born'] = {}
          /\ \A x \in Requests : req[x].session # born' /\ born' \notin req[x].expired
      BY <1>1, <1>2 DEF KInv, Bounded
    <2> SUFFICES ASSUME NEW x \in Requests, req'[x].pc = "answer"
                 PROVE  /\ active'[req'[x].session] = None /\ inFlight'[req'[x].session] = {}
                        /\ \A y \in Requests \ {x} :
                             req'[y].session # req'[x].session /\ req'[x].session \notin req'[y].expired
      BY DEF Fresh
    <2>2. CASE x = r
      BY <1>1, <1>3, <1>5, <2>1, <2>2
    <2>3. CASE x # r
      BY <1>1, <1>3, <1>5, <2>1, <2>3 DEF KInv, Fresh
    <2> QED
      BY <2>2, <2>3
  <1>8. Gone'
    BY <1>1, <1>3, <1>5 DEF KInv, Gone
  <1>9. IdsKeptApart'
    BY <1>1, <1>3, <1>4, IdsStay
  <1>10. SessionsAreSomeones'
    <2>1. \A s : Closers(s) \subseteq Closers(s)'
      BY <1>1, <1>4, ClosersAfter
    <2>2. \A x \in Requests : Step(x, "answer") => req'[x] = req[x] /\ Step(x, "answer")'
      BY <1>1, <1>5 DEF Step
    <2>3. req'[r].session = born' /\ Step(r, "answer")'
      BY <1>3, <1>5 DEF Step
    <2> QED
      BY <1>1, <2>1, <2>2, <2>3 DEF KInv, SessionsAreSomeones
  <1> QED
    BY <1>6, <1>7, <1>8, <1>9, <1>10 DEF KInv

(* A session becomes active: nobody has spoken of it before.                 *)
LEMMA CommitKInv ==
  ASSUME SInv, KInv, NEW r \in Requests, Commit(r)
  PROVE  KInv'
  <1> USE Before
  <1>1. /\ req[r].pc = "answer" /\ req[r].listed = FALSE /\ req[r].expired = {}
        /\ req[r].session \in Sessions /\ req[r].who \in Principals
        /\ req' = [req EXCEPT ![r] = Free] /\ UNCHANGED <<inFlight, live, born, orphans>>
    BY DEF Commit, Step, rmcp, RequestType, Good, KInv, Bounded
  <1>2. PICK s \in Sessions : s = req[r].session
    BY <1>1
  <1>3. /\ active'[s] = req[r].who /\ active'[s] # None /\ closing' = closing \ {s}
        /\ \A x \in Sessions \ {s} : active'[x] = active[x]
    BY <1>1, <1>2, NoneIsNobody DEF Commit, Tables
  <1>4. req'[r] = Free /\ \A x \in Requests \ {r} : req'[x] = req[x]
    BY <1>1, OtherRequests
  <1>5. Free.pc = "idle" /\ Free.session = 0 /\ Free.expired = {} /\ Free.listed = FALSE /\ 0 \notin Sessions
    BY DEF Free, Sessions
  <1>6. /\ inFlight[s] = {} /\ s <= born /\ born \in Nat
        /\ \A y \in Requests \ {r} : req[y].session # s /\ s \notin req[y].expired
    BY <1>1, <1>2, LimitsArePositive DEF KInv, Fresh, Bounded, Tables
  <1>7. Bounded'
    <2>1. \A x \in Sessions : x > born => active'[x] = None /\ inFlight'[x] = {}
      BY <1>1, <1>3, <1>6 DEF KInv, Bounded, Sessions
    <2> QED
      BY <1>1, <1>4, <1>5, <1>6, <2>1 DEF KInv, Bounded
  <1>8. Fresh'
    <2> SUFFICES ASSUME NEW x \in Requests, req'[x].pc = "answer"
                 PROVE  /\ active'[req'[x].session] = None /\ inFlight'[req'[x].session] = {}
                        /\ \A y \in Requests \ {x} :
                             req'[y].session # req'[x].session /\ req'[x].session \notin req'[y].expired
      BY DEF Fresh
    <2>1. x # r /\ req'[x] = req[x] /\ req[x].pc = "answer" /\ req[x].session \in Sessions /\ req[x].session # s
      BY <1>4, <1>5, <1>6 DEF Good
    <2>2. /\ active[req[x].session] = None /\ inFlight[req[x].session] = {}
          /\ \A y \in Requests \ {x} :
               req[y].session # req[x].session /\ req[x].session \notin req[y].expired
      BY <2>1 DEF KInv, Fresh
    <2> QED
      BY <1>1, <1>3, <1>4, <1>5, <2>1, <2>2
  <1>9. Gone'
    <2> SUFFICES ASSUME NEW x \in Requests
                 PROVE  /\ \A y \in req'[x].expired : active'[y] = None
                        /\ req'[x].pc \in {"close", "drop", "remove"} => active'[req'[x].session] = None
      BY DEF Gone
    <2>1. CASE x = r
      BY <1>4, <1>5, <2>1
    <2>2. CASE x # r
      <3>1. /\ \A y \in req[x].expired : y \in Sessions \ {s} /\ active[y] = None
            /\ req[x].pc \in {"close", "drop", "remove"} => active[req[x].session] = None /\ req[x].session \in Sessions \ {s}
        BY <1>6, <2>2 DEF KInv, Gone, RequestType, Good
      <3> QED
        BY <1>3, <1>4, <2>2, <3>1
    <2> QED
      BY <2>1, <2>2
  <1>10. IdsKeptApart'
    <2>1. \A x \in Sessions : Answering(x)' = Answering(x)
      BY <1>1, <1>4, <1>5 DEF Answering
    <2>2. Answering(s) = {}
      BY <1>1, <1>6 DEF Answering
    <2>3. ASSUME NEW x \in ActiveOnes'
          PROVE  /\ inFlight'[x] = {req'[y].id : y \in Answering(x)'}
                 /\ \A y, z \in Answering(x)' : req'[y].id = req'[z].id => y = z
      <3>1. x \in Sessions
        BY <2>3 DEF ActiveOnes
      <3>2. CASE x = s
        BY <1>1, <1>6, <2>1, <2>2, <3>2
      <3>3. CASE x # s
        <4>1. x \in ActiveOnes
          BY <1>3, <2>3, <3>3 DEF ActiveOnes
        <4>2. /\ inFlight[x] = {req[y].id : y \in Answering(x)}
              /\ \A y, z \in Answering(x) : req[y].id = req[z].id => y = z
          BY <4>1 DEF KInv, IdsKeptApart
        <4>3. \A y \in Answering(x) : req'[y] = req[y]
          BY <1>1, <1>4 DEF Answering
        <4> QED
          BY <1>1, <2>1, <3>1, <4>2, <4>3
      <3> QED
        BY <3>2, <3>3
    <2> QED
      BY <2>3 DEF IdsKeptApart
  <1>11. SessionsAreSomeones'
    <2>1. \A x : Closers(x) \subseteq Closers(x)'
      BY <1>1, ClosersAfter
    <2>2. ASSUME NEW x \in live' \ orphans'
          PROVE  \/ active'[x] # None
                 \/ Closers(x)' # {}
                 \/ \E y \in Requests : req'[y].session = x /\ Step(y, "answer")'
      <3>1. CASE x = s
        BY <1>3, <3>1
      <3>2. CASE x # s
        <4>1. x \in Sessions
          <5>1. x \in 1 .. born /\ born <= MaxSessions /\ MaxSessions \in Nat
            BY <1>1, <2>2, LimitsArePositive DEF Tables
          <5> QED
            BY <1>6, <5>1 DEF Sessions
        <4>2. \/ active[x] # None
              \/ Closers(x) # {}
              \/ \E y \in Requests : req[y].session = x /\ Step(y, "answer")
          BY <1>1, <2>2 DEF KInv, SessionsAreSomeones
        <4>3. \A y \in Requests : req[y].session = x => req'[y] = req[y]
          BY <1>2, <1>4, <3>2
        <4> QED
          BY <1>3, <2>1, <3>2, <4>1, <4>2, <4>3 DEF Step
      <3> QED
        BY <3>1, <3>2
    <2>3. \A x \in closing' \ orphans' : Closers(x)' # {}
      BY <1>1, <1>3, <2>1 DEF KInv, SessionsAreSomeones
    <2> QED
      BY <2>2, <2>3 DEF SessionsAreSomeones
  <1> QED
    BY <1>7, <1>8, <1>9, <1>10, <1>11 DEF KInv

LEMMA InitKInv == Init => KInv
  <1> SUFFICES ASSUME Init PROVE KInv
    OBVIOUS
  <1>1. /\ \A r \in Requests : req[r] = Free
        /\ \A s \in Sessions : active[s] = None /\ inFlight[s] = {}
        /\ live = {} /\ closing = {} /\ born = 0
    BY DEF Init
  <1>2. Free.pc = "idle" /\ Free.session = 0 /\ Free.expired = {}
    BY DEF Free
  <1> QED
    BY <1>1, <1>2 DEF KInv, Bounded, Fresh, Gone, IdsKeptApart, SessionsAreSomeones, ActiveOnes

LEMMA TimeKInv ==
  ASSUME SInv, KInv, (\E s \in Sessions : GoStale(s) \/ KeepAliveEnds(s)) \/ UNCHANGED vars
  PROVE  KInv'
  <1>1. UNCHANGED <<active, closing, inFlight, born, orphans, req>> /\ live' \subseteq live
    BY DEF GoStale, KeepAliveEnds, admission, rmcp, vars
  <1> QED
    BY <1>1 DEF KInv, Bounded, Fresh, Gone, IdsKeptApart, SessionsAreSomeones, ActiveOnes, Answering, Closers, Step

LEMMA KInvKept == SInv /\ KInv /\ [Next]_vars => KInv'
  <1> SUFFICES ASSUME SInv, KInv, [Next]_vars PROVE KInv'
    OBVIOUS
  <1>1. ASSUME NEW r \in Requests, Arrive(r) PROVE KInv'
    BY <1>1, ReserveKInv, FindExpiredKInv, CallBoth DEF Arrive
  <1>2. ASSUME NEW r \in Requests, Proceed(r) PROVE KInv'
    BY <1>2, SweepIdsKInv, ClosedKInv, SweptKInv, CreateSessionKInv, CommitKInv, RejectKInv,
       CallStepKInv, RegisterKInv, UnlistingKInv, MarkClosingKInv, DropIdsKInv DEF Proceed
  <1>3. ASSUME NEW r \in Requests, Disconnect(r) PROVE KInv'
    BY <1>3, DisconnectKInv
  <1> QED
    BY <1>1, <1>2, <1>3, TimeKInv DEF Next

LEMMA SessionsFollowed == Spec => []KInv
  BY InitKInv, KInvKept, SessionInvariance, PTL DEF Spec

(* On an active session the ids in flight are exactly those of the requests   *)
(* being answered, one each: a refused, finished or abandoned request leaves   *)
(* none behind, and a session that is opened begins without any                *)
(* (InFlightRequests, InFlightRequestGuard).                                  *)
THEOREM IdsAreOfRequests == Spec => []IdsKeptApart
  <1>1. KInv => IdsKeptApart
    BY DEF KInv
  <1> QED
    BY <1>1, SessionsFollowed, PTL

(* rmcp keeps no session that nobody answers for, and none is being closed by  *)
(* nobody, but those whose client went away in between (authorize_mcp).        *)
THEOREM NoSessionIsLost == Spec => []SessionsAreSomeones
  <1>1. KInv => SessionsAreSomeones
    BY DEF KInv
  <1> QED
    BY <1>1, SessionsFollowed, PTL
=============================================================================
