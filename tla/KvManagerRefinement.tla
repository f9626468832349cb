------------------------- MODULE KvManagerRefinement -------------------------
(***************************************************************************)
(* KvManager implements ChunkLedger: the counting of KvManager is what     *)
(* ChunkLedger says with sets.  A fork becomes a holder when its count is  *)
(* made, not when its snapshot is recorded.                                *)
(***************************************************************************)
EXTENDS KvManager

SessionHolder(s) == <<"session", s>>
ForkHolder(id)   == <<"fork", id>>

Holders == {SessionHolder(s) : s \in Sessions}
             \cup {ForkHolder(id) : id \in 1..MaxForks}

Counted == snapshots \ uncounted

HeldNow ==
  [h \in Holders |->
     IF h[1] = "session" THEN map[h[2]]
     ELSE UNION {f.hashes : f \in {g \in Counted : g.id = h[2]}}]

DoomedNow == [r \in Requests |-> IF At(r, "evict") THEN req[r].evict ELSE {}]

Ledger == INSTANCE ChunkLedger WITH held <- HeldNow, doomed <- DoomedNow

(* Every run of the coordinator, whose clients return the fork ids they    *)
(* were given and do not hang up, is a run of the ledger: each operation   *)
(* tells the backend to evict the chunks that lost their last holder in    *)
(* it, all of them and no others.                                          *)
ImplementsLedger == Ledger!Spec
=============================================================================
