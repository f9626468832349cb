----------------------------- MODULE ChunkLedger -----------------------------
(***************************************************************************)
(* What the KV-cache coordinator promises about references and evictions,  *)
(* without a single counter: holders hold sets of chunks, and a request    *)
(* that changes what a holder holds must have evicted exactly the chunks   *)
(* that somebody held before and nobody holds after.                       *)
(*                                                                         *)
(* A holder is a session or a fork whose references have been registered.  *)
(***************************************************************************)
CONSTANTS Holders, Chunks, Requests

VARIABLES
  held,    \* what each holder holds
  doomed   \* the chunks each request has been told to evict, until it is done

Held(hold) == UNION {hold[h] : h \in Holders}

Init ==
  /\ held = [h \in Holders |-> {}]
  /\ doomed = [r \in Requests |-> {}]

(* One request replaces what one holder holds.                             *)
Replace(r, h, new) ==
  /\ doomed[r] = {}
  /\ held' = [held EXCEPT ![h] = new]
  /\ doomed' = [doomed EXCEPT ![r] = Held(held) \ Held(held')]

(* The request has called the backend.                                     *)
Discharge(r) ==
  /\ doomed' = [doomed EXCEPT ![r] = {}]
  /\ UNCHANGED held

Next ==
  \E r \in Requests :
    \/ \E h \in Holders, new \in SUBSET Chunks : Replace(r, h, new)
    \/ Discharge(r)

Spec == Init /\ [][Next]_<<held, doomed>>
=============================================================================
