---------------------------- MODULE GraphPromise ----------------------------
(***************************************************************************)
(* What the graph store promises about a memory, without stages, workers   *)
(* or claims: it is accepted once, in an order that stays; attempts to     *)
(* make its graph may end at any time and be taken up again; and one of    *)
(* them makes the graph, all of it, after which nothing happens any more.  *)
(***************************************************************************)
EXTENDS Naturals

CONSTANTS Keys, Inputs, NoInput

VARIABLES
  input,    \* what was accepted under a key
  earlier,  \* the keys that were accepted before it
  phase,    \* how far its memory is
  tries,    \* how often the making of its graph was begun
  graph     \* the attempts its graph is made from

Init ==
  /\ input = [k \in Keys |-> NoInput]
  /\ earlier = [k \in Keys |-> {}]
  /\ phase = [k \in Keys |-> "none"]
  /\ tries = [k \in Keys |-> 0]
  /\ graph = [k \in Keys |-> {}]

Take(k, i) ==
  /\ phase[k] = "none"
  /\ phase' = [phase EXCEPT ![k] = "pending"]
  /\ input' = [input EXCEPT ![k] = i]
  /\ earlier' = [earlier EXCEPT ![k] = {j \in Keys : phase[j] # "none"}]
  /\ UNCHANGED <<tries, graph>>

Becomes(k, from, to) ==
  /\ phase[k] \in from
  /\ phase' = [phase EXCEPT ![k] = to]
  /\ UNCHANGED <<input, earlier>>

Begin(k) ==
  /\ Becomes(k, {"pending"}, "running")
  /\ tries' = [tries EXCEPT ![k] = tries[k] + 1]
  /\ UNCHANGED graph

GiveUp(k) ==
  /\ Becomes(k, {"running"}, "failed")
  /\ UNCHANGED <<tries, graph>>

Again(k) ==
  /\ Becomes(k, {"running", "failed"}, "pending")
  /\ UNCHANGED <<tries, graph>>

(* The last attempt begun makes the whole graph.                           *)
Finish(k) ==
  /\ Becomes(k, {"running"}, "completed")
  /\ graph' = [graph EXCEPT ![k] = {tries[k]}]
  /\ UNCHANGED tries

Next ==
  \E k \in Keys : \/ \E i \in Inputs : Take(k, i)
                  \/ Begin(k) \/ GiveUp(k) \/ Again(k) \/ Finish(k)

Spec == Init /\ [][Next]_<<input, earlier, phase, tries, graph>>
=============================================================================
