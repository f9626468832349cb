------------------------- MODULE GraphRunRefinement -------------------------
(***************************************************************************)
(* GraphRun implements GraphPromise: the vector, the extraction and the    *)
(* evidence are written in three transactions, by three pipelines perhaps, *)
(* and become a graph with the last of them.                               *)
(***************************************************************************)
EXTENDS GraphRun

InputNow == [k \in Keys |-> run[k].input]

EarlierNow ==
  [k \in Keys |-> {j \in Keys : /\ run[j].status # "none"
                                /\ run[j].sequence < run[k].sequence}]

PhaseNow == [k \in Keys |-> run[k].status]
TriesNow == [k \in Keys |-> run[k].attempt]

(* The attempts that made the extractions the evidence came from, published *)
(* them, and stored the vector next to them.                                *)
MadeFrom(k) ==
  IF evidence[k] = {} THEN {}
  ELSE {embedding[k]} \cup {p.attempt : p \in evidence[k]}
         \cup {e.attempt : e \in {x \in extractions[k] :
                                    \E p \in evidence[k] : p.number = x.number}}

GraphNow == [k \in Keys |-> MadeFrom(k)]

Promise == INSTANCE GraphPromise WITH
  input <- InputNow, earlier <- EarlierNow, phase <- PhaseNow,
  tries <- TriesNow, graph <- GraphNow

(* However pipelines overlap, fail and are resumed, a memory is accepted   *)
(* once and keeps its place in the order; each attempt is a number of its  *)
(* own; and its graph appears at one step, made from the vector, the       *)
(* extraction and the evidence of the last attempt alone, and stays.       *)
ImplementsPromise == Promise!Spec
=============================================================================
