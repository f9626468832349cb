----------------------------- MODULE MCGraphRun -----------------------------
(* GraphRun for TLC, with the promise it implements.  graph_run.cfg gives   *)
(* it one key, which is what pipelines overlap on, and three pipelines; it  *)
(* asks for liveness, so pipelines are not made symmetric.                  *)
EXTENDS GraphRunRefinement
=============================================================================
