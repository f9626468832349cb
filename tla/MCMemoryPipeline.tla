-------------------------- MODULE MCMemoryPipeline --------------------------
(* Two windows; the extractor answers nothing, one memory, two of them,    *)
(* one rejected beside a valid one, the same memory twice from two quotes, *)
(* or two that do not pass validation.                                     *)
EXTENDS MemoryPipeline

Memory(c, e, check) == [content |-> c, evidence |-> e, check |-> check]
MCBatches == { <<>>,
               << Memory("a", "e1", "valid") >>,
               << Memory("a", "e1", "valid"), Memory("b", "e2", "valid") >>,
               << Memory("b", "e1", "rejected"), Memory("a", "e2", "valid") >>,
               << Memory("a", "e1", "valid"), Memory("a", "e2", "valid") >>,
               << Memory("b", "e1", "quarantined"), Memory("b", "e2", "rejected") >> }
=============================================================================
