--------------------------- MODULE MCMemoryIngest ---------------------------
(* MemoryIngest for TLC.  Message m1 may say one of two things, m2 one; the *)
(* model words m2 in two ways, one of which is what it makes of m1.         *)
EXTENDS MemoryIngest, TLC

CONSTANTS m1, m2, c1, c2, x1, x2

MCReadings ==
  (m1 :> (c1 :> {{x1}} @@ c2 :> {{x2}})) @@
  (m2 :> (c1 :> {{x1}, {x2}} @@ c2 :> {{x1}, {x2}}))

(* m1 comes alone or together with m2, m2 only together with m1; a request *)
(* may also bring context only.                                             *)
MCBatches == {{}, {m1}, {m1, m2}}
=============================================================================
