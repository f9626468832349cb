------------------------ MODULE CaseConfirmationsProofs ------------------------
(***************************************************************************)
(* Machine-checked proofs about CaseConfirmations: whatever expires, fails,  *)
(* stops or restarts, and however many calls are under way, two calls work on  *)
(* a change only after one of its token was told to try again, a token that   *)
(* was used up begins nothing any more, and what is carried out twice was     *)
(* worked on by two calls at a time.                                        *)
(***************************************************************************)
EXTENDS CaseConfirmations, FiniteSetTheorems, TLAPS

Holds(h, t) == handler[h].token = t
Working == {"check", "apply", "tidy", "finish"}
Works(h, t) == Holds(h, t) /\ handler[h].pc \in Working

(* Tokens are issued in order: nothing is known of those to come.            *)
Fresh ==
  \A t \in Tokens : t > counts.tokens =>
    pending[t] = None /\ t \notin settled /\ \A h \in Handlers : ~Holds(h, t)

(* A handler that is under way has a token, and while that is staged the      *)
(* handler carries out the change that is staged.                           *)
HandlersMatch ==
  \A h \in Handlers :
    /\ handler[h].token \in Tokens <=> handler[h].pc # "idle"
    /\ \A t \in Tokens : Holds(h, t) /\ pending[t] # None => handler[h].op = pending[t].op

Alone ==
  \A t \in Tokens \ overlapped, g, h \in Handlers : Works(g, t) /\ Works(h, t) => g = h

(* The mark of a token stays on while it is worked on, until a guard takes it  *)
(* off whose call was told to try again.                                    *)
Marked ==
  \A t \in Tokens \ retried :
    /\ t \notin overlapped
    /\ pending[t] # None => \A h \in Handlers : Holds(h, t) =>
         handler[h].pc \in Working /\ pending[t].executing

ExecutingIsHeld ==
  \A t \in Tokens : pending[t] # None /\ pending[t].executing =>
    \E h \in Handlers : Works(h, t)

UsedUp ==
  \A t \in settled :
    pending[t] = None /\ (t \in overlapped \/ \A h \in Handlers : ~Works(h, t))

Bookkept == Fresh /\ HandlersMatch /\ Alone /\ Marked /\ ExecutingIsHeld /\ UsedUp

-----------------------------------------------------------------------------
(* TypeOK is kept by every step.                                            *)
LEMMA InitType == Init => TypeOK
  <1> SUFFICES ASSUME Init PROVE TypeOK
    OBVIOUS
  <1>1. <<>> \in Seq(Tokens)
    OBVIOUS
  <1>2. 0 \in 0 .. MaxTokens /\ 0 \in 0 .. MaxMishaps
    BY LimitsAreNaturals
  <1> QED
    BY <1>1, <1>2 DEF Init, TypeOK, Waiting

LEMMA ConcludeType ==
  ASSUME TypeOK, NEW h \in Handlers, NEW result \in {"done", "refused", "again"}, Conclude(h, result)
  PROVE  handler' \in [Handlers ->
              [pc: {"idle", "check", "apply", "tidy", "finish", "guard"},
               token: Tokens \cup {None}, who: Principals \cup {None},
               op: Operations \cup {"none"}, result: {"none", "done", "refused", "again"}]]
  <1>1. handler[h] \in [pc: {"idle", "check", "apply", "tidy", "finish", "guard"},
               token: Tokens \cup {None}, who: Principals \cup {None},
               op: Operations \cup {"none"}, result: {"none", "done", "refused", "again"}]
    BY DEF TypeOK
  <1>2. [handler[h] EXCEPT !.pc = "finish", !.result = result] \in
              [pc: {"idle", "check", "apply", "tidy", "finish", "guard"},
               token: Tokens \cup {None}, who: Principals \cup {None},
               op: Operations \cup {"none"}, result: {"none", "done", "refused", "again"}]
    BY <1>1
  <1>3. handler' = [handler EXCEPT ![h] = [handler[h] EXCEPT !.pc = "finish", !.result = result]]
    BY DEF Conclude, TypeOK
  <1> QED
    BY <1>2, <1>3 DEF TypeOK

LEMMA StepType ==
  ASSUME TypeOK, NEW h \in Handlers, NEW pc \in {"apply", "tidy", "guard"},
         handler' = [handler EXCEPT ![h].pc = pc]
  PROVE  handler' \in [Handlers ->
              [pc: {"idle", "check", "apply", "tidy", "finish", "guard"},
               token: Tokens \cup {None}, who: Principals \cup {None},
               op: Operations \cup {"none"}, result: {"none", "done", "refused", "again"}]]
  <1>1. [handler[h] EXCEPT !.pc = pc] \in
              [pc: {"idle", "check", "apply", "tidy", "finish", "guard"},
               token: Tokens \cup {None}, who: Principals \cup {None},
               op: Operations \cup {"none"}, result: {"none", "done", "refused", "again"}]
    BY DEF TypeOK
  <1> QED
    BY <1>1 DEF TypeOK

LEMMA ReleasedType ==
  ASSUME TypeOK, NEW t \in Tokens
  PROVE  /\ Released(t) \in [Tokens -> {None} \cup [owner: Principals, op: Operations, executing: BOOLEAN]]
         /\ \A u \in Tokens :
              /\ (Released(t)[u] = None) <=> (pending[u] = None)
              /\ pending[u] # None =>
                   /\ Released(t)[u].owner = pending[u].owner
                   /\ Released(t)[u].op = pending[u].op
                   /\ Released(t)[u].executing => pending[u].executing /\ u # t
  <1> DEFINE Change == [owner: Principals, op: Operations, executing: BOOLEAN]
  <1>1. pending \in [Tokens -> {None} \cup Change]
    BY DEF TypeOK
  <1>2. CASE pending[t] = None
    BY <1>1, <1>2 DEF Released
  <1>3. CASE pending[t] # None
    <2>1. pending[t] \in Change
      BY <1>1, <1>3
    <2> DEFINE free == [pending[t] EXCEPT !.executing = FALSE]
    <2>2. free \in Change /\ free.owner = pending[t].owner /\ free.op = pending[t].op /\ free.executing = FALSE
      BY <2>1
    <2>3. Released(t) = [pending EXCEPT ![t] = free]
      BY <1>3 DEF Released
    <2>4. free # None
      BY <2>1, NoneIsNoChange
    <2> HIDE DEF free
    <2> QED
      BY <1>1, <1>3, <2>1, <2>2, <2>3, <2>4
  <1> QED
    BY <1>2, <1>3

LEMMA UnexpiredType ==
  ASSUME TypeOK
  PROVE  /\ Unexpired \in [Tokens -> {None} \cup [owner: Principals, op: Operations, executing: BOOLEAN]]
         /\ \A u \in Tokens : Unexpired[u] = None \/ Unexpired[u] = pending[u]
  BY DEF TypeOK, Unexpired

LEMMA PrepareType ==
  ASSUME TypeOK, NEW p \in Principals, NEW op \in Operations, Prepare(p, op)
  PROVE  TypeOK'
  <1>1. counts' \in [tokens: 0 .. MaxTokens, mishaps: 0 .. MaxMishaps]
    <2>1. counts.tokens + 1 \in 0 .. MaxTokens
      BY LimitsAreNaturals DEF TypeOK, histories, Prepare, Tokens
    <2>2. counts' = [counts EXCEPT !.tokens = counts.tokens + 1]
      BY DEF Prepare
    <2> QED
      BY <2>1, <2>2 DEF TypeOK
  <1>2. [owner |-> p, op |-> op, executing |-> FALSE] \in [owner: Principals, op: Operations, executing: BOOLEAN]
    OBVIOUS
  <1>3. pending' \in [Tokens -> {None} \cup [owner: Principals, op: Operations, executing: BOOLEAN]]
    BY <1>2, UnexpiredType DEF Prepare
  <1> QED
    BY <1>1, <1>3 DEF TypeOK, histories, Prepare, library

LEMMA BeginType ==
  ASSUME TypeOK, NEW h \in Handlers, NEW p \in Principals, NEW t \in Tokens, Begin(h, p, t)
  PROVE  TypeOK' /\ Unexpired[t] = pending[t] /\ pending[t] # None
  <1>1. pending[t] # None /\ t \notin expired /\ pending[t] \in [owner: Principals, op: Operations, executing: BOOLEAN]
    BY DEF Begin, MayBegin, Staged, TypeOK
  <1>2. Unexpired[t] = pending[t]
    BY <1>1 DEF Unexpired
  <1>3. pending' \in [Tokens -> {None} \cup [owner: Principals, op: Operations, executing: BOOLEAN]]
    BY <1>1, <1>2, UnexpiredType DEF Begin
  <1> QED
    BY <1>1, <1>2, <1>3 DEF TypeOK, Begin, library

LEMMA CheckType ==
  ASSUME TypeOK, NEW h \in Handlers, Check(h)
  PROVE  TypeOK'
  BY ConcludeType, StepType DEF TypeOK, histories, Check, library

LEMMA AppliedType ==
  ASSUME TypeOK, NEW t \in Tokens, Applied(t)
  PROVE  log' \in Seq(Tokens)
  BY DEF TypeOK, Applied

LEMMA ApplyUploadType ==
  ASSUME TypeOK, NEW h \in Handlers, ApplyUpload(h), handler[h].token \in Tokens
  PROVE  TypeOK'
  BY AppliedType, ConcludeType DEF TypeOK, histories, ApplyUpload, library

LEMMA ApplyUpdateType ==
  ASSUME TypeOK, NEW h \in Handlers, ApplyUpdate(h), handler[h].token \in Tokens
  PROVE  TypeOK'
  <1>1. WithoutWaiting \in [Tokens -> {None, "pending", "running", "completed"}]
    BY DEF TypeOK, WithoutWaiting
  <1> QED
    BY <1>1, AppliedType, ConcludeType, StepType DEF TypeOK, histories, ApplyUpdate, library

LEMMA ApplyDeleteType ==
  ASSUME TypeOK, NEW h \in Handlers, ApplyDelete(h), handler[h].token \in Tokens
  PROVE  TypeOK'
  BY AppliedType, ConcludeType, StepType DEF TypeOK, histories, ApplyDelete, library

LEMMA TidyType ==
  ASSUME TypeOK, NEW h \in Handlers, Tidy(h)
  PROVE  TypeOK'
  BY ConcludeType DEF TypeOK, histories, Tidy, library

LEMMA MishapType ==
  ASSUME TypeOK, Mishap
  PROVE  counts' \in [tokens: 0 .. MaxTokens, mishaps: 0 .. MaxMishaps] /\ counts'.tokens = counts.tokens
  BY LimitsAreNaturals DEF TypeOK, Mishap

LEMMA FailType ==
  ASSUME TypeOK, NEW h \in Handlers, Fail(h)
  PROVE  TypeOK'
  BY MishapType, ConcludeType DEF TypeOK, histories, Fail, library

LEMMA FinishType ==
  ASSUME TypeOK, NEW h \in Handlers, Finish(h), handler[h].token \in Tokens
  PROVE  TypeOK'
  <1>1. pending' \in [Tokens -> {None} \cup [owner: Principals, op: Operations, executing: BOOLEAN]]
    BY ReleasedType DEF Finish, Finished, TypeOK
  <1> QED
    <2>1. settled' \subseteq Tokens /\ retried' \subseteq Tokens /\ overlapped' \subseteq Tokens
      BY DEF TypeOK, Finish
    <2>2. UNCHANGED <<expired, document, tasks, log, counts>>
      BY DEF Finish, library
    <2>3. handler' = [handler EXCEPT ![h].pc = "guard"]
      BY DEF Finish
    <2> QED
      BY <1>1, <2>1, <2>2, <2>3, StepType DEF TypeOK

LEMMA DropGuardType ==
  ASSUME TypeOK, NEW h \in Handlers, DropGuard(h), handler[h].token \in Tokens
  PROVE  TypeOK'
  BY ReleasedType DEF TypeOK, histories, DropGuard, Waiting, library

LEMMA AbandonType ==
  ASSUME TypeOK, NEW h \in Handlers, Abandon(h), handler[h].token \in Tokens
  PROVE  TypeOK'
  BY ReleasedType, MishapType DEF TypeOK, histories, Abandon, Waiting, library

LEMMA SmallStepType ==
  ASSUME TypeOK, \/ \E t \in Tokens : Expire(t) \/ Ingest(t)
                 \/ Sweep
                 \/ Restart
                 \/ UNCHANGED vars
  PROVE  TypeOK'
  <1>1. ASSUME NEW t \in Tokens, Expire(t) PROVE TypeOK'
    BY <1>1 DEF TypeOK, histories, Expire, library
  <1>2. ASSUME NEW t \in Tokens, Ingest(t) PROVE TypeOK'
    BY <1>2 DEF TypeOK, histories, Ingest
  <1>3. ASSUME Sweep PROVE TypeOK'
    BY <1>3, UnexpiredType DEF TypeOK, histories, Sweep, library
  <1>4. ASSUME Restart PROVE TypeOK'
    BY <1>4, MishapType DEF TypeOK, histories, Restart, Waiting
  <1>5. ASSUME UNCHANGED vars PROVE TypeOK'
    BY <1>5 DEF TypeOK, histories, library, vars
  <1> QED
    BY <1>1, <1>2, <1>3, <1>4, <1>5

-----------------------------------------------------------------------------
(* CInv is kept by every step.                                              *)
CInv == TypeOK /\ Bookkept

LEMMA InitBookkept == Init => Bookkept
  BY NoneIsNobody DEF Init, Bookkept, Fresh, HandlersMatch, Alone, Marked, ExecutingIsHeld, UsedUp, Holds, Works,
                      Working, Waiting, Tokens

(* A handler takes its next step, with the same token.                       *)
LEMMA MovesOn ==
  ASSUME CInv, NEW h \in Handlers,
         handler[h].pc \in Working, handler'[h].pc \in Working,
         \A g \in Handlers \ {h} : handler'[g] = handler[g],
         handler'[h].token = handler[h].token, handler'[h].op = handler[h].op,
         UNCHANGED <<pending, histories>>, counts'.tokens = counts.tokens
  PROVE  Bookkept'
  <1> USE DEF CInv, Bookkept
  <1>0. UNCHANGED <<pending, settled, retried, overlapped>>
    BY DEF histories
  <1>1. \A g \in Handlers : /\ handler'[g].token = handler[g].token
                            /\ handler'[g].op = handler[g].op
                            /\ handler'[g].pc = "idle" <=> handler[g].pc = "idle"
                            /\ handler'[g].pc \in Working <=> handler[g].pc \in Working
    BY DEF Working
  <1>2. \A g \in Handlers : \A t : (Holds(g, t)' <=> Holds(g, t)) /\ (Works(g, t)' <=> Works(g, t))
    BY <1>1 DEF Holds, Works
  <1>3. Fresh' /\ HandlersMatch' /\ Alone'
    BY <1>0, <1>1, <1>2 DEF Fresh, HandlersMatch, Alone
  <1>4. Marked' /\ ExecutingIsHeld' /\ UsedUp'
    BY <1>0, <1>1, <1>2 DEF Marked, ExecutingIsHeld, UsedUp
  <1> QED
    BY <1>3, <1>4

(* A handler lets go of its token, which is no longer being executed.        *)
LEMMA LetsGo ==
  ASSUME CInv, NEW h \in Handlers, handler[h].token \in Tokens,
         handler' = [handler EXCEPT ![h] = Waiting],
         pending' = Released(handler[h].token),
         UNCHANGED histories, counts'.tokens = counts.tokens
  PROVE  Bookkept'
  <1> USE DEF CInv, Bookkept
  <1>0. UNCHANGED <<settled, retried, overlapped>>
    BY DEF histories
  <1>1. handler'[h] = Waiting /\ \A g \in Handlers \ {h} : handler'[g] = handler[g]
    BY DEF TypeOK
  <1>2. \A u \in Tokens :
          /\ (pending'[u] = None) <=> (pending[u] = None)
          /\ pending[u] # None =>
               /\ pending'[u].op = pending[u].op
               /\ pending'[u].executing => pending[u].executing /\ u # handler[h].token
               /\ u # handler[h].token => pending'[u] = pending[u]
    <2>1. ASSUME NEW u \in Tokens, u # handler[h].token PROVE pending'[u] = pending[u]
      BY <2>1 DEF Released, TypeOK
    <2> QED
      BY <2>1, ReleasedType
  <1>3. \A t \in Tokens : /\ ~Holds(h, t)' /\ ~Works(h, t)'
                          /\ \A g \in Handlers \ {h} : (Holds(g, t)' <=> Holds(g, t)) /\ (Works(g, t)' <=> Works(g, t))
    BY <1>1, NoneIsNobody DEF Holds, Works, Waiting, Tokens
  <1>4. Fresh'
    BY <1>0, <1>2, <1>3 DEF Fresh
  <1>5. HandlersMatch'
    BY <1>1, <1>2, <1>3, NoneIsNobody DEF HandlersMatch, Waiting, Tokens
  <1>6. Alone'
    BY <1>0, <1>3 DEF Alone
  <1>7. ExecutingIsHeld'
    <2> SUFFICES ASSUME NEW t \in Tokens, pending'[t] # None, pending'[t].executing
                 PROVE  \E g \in Handlers : Works(g, t)'
      BY DEF ExecutingIsHeld
    <2>1. PICK g \in Handlers : Works(g, t)
      BY <1>2 DEF ExecutingIsHeld
    <2>2. g # h
      BY <1>2, <2>1 DEF Works, Holds
    <2> QED
      BY <1>3, <2>1, <2>2
  <1>8. UsedUp'
    BY <1>0, <1>2, <1>3 DEF UsedUp, TypeOK
  <1>9. Marked'
    <2> SUFFICES ASSUME NEW t \in Tokens \ retried, pending'[t] # None, NEW g \in Handlers, Holds(g, t)'
                 PROVE  handler'[g].pc \in Working /\ pending'[t].executing
      BY <1>0 DEF Marked
    <2>1. g # h /\ Holds(g, t) /\ handler'[g] = handler[g] /\ pending[t] # None
      BY <1>1, <1>2, <1>3
    <2>2. Works(g, t) /\ pending[t].executing /\ t \notin overlapped
      BY <2>1 DEF Marked, Works
    <2>3. ~Holds(h, t)
      <3>1. ASSUME Holds(h, t) PROVE Works(h, t)
        BY <3>1, <2>1 DEF Marked, Works
      <3> QED
        BY <2>1, <2>2, <3>1 DEF Alone
    <2> QED
      BY <1>2, <2>1, <2>2, <2>3 DEF Works, Holds
  <1> QED
    BY <1>4, <1>5, <1>6, <1>7, <1>8, <1>9

(* What is staged is taken off, and nothing else happens.                    *)
LEMMA StagedGoes ==
  ASSUME CInv, UNCHANGED <<handler, histories, counts>>,
         \A t \in Tokens : pending'[t] = None \/ pending'[t] = pending[t]
  PROVE  Bookkept'
  <1> USE DEF CInv, Bookkept
  <1>1. UNCHANGED <<settled, retried, overlapped>>
    BY DEF histories
  <1>2. Fresh' /\ HandlersMatch' /\ Alone'
    BY <1>1 DEF Fresh, HandlersMatch, Alone, Holds, Works
  <1>3. Marked' /\ ExecutingIsHeld' /\ UsedUp'
    BY <1>1 DEF Marked, ExecutingIsHeld, UsedUp, Holds, Works, TypeOK
  <1> QED
    BY <1>2, <1>3

LEMMA PrepareKeeps ==
  ASSUME CInv, NEW p \in Principals, NEW op \in Operations, Prepare(p, op)
  PROVE  Bookkept'
  <1> DEFINE t == counts.tokens + 1
  <1> USE DEF CInv, Bookkept
  <1>1. t \in Tokens /\ counts'.tokens = t /\ counts.tokens \in Nat
    BY LimitsAreNaturals DEF Prepare, TypeOK
  <1>2. /\ pending[t] = None /\ t \notin settled /\ \A h \in Handlers : ~Holds(h, t)
    BY <1>1 DEF Fresh, Tokens
  <1>3. /\ pending'[t] = [owner |-> p, op |-> op, executing |-> FALSE]
        /\ \A u \in Tokens : u # t => pending'[u] = None \/ pending'[u] = pending[u]
    BY <1>1, UnexpiredType DEF Prepare
  <1>4. UNCHANGED <<handler, settled, retried, overlapped>>
    BY DEF Prepare, histories
  <1> HIDE DEF t
  <1>5. Fresh'
    BY <1>1, <1>3, <1>4 DEF Fresh, Holds, Tokens, t
  <1>6. HandlersMatch' /\ Alone'
    BY <1>2, <1>3, <1>4 DEF HandlersMatch, Alone, Holds, Works
  <1>7. ExecutingIsHeld' /\ UsedUp'
    BY <1>2, <1>3, <1>4 DEF ExecutingIsHeld, UsedUp, Holds, Works, TypeOK
  <1>8. Marked'
    BY <1>2, <1>3, <1>4 DEF Marked, Holds
  <1> QED
    BY <1>5, <1>6, <1>7, <1>8

LEMMA BeginKeeps ==
  ASSUME CInv, NEW h \in Handlers, NEW p \in Principals, NEW t \in Tokens, Begin(h, p, t)
  PROVE  Bookkept'
  <1> USE DEF CInv, Bookkept
  <1>1. \A g \in Handlers : Works(g, t) => t \in overlapped'
    BY DEF Begin, Executors, Works, Holds, Working
  <1>2. /\ pending[t] # None /\ Unexpired[t] = pending[t] /\ ~pending[t].executing
        /\ pending[t] \in [owner: Principals, op: Operations, executing: BOOLEAN]
    <2>1. pending[t] # None /\ Unexpired[t] = pending[t]
      BY BeginType
    <2>2. ~pending[t].executing
      BY DEF Begin, MayBegin
    <2> QED
      BY <2>1, <2>2 DEF TypeOK
  <1>3. /\ pending'[t] = [pending[t] EXCEPT !.executing = TRUE]
        /\ \A u \in Tokens : u # t => pending'[u] = None \/ pending'[u] = pending[u]
    BY <1>2, UnexpiredType DEF Begin
  <1>4. /\ handler'[h] = [pc |-> "check", token |-> t, who |-> p, op |-> pending[t].op, result |-> "none"]
        /\ \A g \in Handlers \ {h} : handler'[g] = handler[g]
        /\ UNCHANGED <<settled, retried, counts>> /\ handler[h].pc = "idle"
    BY DEF Begin, TypeOK, Step
  <1>5. \A u \in Tokens :
          /\ (Holds(h, u)' <=> u = t) /\ (Works(h, u)' <=> u = t)
          /\ ~Holds(h, u) /\ ~Works(h, u)
          /\ \A g \in Handlers \ {h} : (Holds(g, u)' <=> Holds(g, u)) /\ (Works(g, u)' <=> Works(g, u))
    BY <1>4 DEF Holds, Works, Working, HandlersMatch
  <1>6. t <= counts.tokens /\ t \notin settled
    BY <1>2, LimitsAreNaturals DEF Fresh, UsedUp, TypeOK, Tokens
  <1>7. /\ pending'[t].op = pending[t].op /\ pending'[t].executing
        /\ \A u \in Tokens : pending'[u] # None => pending[u] # None
    BY <1>2, <1>3
  <1>8. overlapped \subseteq overlapped' /\ overlapped' \subseteq overlapped \cup {t}
    BY DEF Begin
  <1>9. t \notin retried => (\A g \in Handlers : ~Holds(g, t)) /\ t \notin overlapped'
    <2>1. t \notin retried => (\A g \in Handlers : ~Holds(g, t)) /\ t \notin overlapped
      BY <1>2 DEF Marked
    <2> QED
      BY <2>1 DEF Begin, Executors, Holds
  <1>10. Fresh'
    <2> SUFFICES ASSUME NEW u \in Tokens, u > counts.tokens
                 PROVE  pending'[u] = None /\ u \notin settled /\ \A g \in Handlers : ~Holds(g, u)'
      BY <1>4 DEF Fresh
    <2>1. u # t
      BY <1>6 DEF TypeOK, Tokens
    <2> QED
      BY <2>1, <1>5, <1>7 DEF Fresh
  <1>11. HandlersMatch'
    <2>1. \A g \in Handlers, u \in Tokens : g # h /\ Holds(g, u)' /\ pending'[u] # None =>
            handler'[g].op = pending'[u].op
      <3> SUFFICES ASSUME NEW g \in Handlers, NEW u \in Tokens, g # h, Holds(g, u)', pending'[u] # None
                   PROVE  handler'[g].op = pending'[u].op
        OBVIOUS
      <3>1. Holds(g, u) /\ handler'[g] = handler[g] /\ pending[u] # None
        BY <1>4, <1>5, <1>7
      <3>2. handler[g].op = pending[u].op
        BY <3>1 DEF HandlersMatch
      <3>3. pending'[u].op = pending[u].op
        BY <1>3, <1>7
      <3> QED
        BY <3>1, <3>2, <3>3
    <2>2. \A u \in Tokens : Holds(h, u)' => handler'[h].op = pending'[u].op
      BY <1>4, <1>5, <1>7
    <2>3. \A g \in Handlers : handler'[g].token \in Tokens <=> handler'[g].pc # "idle"
      BY <1>4 DEF HandlersMatch
    <2> QED
      BY <2>1, <2>2, <2>3 DEF HandlersMatch
  <1>12. Alone'
    BY <1>1, <1>5, <1>8 DEF Alone
  <1>13. Marked'
    <2> SUFFICES ASSUME NEW u \in Tokens \ retried
                 PROVE  /\ u \notin overlapped'
                        /\ pending'[u] # None => \A g \in Handlers : Holds(g, u)' =>
                             handler'[g].pc \in Working /\ pending'[u].executing
      BY <1>4 DEF Marked
    <2>1. CASE u = t
      BY <2>1, <1>4, <1>5, <1>7, <1>9 DEF Working
    <2>2. CASE u # t
      BY <2>2, <1>3, <1>4, <1>5, <1>7, <1>8 DEF Marked
    <2> QED
      BY <2>1, <2>2
  <1>14. ExecutingIsHeld'
    <2> SUFFICES ASSUME NEW u \in Tokens, pending'[u] # None, pending'[u].executing
                 PROVE  \E g \in Handlers : Works(g, u)'
      BY DEF ExecutingIsHeld
    <2>1. CASE u = t
      BY <2>1, <1>5
    <2>2. CASE u # t
      <3>1. PICK g \in Handlers : Works(g, u)
        BY <2>2, <1>3 DEF ExecutingIsHeld
      <3>2. g # h
        BY <3>1, <1>5
      <3> QED
        BY <3>1, <3>2, <1>5
    <2> QED
      BY <2>1, <2>2
  <1>15. UsedUp'
    <2> SUFFICES ASSUME NEW u \in settled
                 PROVE  pending'[u] = None /\ (u \in overlapped' \/ \A g \in Handlers : ~Works(g, u)')
      BY <1>4 DEF UsedUp
    <2>1. u \in Tokens /\ u # t
      BY <1>6 DEF TypeOK
    <2> QED
      BY <2>1, <1>3, <1>5, <1>8 DEF UsedUp
  <1> QED
    BY <1>10, <1>11, <1>12, <1>13, <1>14, <1>15

LEMMA FinishKeeps ==
  ASSUME CInv, NEW h \in Handlers, Finish(h)
  PROVE  Bookkept'
  <1> USE DEF CInv, Bookkept
  <1> DEFINE t == handler[h].token
  <1>1. t \in Tokens /\ Works(h, t)
    BY DEF Finish, Step, HandlersMatch, Works, Working, Holds
  <1>2. \A u \in Tokens :
          /\ pending'[u] # None =>
               /\ pending[u] # None /\ pending'[u].op = pending[u].op
               /\ pending'[u].executing => pending[u].executing /\ u # t
               /\ u # t => pending'[u] = pending[u]
          /\ pending[u] = None => pending'[u] = None
    <2>1. CASE handler[h].result = "again"
      <3>1. pending' = Released(t)
        BY <2>1 DEF Finish, Finished
      <3>2. ASSUME NEW u \in Tokens, u # t PROVE pending'[u] = pending[u]
        BY <3>1, <3>2 DEF Released, TypeOK
      <3> QED
        BY <1>1, <3>1, <3>2, ReleasedType
    <2>2. CASE handler[h].result # "again"
      <3>1. pending' = [pending EXCEPT ![t] = None]
        BY <2>2 DEF Finish, Finished
      <3> QED
        BY <1>1, <3>1 DEF TypeOK
    <2> QED
      BY <2>1, <2>2
  <1>3. /\ handler'[h] = [handler[h] EXCEPT !.pc = "guard"]
        /\ \A g \in Handlers \ {h} : handler'[g] = handler[g]
        /\ UNCHANGED <<counts, overlapped>>
    BY DEF Finish, TypeOK
  <1>4. \/ settled' = settled /\ retried' = retried \cup {t}
        \/ settled' = settled \cup {t} /\ retried' = retried /\ pending'[t] = None
    <2>1. CASE handler[h].result = "again"
      BY <2>1 DEF Finish
    <2>2. CASE handler[h].result # "again"
      <3>1. pending' = [pending EXCEPT ![t] = None]
        BY <2>2 DEF Finish, Finished
      <3> QED
        BY <2>2, <3>1, <1>1 DEF Finish, TypeOK
    <2> QED
      BY <2>1, <2>2
  <1>5. handler[h] \in [pc: {"idle", "check", "apply", "tidy", "finish", "guard"},
           token: Tokens \cup {None}, who: Principals \cup {None},
           op: Operations \cup {"none"}, result: {"none", "done", "refused", "again"}]
    BY DEF TypeOK
  <1>6. \A g \in Handlers : /\ handler'[g].token = handler[g].token
                            /\ handler'[g].op = handler[g].op
                            /\ handler'[g].pc = "idle" <=> handler[g].pc = "idle"
                            /\ g # h => handler'[g].pc = handler[g].pc
    BY <1>3, <1>5 DEF Finish, Step
  <1>7. /\ \A g \in Handlers, u \in Tokens : Holds(g, u)' <=> Holds(g, u)
        /\ \A g \in Handlers \ {h}, u \in Tokens : Works(g, u)' <=> Works(g, u)
        /\ \A u \in Tokens : ~Works(h, u)'
        /\ \A u \in Tokens : Holds(h, u) <=> u = t
    BY <1>3, <1>5, <1>6 DEF Holds, Works, Working
  <1> HIDE DEF t
  <1>8. Fresh'
    BY <1>1, <1>2, <1>3, <1>4, <1>7 DEF Fresh, Works
  <1>9. HandlersMatch'
    BY <1>2, <1>6, <1>7 DEF HandlersMatch
  <1>10. Alone'
    BY <1>3, <1>7 DEF Alone
  <1>11. ExecutingIsHeld'
    <2> SUFFICES ASSUME NEW u \in Tokens, pending'[u] # None, pending'[u].executing
                 PROVE  \E g \in Handlers : Works(g, u)'
      BY DEF ExecutingIsHeld
    <2>1. PICK g \in Handlers : Works(g, u)
      BY <1>2 DEF ExecutingIsHeld
    <2>2. g # h
      BY <1>2, <1>7, <2>1 DEF Works
    <2> QED
      BY <1>7, <2>1, <2>2
  <1>12. UsedUp'
    <2> SUFFICES ASSUME NEW u \in settled'
                 PROVE  pending'[u] = None /\ (u \in overlapped' \/ \A g \in Handlers : ~Works(g, u)')
      BY DEF UsedUp
    <2>1. CASE u \in settled
      BY <2>1, <1>2, <1>3, <1>7 DEF UsedUp, TypeOK
    <2>2. CASE u = t /\ pending'[t] = None
      BY <2>2, <1>1, <1>3, <1>7 DEF Alone
    <2> QED
      BY <2>1, <2>2, <1>4
  <1>13. Marked'
    <2> SUFFICES ASSUME NEW u \in Tokens \ retried'
                 PROVE  /\ u \notin overlapped'
                        /\ pending'[u] # None => \A g \in Handlers : Holds(g, u)' =>
                             handler'[g].pc \in Working /\ pending'[u].executing
      BY DEF Marked
    <2>1. u \notin retried /\ (u = t => pending'[u] = None)
      BY <1>4
    <2> QED
      BY <2>1, <1>2, <1>3, <1>6, <1>7 DEF Marked
  <1> QED
    BY <1>8, <1>9, <1>10, <1>11, <1>12, <1>13

LEMMA RestartKeeps ==
  ASSUME CInv, Restart
  PROVE  Bookkept'
  <1>1. /\ \A t \in Tokens : pending'[t] = None
        /\ \A h \in Handlers : handler'[h] = Waiting
        /\ UNCHANGED <<settled, retried, overlapped>> /\ counts'.tokens = counts.tokens
    BY MishapType DEF CInv, Restart, histories
  <1>2. \A h \in Handlers, t \in Tokens : ~Holds(h, t)' /\ ~Works(h, t)'
    BY <1>1, NoneIsNobody DEF Holds, Works, Waiting, Tokens
  <1> USE DEF CInv, Bookkept
  <1>3. Fresh'
    BY <1>1, <1>2 DEF Fresh
  <1>4. HandlersMatch' /\ Alone' /\ ExecutingIsHeld'
    BY <1>1, <1>2, NoneIsNobody DEF HandlersMatch, Alone, ExecutingIsHeld, Waiting, Tokens
  <1>5. UsedUp' /\ Marked'
    BY <1>1, <1>2 DEF UsedUp, Marked, TypeOK
  <1> QED
    BY <1>3, <1>4, <1>5

(* Every step keeps CInv.                                                   *)
LEMMA ProceedKeeps ==
  ASSUME CInv, NEW h \in Handlers, Proceed(h) \/ Fail(h) \/ Abandon(h)
  PROVE  CInv'
  <1> USE DEF CInv
  <1>1. ASSUME handler[h].pc # "idle" PROVE handler[h].token \in Tokens
    BY <1>1 DEF Bookkept, HandlersMatch
  <1>2. CASE Check(h) \/ ApplyUpload(h) \/ ApplyUpdate(h) \/ ApplyDelete(h) \/ Tidy(h) \/ Fail(h)
    <2>0. handler[h].pc # "idle"
      BY <1>2 DEF Check, ApplyUpload, ApplyUpdate, ApplyDelete, Tidy, Fail, Step
    <2>1. handler[h].pc \in Working
      BY <1>2 DEF Check, ApplyUpload, ApplyUpdate, ApplyDelete, Tidy, Fail, Step, Working
    <2>2. TypeOK'
      BY <1>1, <1>2, <2>0, CheckType, ApplyUploadType, ApplyUpdateType, ApplyDeleteType, TidyType, FailType
    <2>3. \/ handler' = [handler EXCEPT ![h].pc = "apply"]
          \/ handler' = [handler EXCEPT ![h].pc = "tidy"]
          \/ \E r \in {"done", "refused", "again"} :
               handler' = [handler EXCEPT ![h].pc = "finish", ![h].result = r]
      BY <1>2 DEF Check, ApplyUpload, ApplyUpdate, ApplyDelete, Tidy, Fail, Conclude
    <2>4. /\ UNCHANGED <<pending, histories>> /\ counts'.tokens = counts.tokens
      BY <1>2, MishapType DEF Check, ApplyUpload, ApplyUpdate, ApplyDelete, Tidy, Fail
    <2>5. /\ \A g \in Handlers \ {h} : handler'[g] = handler[g]
          /\ handler'[h].token = handler[h].token /\ handler'[h].op = handler[h].op
          /\ handler'[h].pc \in Working
      BY <2>3 DEF TypeOK, Working
    <2> QED
      BY <2>1, <2>2, <2>4, <2>5, MovesOn
  <1>3. CASE Finish(h)
    BY <1>1, <1>3, FinishType, FinishKeeps DEF Finish, Step
  <1>4. CASE DropGuard(h)
    <2>1. handler[h].token \in Tokens
      BY <1>1, <1>4 DEF DropGuard, Step
    <2> QED
      BY <1>4, <2>1, DropGuardType, LetsGo DEF DropGuard
  <1>5. CASE Abandon(h)
    <2>1. handler[h].token \in Tokens
      BY <1>1, <1>5 DEF Abandon
    <2> QED
      BY <1>5, <2>1, AbandonType, LetsGo, MishapType DEF Abandon
  <1> QED
    BY <1>2, <1>3, <1>4, <1>5 DEF Proceed

LEMMA NextKeeps ==
  ASSUME CInv, [Next]_vars
  PROVE  CInv'
  <1> USE DEF CInv
  <1>1. ASSUME NEW p \in Principals, NEW op \in Operations, Prepare(p, op) PROVE CInv'
    BY <1>1, PrepareType, PrepareKeeps
  <1>2. ASSUME NEW h \in Handlers, NEW p \in Principals, NEW t \in Tokens, Begin(h, p, t) PROVE CInv'
    BY <1>2, BeginType, BeginKeeps
  <1>3. ASSUME NEW h \in Handlers, Proceed(h) \/ Fail(h) \/ Abandon(h) PROVE CInv'
    BY <1>3, ProceedKeeps
  <1>4. ASSUME NEW t \in Tokens, Expire(t) \/ Ingest(t) PROVE CInv'
    <2>1. UNCHANGED <<handler, histories, counts, pending>>
      BY <1>4 DEF Expire, Ingest, library
    <2> QED
      BY <1>4, <2>1, SmallStepType, StagedGoes
  <1>5. CASE Sweep
    BY <1>5, SmallStepType, StagedGoes, UnexpiredType DEF Sweep
  <1>6. CASE Restart
    BY <1>6, SmallStepType, RestartKeeps
  <1>7. CASE UNCHANGED vars
    BY <1>7, SmallStepType, StagedGoes DEF vars
  <1> QED
    BY <1>1, <1>2, <1>3, <1>4, <1>5, <1>6, <1>7 DEF Next

(* CInv holds in every state.                                               *)
THEOREM Invariance == Spec => []CInv
  <1>1. Init => CInv
    BY InitType, InitBookkept DEF CInv
  <1>2. CInv /\ [Next]_vars => CInv'
    BY NextKeeps
  <1> QED
    BY <1>1, <1>2, PTL DEF Spec

-----------------------------------------------------------------------------
LEMMA ExecutorsWork == \A t, h : h \in Executors(t) <=> h \in Handlers /\ Works(h, t)
  BY DEF Executors, Works, Holds, Working

(* However many calls are under way, two of them work on a change only after   *)
(* one of its token was told to try again, and a token is marked as executing  *)
(* only while it is worked on (begin_confirmed_mutation, finish, the guard).  *)
THEOREM ExecutedOnceAtATime == Spec => []OneExecution
  <1>1. CInv => OneExecution
    <2> SUFFICES ASSUME CInv PROVE OneExecution
      OBVIOUS
    <2>1. ASSUME NEW t \in Tokens, t \notin retried PROVE Cardinality(Executors(t)) <= 1
      <3>1. CASE Executors(t) = {}
        BY <3>1, FS_EmptySet
      <3>2. CASE Executors(t) # {}
        <4>1. PICK h : h \in Executors(t)
          BY <3>2
        <4>2. t \notin overlapped
          BY <2>1 DEF CInv, Bookkept, Marked
        <4>3. Executors(t) = {h}
          BY <4>1, <4>2, ExecutorsWork DEF CInv, Bookkept, Alone
        <4> QED
          BY <4>3, FS_Singleton
      <3> QED
        BY <3>1, <3>2
    <2>2. ASSUME NEW t \in Tokens PROVE Cardinality(Executors(t)) \in Nat
      <3>1. Executors(t) \subseteq Handlers
        BY DEF Executors
      <3> QED
        BY <3>1, HandlersAreFinite, FS_Subset, FS_CardinalityType
    <2>3. \A t \in Tokens : Cardinality(Executors(t)) > 1 => t \in retried
      BY <2>1, <2>2
    <2>4. \A t \in Staged : pending[t].executing => Executors(t) # {}
      BY ExecutorsWork DEF CInv, Bookkept, ExecutingIsHeld, Staged
    <2> QED
      BY <2>3, <2>4 DEF OneExecution
  <1> QED
    BY <1>1, Invariance, PTL

LEMMA OnlyUsedByOverlap ==
  ASSUME CInv, [Next]_vars, NEW t \in settled, log' = Append(log, t)
  PROVE  t \in overlapped
  <1>1. t \in Tokens /\ log \in Seq(Tokens)
    BY DEF CInv, TypeOK
  <1>2. log' # log
    <2>1. Len(log') = Len(log) + 1 /\ Len(log) \in Nat
      BY <1>1
    <2> QED
      BY <2>1
  <1>3. PICK h \in Handlers : ApplyUpload(h) \/ ApplyUpdate(h) \/ ApplyDelete(h)
    BY <1>2 DEF Next, Prepare, Begin, Proceed, Check, Tidy, Finish, DropGuard, Fail, Abandon, Expire, Ingest,
                Sweep, Restart, library, vars
  <1>4. handler[h].pc = "apply" /\ log' = Append(log, handler[h].token)
    BY <1>2, <1>3 DEF ApplyUpload, ApplyUpdate, ApplyDelete, Applied, Step, library
  <1>5. handler[h].token \in Tokens
    BY <1>4 DEF CInv, Bookkept, HandlersMatch
  <1>6. handler[h].token = t
    <2>1. Append(log, t)[Len(log) + 1] = t /\ Append(log, handler[h].token)[Len(log) + 1] = handler[h].token
      BY <1>1, <1>5
    <2> QED
      BY <2>1, <1>4
  <1> QED
    BY <1>4, <1>6 DEF CInv, Bookkept, UsedUp, Holds, Works, Working

LEMMA NoneBeginsUsedUp ==
  ASSUME CInv, [Next]_vars, NEW t \in settled
  PROVE  Executors(t)' \subseteq Executors(t)
  <1> SUFFICES ASSUME NEW h \in Handlers, handler'[h].token = t, handler'[h].pc \in Working
               PROVE  handler[h].token = t /\ handler[h].pc \in Working
    BY DEF Executors, Working
  <1>1. t \in Tokens /\ t # None /\ pending[t] = None
    BY NoneIsNobody DEF CInv, TypeOK, Bookkept, UsedUp, Tokens
  <1>2. CASE UNCHANGED handler
    BY <1>2
  <1>3. ASSUME NEW g \in Handlers, NEW p \in Principals, NEW u \in Tokens, Begin(g, p, u)
        PROVE  handler[h].token = t /\ handler[h].pc \in Working
    <2>1. u # t
      BY <1>1, <1>3 DEF Begin, MayBegin, Staged
    <2>2. CASE g = h
      <3>1. handler'[h].token = u
        BY <1>3, <2>2 DEF Begin, CInv, TypeOK
      <3> QED
        BY <2>1, <3>1
    <2>3. CASE g # h
      BY <1>3, <2>3 DEF Begin, CInv, TypeOK
    <2> QED
      BY <2>2, <2>3
  <1>4. ASSUME NEW g \in Handlers, Proceed(g) \/ Fail(g) \/ Abandon(g)
        PROVE  handler[h].token = t /\ handler[h].pc \in Working
    <2>1. CASE g # h
      <3>1. handler'[h] = handler[h]
        BY <1>4, <2>1 DEF Proceed, Fail, Abandon, Check, ApplyUpload, ApplyUpdate, ApplyDelete, Tidy, Finish,
                          DropGuard, Conclude, CInv, TypeOK
      <3> QED
        BY <3>1
    <2>2. CASE g = h
      <3>1. CASE Check(g) \/ ApplyUpload(g) \/ ApplyUpdate(g) \/ ApplyDelete(g) \/ Tidy(g) \/ Fail(g)
        <4>1. handler[g].pc \in Working
          BY <3>1 DEF Check, ApplyUpload, ApplyUpdate, ApplyDelete, Tidy, Fail, Step, Working
        <4>2. handler'[g].token = handler[g].token
          BY <3>1 DEF Check, ApplyUpload, ApplyUpdate, ApplyDelete, Tidy, Fail, Conclude, CInv, TypeOK
        <4> QED
          BY <2>2, <4>1, <4>2
      <3>2. CASE Finish(g)
        <4>1. handler'[g].pc = "guard"
          BY <3>2 DEF Finish, CInv, TypeOK
        <4> QED
          BY <2>2, <4>1 DEF Working
      <3>3. CASE DropGuard(g) \/ Abandon(g)
        <4>1. handler'[g].token = None
          BY <3>3 DEF DropGuard, Abandon, Waiting, CInv, TypeOK
        <4> QED
          BY <1>1, <2>2, <4>1
      <3> QED
        BY <1>4, <3>1, <3>2, <3>3 DEF Proceed
    <2> QED
      BY <2>1, <2>2
  <1>5. ASSUME Restart PROVE FALSE
    <2>1. handler'[h].token = None
      BY <1>5 DEF Restart, Waiting
    <2> QED
      BY <1>1, <2>1
  <1>6. (\E p \in Principals, op \in Operations : Prepare(p, op)) => UNCHANGED handler
    BY DEF Prepare
  <1>7. (\E u \in Tokens : Expire(u) \/ Ingest(u)) \/ Sweep \/ UNCHANGED vars => UNCHANGED handler
    BY DEF Expire, Ingest, Sweep, vars
  <1> QED
    BY <1>2, <1>3, <1>4, <1>5, <1>6, <1>7 DEF Next

(* However many calls are under way, no call begins with a token that was used *)
(* up, and its change is carried out again only by a call that overlapped the  *)
(* one that used it up.                                                     *)
THEOREM UsedUpForGood == Spec => UsedUpStays
  <1>1. CInv /\ [Next]_vars =>
          [\A t \in settled :
             /\ Executors(t)' \subseteq Executors(t)
             /\ log' = Append(log, t) => t \in overlapped]_vars
    BY OnlyUsedByOverlap, NoneBeginsUsedUp
  <1> QED
    BY <1>1, Invariance, PTL DEF Spec, UsedUpStays

-----------------------------------------------------------------------------
(* What was carried out can be told from the library.                        *)
IsLogged(t) == \E i \in DOMAIN log : log[i] = t

(* A task, and a handler that has carried its change out, are of the log.     *)
Logged ==
  /\ \A t \in Tokens : tasks[t] # None => IsLogged(t)
  /\ \A h \in Handlers :
       handler[h].pc = "tidy" \/ (handler[h].result = "done" /\ handler[h].op # "delete") =>
         IsLogged(handler[h].token)

(* How the operation op of token t shows once it has been carried out.        *)
Shows(op, t) == IF op = "delete" THEN document = None ELSE tasks[t] # None

(* The change carried out last still shows, so that a retry of it finds it,   *)
(* when two calls never worked on it at a time.                              *)
IsLast(t) == log # <<>> /\ t = log[Len(log)]

LastShows ==
  \A t \in Tokens \ overlapped : IsLast(t) =>
    /\ t <= counts.tokens
    /\ pending[t] # None => Shows(pending[t].op, t)
    /\ \A h \in Handlers : Works(h, t) => Shows(handler[h].op, t)

(* A handler on its way to carry an upload or update out made sure that there *)
(* is no task of it, and while it works alone only this handler makes one.    *)
Unmade ==
  \A h \in Handlers :
    handler[h].pc = "apply" /\ handler[h].op # "delete" =>
      tasks[handler[h].token] = None \/ handler[h].token \in overlapped

NoRepeat == \A i \in DOMAIN log : i > 1 /\ log[i] = log[i - 1] => log[i] \in overlapped

AInv == Logged /\ LastShows /\ Unmade /\ NoRepeat

(* A step that changes nothing in the library, takes no token up and makes no *)
(* handler claim anything new.                                              *)
LEMMA LibraryFrame ==
  ASSUME CInv, AInv, UNCHANGED <<library, overlapped>>, counts'.tokens \in Nat, counts'.tokens >= counts.tokens,
         \A t \in Tokens : t <= counts.tokens /\ pending'[t] # None =>
           pending[t] # None /\ pending'[t].op = pending[t].op,
         \A g \in Handlers :
           \/ /\ handler'[g].token = handler[g].token /\ handler'[g].op = handler[g].op
              /\ handler'[g].pc \in Working => handler[g].pc \in Working
              /\ handler'[g].pc = "tidy" => handler[g].pc = "tidy"
              /\ handler'[g].pc = "apply" => handler[g].pc = "apply" \/ ~CarriedOut(g)
              /\ handler'[g].result = "done" /\ handler'[g].op # "delete" =>
                   handler[g].result = "done" \/ handler[g].pc = "tidy"
           \/ handler'[g] = Waiting
  PROVE  AInv'
  <1> USE DEF CInv, AInv
  <1>1. UNCHANGED <<document, tasks, log>>
    BY DEF library
  <1>2. \A t : IsLogged(t)' <=> IsLogged(t)
    BY <1>1 DEF IsLogged
  <1>3. Logged'
    BY <1>1, <1>2 DEF Logged, Waiting
  <1>4. \A op, t : (IsLast(t)' <=> IsLast(t)) /\ (Shows(op, t)' <=> Shows(op, t))
    BY <1>1 DEF IsLast, Shows
  <1>5. LastShows'
    <2> SUFFICES ASSUME NEW t \in Tokens \ overlapped, IsLast(t)
                 PROVE  /\ t <= counts'.tokens
                        /\ pending'[t] # None => Shows(pending'[t].op, t)
                        /\ \A h \in Handlers : Works(h, t)' => Shows(handler'[h].op, t)
      BY <1>4 DEF LastShows
    <2>1. t <= counts.tokens /\ t \in Nat /\ counts.tokens \in Nat /\ t # None
      BY NoneIsNobody DEF LastShows, TypeOK, Tokens
    <2>2. pending'[t] # None => Shows(pending'[t].op, t)
      BY <2>1 DEF LastShows
    <2>3. \A h \in Handlers : Works(h, t)' => Shows(handler'[h].op, t)
      BY <2>1 DEF LastShows, Holds, Works, Waiting
    <2> QED
      BY <2>1, <2>2, <2>3
  <1>6. NoRepeat'
    BY <1>1 DEF NoRepeat
  <1>7. Unmade'
    BY <1>1 DEF Unmade, CarriedOut, Waiting
  <1> QED
    BY <1>3, <1>5, <1>6, <1>7

(* The handler of token t carries its change out, and goes on to tidy up or   *)
(* to conclude.                                                             *)
LEMMA CarriesOut ==
  ASSUME CInv, AInv, NEW h \in Handlers, NEW t, t = handler[h].token,
         NEW op, op = handler[h].op,
         handler[h].pc = "apply", Applied(t), ~Shows(op, t) \/ t \in overlapped,
         UNCHANGED <<pending, overlapped, counts>>,
         \/ handler' = [handler EXCEPT ![h].pc = "tidy"]
         \/ Conclude(h, "done"),
         Shows(op, t)',
         \A u \in Tokens : tasks'[u] # None => tasks[u] # None \/ u = t
  PROVE  AInv'
  <1> USE DEF CInv, AInv
  <1>1. t \in Tokens
    BY DEF Bookkept, HandlersMatch
  <1>2. /\ log \in Seq(Tokens) /\ log' = Append(log, t) /\ Len(log) \in Nat
    BY DEF TypeOK, Applied
  <1>3. /\ Len(log') = Len(log) + 1 /\ log'[Len(log')] = t /\ log' # <<>>
        /\ DOMAIN log' = 1 .. (Len(log) + 1) /\ DOMAIN log = 1 .. Len(log)
        /\ \A i \in DOMAIN log : log'[i] = log[i]
    BY <1>1, <1>2
  <1>4. IsLogged(t)' /\ \A u : IsLogged(u) => IsLogged(u)'
    <2>1. Len(log') \in DOMAIN log'
      BY <1>2, <1>3
    <2>2. DOMAIN log \subseteq DOMAIN log'
      BY <1>2, <1>3
    <2> QED
      BY <1>3, <2>1, <2>2 DEF IsLogged
  <1>5. /\ \A g \in Handlers \ {h} : handler'[g] = handler[g]
        /\ handler'[h].token = t /\ handler'[h].op = handler[h].op
        /\ handler[h].pc \in Working /\ handler'[h].pc # "apply"
    BY DEF TypeOK, Conclude, Working
  <1>6. Logged'
    BY <1>4, <1>5 DEF Logged
  <1>7. LastShows'
    <2>0. \A u : IsLast(u)' => u = t
      BY <1>3 DEF IsLast
    <2>1. t <= counts.tokens
      BY <1>1 DEF Bookkept, Fresh, Holds, TypeOK, Tokens
    <2>2. pending[t] # None => pending[t].op = handler[h].op
      BY <1>1 DEF Bookkept, HandlersMatch, Holds
    <2>3. ASSUME t \notin overlapped, NEW g \in Handlers, Works(g, t)' PROVE g = h
      BY <1>1, <1>5, <2>3 DEF Bookkept, Alone, Holds, Works
    <2> QED
      BY <1>5, <2>0, <2>1, <2>2, <2>3 DEF LastShows
  <1>8. NoRepeat'
    <2> SUFFICES ASSUME NEW i \in DOMAIN log', i > 1, log'[i] = log'[i - 1]
                 PROVE  log'[i] \in overlapped
      BY DEF NoRepeat
    <2>1. i \in Nat /\ i <= Len(log) + 1
      BY <1>2, <1>3
    <2>2. i - 1 \in DOMAIN log
      BY <1>2, <1>3, <2>1
    <2>3. CASE i \in DOMAIN log
      BY <1>3, <2>2, <2>3 DEF NoRepeat
    <2>4. CASE i \notin DOMAIN log
      <3>1. i = Len(log) + 1 /\ i - 1 = Len(log) /\ log # <<>>
        BY <1>2, <1>3, <2>1, <2>2, <2>4
      <3>2. log'[i] = t /\ log'[i - 1] = log[Len(log)]
        BY <1>3, <2>2, <3>1
      <3>3. log[Len(log)] # t \/ t \in overlapped
        BY <1>1, <1>5, <3>1 DEF LastShows, IsLast, Holds, Works
      <3> QED
        BY <3>2, <3>3
    <2> QED
      BY <2>3, <2>4
  <1>9. Unmade'
    <2>1. ASSUME NEW g \in Handlers, g # h, handler[g].pc = "apply"
          PROVE  handler[g].token \in Tokens /\ (handler[g].token # t \/ t \in overlapped)
      BY <1>1, <1>5, <2>1 DEF Bookkept, HandlersMatch, Alone, Holds, Works, Working
    <2> QED
      BY <1>5, <2>1 DEF Unmade
  <1> QED
    BY <1>6, <1>7, <1>8, <1>9

LEMMA InitAnswers == Init => AInv
  BY NoneIsNobody DEF Init, AInv, Logged, LastShows, IsLast, Unmade, NoRepeat, Waiting

LEMMA PrepareAnswers ==
  ASSUME CInv, AInv, NEW p \in Principals, NEW op \in Operations, Prepare(p, op)
  PROVE  AInv'
  <1> USE DEF CInv
  <1>1. /\ counts'.tokens = counts.tokens + 1 /\ counts.tokens \in Nat
        /\ UNCHANGED <<library, handler, overlapped>>
    BY DEF Prepare, histories, TypeOK
  <1>2. \A t \in Tokens : t <= counts.tokens => pending'[t] = Unexpired[t]
    BY <1>1, UnexpiredType DEF Prepare, Tokens
  <1> QED
    BY <1>1, <1>2, UnexpiredType, LibraryFrame

LEMMA BeginAnswers ==
  ASSUME CInv, AInv, NEW h \in Handlers, NEW p \in Principals, NEW t \in Tokens, Begin(h, p, t)
  PROVE  AInv'
  <1> USE DEF CInv, AInv
  <1>1. /\ pending[t] # None /\ Unexpired[t] = pending[t]
        /\ pending[t] \in [owner: Principals, op: Operations, executing: BOOLEAN]
    BY BeginType DEF TypeOK
  <1>2. \A u \in Tokens : pending'[u] # None =>
          pending[u] # None /\ pending'[u].op = pending[u].op
    <2>1. pending' = [Unexpired EXCEPT ![t] = [Unexpired[t] EXCEPT !.executing = TRUE]]
      BY DEF Begin
    <2>2. pending'[t].op = pending[t].op
      BY <1>1, <2>1, UnexpiredType
    <2> QED
      BY <1>1, <2>1, <2>2, UnexpiredType
  <1>3. /\ handler'[h] = [pc |-> "check", token |-> t, who |-> p, op |-> pending[t].op, result |-> "none"]
        /\ \A g \in Handlers \ {h} : handler'[g] = handler[g]
        /\ UNCHANGED <<document, tasks, log, counts>> /\ overlapped \subseteq overlapped'
    BY DEF Begin, TypeOK, library
  <1>4. \A u : IsLogged(u)' <=> IsLogged(u)
    BY <1>3 DEF IsLogged
  <1>5. Logged'
    BY <1>3, <1>4 DEF Logged
  <1>6. LastShows'
    <2> SUFFICES ASSUME NEW u \in Tokens \ overlapped, IsLast(u)'
                 PROVE  /\ u <= counts'.tokens
                        /\ (pending[u] # None => Shows(pending[u].op, u))'
                        /\ \A g \in Handlers : (Works(g, u) => Shows(handler[g].op, u))'
      BY <1>3 DEF LastShows
    <2>1. IsLast(u) /\ \A op : Shows(op, u)' <=> Shows(op, u)
      BY <1>3 DEF Shows, IsLast
    <2>2. u <= counts.tokens /\ counts' = counts
      BY <1>3, <2>1 DEF LastShows
    <2>3. pending'[u] # None => Shows(pending'[u].op, u)
      BY <1>2, <2>1 DEF LastShows
    <2>4. \A g \in Handlers : Works(g, u)' => Shows(handler'[g].op, u)
      BY <1>1, <1>3, <2>1 DEF LastShows, Holds, Works
    <2> QED
      BY <2>1, <2>2, <2>3, <2>4
  <1>7. NoRepeat'
    BY <1>3 DEF NoRepeat
  <1>8. Unmade'
    BY <1>3 DEF Unmade
  <1> QED
    BY <1>5, <1>6, <1>7, <1>8

LEMMA CheckAnswers ==
  ASSUME CInv, AInv, NEW h \in Handlers, Check(h)
  PROVE  AInv'
  <1> USE DEF CInv
  <1> DEFINE t == handler[h].token
  <1>1. t \in Tokens /\ handler[h] \in
          [pc: {"idle", "check", "apply", "tidy", "finish", "guard"},
           token: Tokens \cup {None}, who: Principals \cup {None},
           op: Operations \cup {"none"}, result: {"none", "done", "refused", "again"}]
    BY DEF Check, Step, Bookkept, HandlersMatch, TypeOK
  <1>2. UNCHANGED <<library, pending, overlapped, counts>> /\ counts.tokens \in Nat
    BY DEF Check, histories, TypeOK
  <1>3. CASE CarriedOut(h) /\ Conclude(h, "done")
    <2>1. handler[h].op # "delete" => IsLogged(t)
      BY <1>1, <1>3 DEF CarriedOut, AInv, Logged
    <2>2. /\ \A g \in Handlers \ {h} : handler'[g] = handler[g]
          /\ handler'[h].token = t /\ handler'[h].op = handler[h].op /\ handler'[h].pc = "finish"
          /\ handler[h].pc \in Working
      BY <1>1, <1>3 DEF Conclude, TypeOK, Check, Step, Working
    <2>3. UNCHANGED <<document, tasks, log>>
      BY <1>2 DEF library
    <2>4. \A u : IsLogged(u)' <=> IsLogged(u)
      BY <2>3 DEF IsLogged
    <2>5. Logged'
      BY <2>1, <2>2, <2>3, <2>4 DEF AInv, Logged
    <2>6. LastShows'
      BY <1>2, <2>2, <2>3 DEF AInv, LastShows, Holds, Works, Shows, IsLast
    <2>7. NoRepeat' /\ Unmade'
      BY <1>2, <2>2, <2>3 DEF AInv, NoRepeat, Unmade
    <2> QED
      BY <2>5, <2>6, <2>7 DEF AInv
  <1>4. CASE ~CarriedOut(h)
    <2>1. \/ handler' = [handler EXCEPT ![h].pc = "apply"]
          \/ Conclude(h, "refused")
      BY <1>4 DEF Check
    <2>2. \A g \in Handlers :
            /\ handler'[g].token = handler[g].token /\ handler'[g].op = handler[g].op
            /\ handler'[g].pc \in Working => handler[g].pc \in Working
            /\ handler'[g].pc = "tidy" => handler[g].pc = "tidy"
            /\ handler'[g].pc = "apply" => handler[g].pc = "apply" \/ ~CarriedOut(g)
            /\ handler'[g].result = "done" => handler[g].result = "done"
      <3>1. \A g \in Handlers \ {h} : handler'[g] = handler[g]
        BY <2>1 DEF Conclude, TypeOK
      <3>2. \/ handler'[h] = [handler[h] EXCEPT !.pc = "apply"]
            \/ handler'[h] = [handler[h] EXCEPT !.pc = "finish", !.result = "refused"]
        BY <2>1 DEF Conclude, TypeOK
      <3>3. /\ handler'[h].token = handler[h].token /\ handler'[h].op = handler[h].op
            /\ handler'[h].pc # "tidy" /\ handler[h].pc \in Working
            /\ handler'[h].result = "done" => handler[h].result = "done"
        BY <1>1, <3>2 DEF Check, Step, Working
      <3> QED
        BY <1>4, <3>1, <3>3
    <2> QED
      BY <1>2, <2>2, LibraryFrame
  <1> QED
    BY <1>3, <1>4 DEF Check

(* A handler that concludes without success, having changed nothing.         *)
LEMMA GivesUp ==
  ASSUME CInv, AInv, NEW h \in Handlers, Conclude(h, "again"), handler[h].pc \in Working,
         UNCHANGED <<library, pending, overlapped>>, counts'.tokens = counts.tokens
  PROVE  AInv'
  <1>1. \A g \in Handlers :
          /\ handler'[g].token = handler[g].token /\ handler'[g].op = handler[g].op
          /\ handler'[g].pc \in Working => handler[g].pc \in Working
          /\ handler'[g].pc \in {"tidy", "apply"} => handler'[g].pc = handler[g].pc
          /\ handler'[g].result = "done" => handler[g].result = "done"
    BY DEF CInv, Conclude, TypeOK
  <1>2. counts.tokens \in Nat
    BY DEF CInv, TypeOK
  <1> QED
    BY <1>1, <1>2, LibraryFrame

LEMMA ApplyAnswers ==
  ASSUME CInv, AInv, NEW h \in Handlers, ApplyUpload(h) \/ ApplyUpdate(h) \/ ApplyDelete(h)
  PROVE  AInv'
  <1> USE DEF CInv
  <1> SUFFICES ASSUME NEW t, t = handler[h].token
               PROVE  AInv'
    OBVIOUS
  <1>1. t \in Tokens /\ handler[h].pc = "apply" /\ handler[h].pc \in Working
    BY DEF ApplyUpload, ApplyUpdate, ApplyDelete, Step, Bookkept, HandlersMatch, Working
  <1>2. UNCHANGED <<pending, overlapped, counts>>
    BY DEF ApplyUpload, ApplyUpdate, ApplyDelete, histories
  <1>3. CASE Conclude(h, "again") /\ UNCHANGED library
    BY <1>1, <1>2, <1>3, GivesUp
  <1>4. CASE ~(Conclude(h, "again") /\ UNCHANGED library)
    <2>1. CASE ApplyUpload(h)
      <3>1. /\ handler[h].op = "upload" /\ tasks[t] = None
            /\ tasks' = [tasks EXCEPT ![t] = "pending"]
            /\ Applied(t) /\ Conclude(h, "done")
        BY <1>4, <2>1 DEF ApplyUpload
      <3>2. Shows("upload", t)' /\ ~Shows("upload", t)
        BY <1>1, <3>1, NoneIsNobody DEF Shows, TypeOK
      <3>3. \A u \in Tokens : tasks'[u] # None => tasks[u] # None \/ u = t
        BY <3>1 DEF TypeOK
      <3> QED
        BY <1>1, <1>2, <3>1, <3>2, <3>3, CarriesOut
    <2>2. CASE ApplyUpdate(h)
      <3>1. /\ handler[h].op = "update" /\ document # None /\ WithoutWaiting[t] = None
            /\ tasks' = [WithoutWaiting EXCEPT ![t] = "pending"]
            /\ Applied(t) /\ handler' = [handler EXCEPT ![h].pc = "tidy"]
        BY <1>4, <2>2 DEF ApplyUpdate
      <3>2. tasks[t] = None \/ t \in overlapped
        BY <1>1, <3>1 DEF AInv, Unmade
      <3>3. WithoutWaiting \in [Tokens -> {None, "pending", "running", "completed"}]
              /\ \A u \in Tokens : WithoutWaiting[u] # None => tasks[u] # None
        BY DEF WithoutWaiting, TypeOK
      <3>4. Shows("update", t)' /\ (~Shows("update", t) \/ t \in overlapped)
        BY <1>1, <3>1, <3>2, <3>3, NoneIsNobody DEF Shows
      <3>5. \A u \in Tokens : tasks'[u] # None => tasks[u] # None \/ u = t
        BY <3>1, <3>3
      <3> QED
        BY <1>1, <1>2, <3>1, <3>4, <3>5, CarriesOut
    <2>3. CASE ApplyDelete(h)
      <3>1. /\ handler[h].op = "delete" /\ document # None /\ document' = None
            /\ tasks' = [u \in Tokens |-> None]
            /\ Applied(t) /\ handler' = [handler EXCEPT ![h].pc = "tidy"]
        BY <1>4, <2>3 DEF ApplyDelete
      <3>2. Shows("delete", t)' /\ ~Shows("delete", t)
        BY <3>1 DEF Shows
      <3> QED
        BY <1>1, <1>2, <3>1, <3>2, CarriesOut
    <2> QED
      BY <2>1, <2>2, <2>3
  <1> QED
    BY <1>3, <1>4

(* The other steps: the library keeps what was carried out.                  *)
LEMMA ProceedAnswers ==
  ASSUME CInv, AInv, NEW h \in Handlers, Proceed(h) \/ Fail(h) \/ Abandon(h)
  PROVE  AInv'
  <1> USE DEF CInv
  <1>0. counts.tokens \in Nat
    BY DEF TypeOK
  <1>1. CASE Check(h)
    BY <1>1, CheckAnswers
  <1>2. CASE ApplyUpload(h) \/ ApplyUpdate(h) \/ ApplyDelete(h)
    BY <1>2, ApplyAnswers
  <1>3. CASE Tidy(h)
    <2>1. \A g \in Handlers :
            /\ handler'[g].token = handler[g].token /\ handler'[g].op = handler[g].op
            /\ handler'[g].pc \in Working => handler[g].pc \in Working
            /\ handler'[g].pc \in {"tidy", "apply"} => handler'[g].pc = handler[g].pc
            /\ handler'[g].result = "done" => handler[g].result = "done" \/ handler[g].pc = "tidy"
      BY <1>3 DEF Tidy, Step, Conclude, TypeOK, Working
    <2>2. UNCHANGED <<library, pending, overlapped, counts>>
      BY <1>3 DEF Tidy, histories
    <2> QED
      BY <1>0, <2>1, <2>2, LibraryFrame
  <1>4. CASE Fail(h)
    BY <1>4, MishapType, GivesUp DEF Fail, histories, Working
  <1>5. ASSUME Finish(h) \/ DropGuard(h) \/ Abandon(h)
        PROVE  AInv'
    <2>1. handler[h].token \in Tokens
      BY <1>5 DEF Finish, DropGuard, Abandon, Step, Bookkept, HandlersMatch
    <2>2. \A u \in Tokens : pending'[u] # None => pending[u] # None /\ pending'[u].op = pending[u].op
      <3>1. \/ pending' = Released(handler[h].token)
            \/ pending' = [pending EXCEPT ![handler[h].token] = None]
        BY <1>5 DEF Finish, Finished, DropGuard, Abandon
      <3>2. CASE pending' = Released(handler[h].token)
        BY <2>1, <3>2, ReleasedType
      <3>3. CASE pending' = [pending EXCEPT ![handler[h].token] = None]
        BY <2>1, <3>3 DEF TypeOK
      <3> QED
        BY <3>1, <3>2, <3>3
    <2>3. \A g \in Handlers :
            \/ /\ handler'[g].token = handler[g].token /\ handler'[g].op = handler[g].op
               /\ handler'[g].pc \in Working => handler[g].pc \in Working
               /\ handler'[g].pc \in {"tidy", "apply"} => handler'[g].pc = handler[g].pc
               /\ handler'[g].result = handler[g].result
            \/ handler'[g] = Waiting
      BY <1>5 DEF Finish, DropGuard, Abandon, TypeOK, Working
    <2>4. UNCHANGED <<library, overlapped>> /\ counts'.tokens = counts.tokens
      BY <1>5, MishapType DEF Finish, DropGuard, Abandon, histories
    <2> QED
      BY <1>0, <2>2, <2>3, <2>4, LibraryFrame
  <1> QED
    BY <1>1, <1>2, <1>3, <1>4, <1>5 DEF Proceed

LEMMA TasksMoveOn ==
  ASSUME CInv, AInv, UNCHANGED <<document, log, overlapped>>, counts'.tokens = counts.tokens,
         \A t \in Tokens : tasks'[t] = None <=> tasks[t] = None,
         \A t \in Tokens : pending'[t] = pending[t] \/ pending'[t] = None,
         \A h \in Handlers : handler'[h] = handler[h] \/ handler'[h] = Waiting
  PROVE  AInv'
  <1> USE DEF CInv, AInv
  <1>1. \A t : IsLogged(t)' <=> IsLogged(t)
    BY DEF IsLogged
  <1>2. Logged'
    BY <1>1 DEF Logged, Waiting
  <1>3. LastShows'
    <2> SUFFICES ASSUME NEW t \in Tokens \ overlapped, IsLast(t)'
                 PROVE  /\ t <= counts'.tokens
                        /\ (pending[t] # None => Shows(pending[t].op, t))'
                        /\ \A g \in Handlers : (Works(g, t) => Shows(handler[g].op, t))'
      BY DEF LastShows
    <2>1. t # None /\ IsLast(t)
      BY NoneIsNobody DEF Tokens, IsLast
    <2>2. \A op : Shows(op, t)' <=> Shows(op, t)
      BY <2>1 DEF Shows
    <2>3. \A g \in Handlers : Works(g, t)' => handler'[g] = handler[g]
      BY <2>1 DEF Holds, Works, Waiting
    <2> QED
      BY <2>1, <2>2, <2>3 DEF LastShows, Holds, Works
  <1>4. Unmade'
    <2>1. \A h \in Handlers : handler[h].pc = "apply" => handler[h].token \in Tokens
      BY DEF Bookkept, HandlersMatch
    <2> QED
      BY <2>1 DEF Unmade, Waiting
  <1>5. NoRepeat'
    BY DEF NoRepeat
  <1> QED
    BY <1>2, <1>3, <1>4, <1>5

LEMMA NextAnswers ==
  ASSUME CInv, AInv, [Next]_vars
  PROVE  AInv'
  <1> USE DEF CInv
  <1>1. ASSUME NEW t \in Tokens, Expire(t)
        PROVE  AInv'
    BY <1>1, TasksMoveOn DEF Expire, library, histories
  <1>2. ASSUME NEW t \in Tokens, Ingest(t)
        PROVE  AInv'
    <2>1. \A u \in Tokens : tasks'[u] = None <=> tasks[u] = None
      BY <1>2, NoneIsNobody DEF Ingest, TypeOK
    <2> QED
      BY <1>2, <2>1, TasksMoveOn DEF Ingest, histories
  <1>3. CASE Sweep
    BY <1>3, UnexpiredType, TasksMoveOn DEF Sweep, library, histories
  <1>4. CASE Restart
    <2>1. \A u \in Tokens : tasks'[u] = None <=> tasks[u] = None
      BY <1>4, NoneIsNobody DEF Restart, TypeOK
    <2>2. counts'.tokens = counts.tokens
      BY <1>4, MishapType DEF Restart
    <2> QED
      BY <1>4, <2>1, <2>2, TasksMoveOn DEF Restart, histories
  <1>5. CASE UNCHANGED vars
    BY <1>5, TasksMoveOn DEF vars, histories, library
  <1> QED
    BY <1>1, <1>2, <1>3, <1>4, <1>5, PrepareAnswers, BeginAnswers, ProceedAnswers DEF Next

(* However many calls are under way, what callers are told is true: a change   *)
(* is not repeated by the retry that follows it unless two calls worked on it  *)
(* at a time, and an upload or update is reported as done only when it was     *)
(* carried out (execute_upload, execute_update, execute_delete and the tasks   *)
(* that bear their tokens).                                                 *)
THEOREM AnswersTrue == Spec => []AnswersAreTrue
  <1>1. Init => AInv
    BY InitAnswers
  <1>2. CInv /\ AInv /\ [Next]_vars => AInv'
    BY NextAnswers
  <1>3. AInv => AnswersAreTrue
    BY DEF AInv, Logged, NoRepeat, IsLogged, AnswersAreTrue
  <1> QED
    BY <1>1, <1>2, <1>3, Invariance, PTL DEF Spec
=============================================================================
