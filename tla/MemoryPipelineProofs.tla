------------------------ MODULE MemoryPipelineProofs ------------------------
(* What the pipeline of memory-pipeline makes of the answers it got: proofs *)
(* for any windows, batches, numbers of attempts and bounds.                *)
EXTENDS MemoryPipeline, FiniteSetTheorems, TLAPS

Busy == pc \in {"look", "ask", "save"}
Tokens == supported \cup rejected \cup quarantined

(* A memory is in one of the three sets.                                    *)
Once(m) ==
  \/ m \in supported /\ m \notin rejected /\ m \notin quarantined
  \/ m \notin supported /\ m \in rejected /\ m \notin quarantined
  \/ m \notin supported /\ m \notin rejected /\ m \in quarantined

(* The loop has left no trace of the windows ahead of it.                   *)
Ahead ==
  pc # "stopped" =>
    /\ \A v \in WindowIds : v > w => used[v] = NoEntry
    /\ \A m \in Tokens : m[1] <= w

(* What is known of the window at hand, before and after its extraction.    *)
Unextracted == used[w] = NoEntry /\ \A m \in Tokens : m[1] # w

Validated ==
  /\ used[w] \in Batches
  /\ \A i \in DOMAIN used[w] :
       /\ <<w, i>> \in rejected <=> used[w][i].check = "rejected"
       /\ <<w, i>> \in quarantined <=> used[w][i].check = "quarantined"
       /\ <<w, i>> \notin supported

AtHand == Busy => IF call.stage = "extract" THEN Unextracted ELSE Validated

(* Of the windows the loop has left nothing is lost.                        *)
Left(v) == IF used[v] = NoEntry THEN <<v, 0>> \in rejected
                                ELSE \A i \in DOMAIN used[v] : Once(<<v, i>>)
LeftWhole == pc # "stopped" => \A v \in Through : Left(v)

(* What is supported was validated, and so answered.                        *)
Verified(m) ==
  /\ m[2] \in Valid(used[m[1]])
  /\ cacheOn => \E e \in grounded : /\ e.w = m[1] /\ e.of = used[m[1]]
                                    /\ used[m[1]][m[2]].content \in e.ids
AllVerified == \A m \in supported : Verified(m)

(* An answer that waits to be cached is one to the call at hand, which the   *)
(* cache could not answer.                                                  *)
AnswerFits ==
  pc = "save" =>
    /\ answer.stage = call.stage
    /\ call.stage = "extract" => answer.batch \in Batches
    /\ call.stage = "ground" => answer.ids \subseteq Ids(used[w])
Missed == cacheOn /\ pc \in {"ask", "save"} => Kept = {}

(* The cache answers every call in one way, and the loop went by it but at   *)
(* the windows where it passed over an entry it could not read.             *)
OneAnswer == \A e, f \in grounded : e.w = f.w /\ e.of = f.of => e.ids = f.ids
ByCache(v) ==
  IF used[v] = NoEntry THEN extracted[v] = NoEntry
  ELSE \A e \in grounded : e.w = v /\ e.of = used[v] =>
         \A i \in Valid(used[v]) : used[v][i].content \in e.ids => <<v, i>> \in supported
LeftByCache == cacheOn /\ pc # "stopped" => \A v \in Through \ skipped : ByCache(v)

PInv ==
  /\ TypeOK /\ Ahead /\ AtHand /\ LeftWhole /\ AllVerified /\ AnswerFits
  /\ RunAgreesWithCache /\ Missed /\ (cacheOn => OneAnswer) /\ LeftByCache

-----------------------------------------------------------------------------
(* Types.                                                                   *)
Writing == pc \in {"write1", "write2", "write3"}
Calls == [stage : {"extract", "ground"}, repair : 0 .. RepairAttempts,
          sem : 0 .. SemanticAttempts - 1, attempt : Nat]

LEMMA FreshIsCall ==
  \A s \in {"extract", "ground"} : Fresh(s) \in Calls /\ Fresh(s).attempt = 0 /\ Fresh(s).stage = s
  BY PipelineAssumption DEF Fresh, Calls

LEMMA WindowFacts ==
  ASSUME TypeOK, Busy, NextWindow
  PROVE  /\ w' \in WindowIds /\ pc' \in {"look", "write1"}
         /\ call' = Fresh("extract") /\ answer' = NoAnswer
         /\ pc' = "look" => w' = w + 1
         /\ pc' = "write1" => w' = w /\ w = NumWindows
  BY PipelineAssumption DEF TypeOK, NextWindow, WindowIds, Busy

LEMMA WindowsLeft ==
  ASSUME TypeOK, Busy, NextWindow
  PROVE  /\ \A v \in WindowIds : v \in Through' <=> v <= w
         /\ Through' \subseteq WindowIds
         /\ \A v \in WindowIds : v \in Through <=> v < w
  BY WindowFacts, PipelineAssumption DEF TypeOK, WindowIds, Busy, Through

LEMMA ThroughIsWindows ==
  ASSUME TypeOK PROVE Through \subseteq WindowIds
  BY PipelineAssumption DEF TypeOK, WindowIds, Through

LEMMA Batched ==
  ASSUME NEW b \in Batches
  PROVE  /\ b # NoEntry /\ DOMAIN b \subseteq Nat /\ Valid(b) \subseteq DOMAIN b
         /\ \A i \in DOMAIN b : b[i].check \in {"valid", "rejected", "quarantined"}
  BY PipelineAssumption DEF Valid

(* What the run and the cache consist of, without the counters of the call.  *)
Parts == <<w, used, supported, rejected, quarantined, cacheOn, skipped, extracted, grounded>>

(* A step that stays in the window, the files or the stop, and leaves the    *)
(* run and the cache alone.                                                 *)
LEMMA Steady ==
  ASSUME PInv, TypeOK', UNCHANGED Parts,
         \/ pc' = "stopped"
         \/ Writing /\ Writing'
         \/ Busy /\ Busy' /\ call'.stage = call.stage /\ AnswerFits' /\ Missed'
  PROVE  PInv'
  <1> USE DEF Parts
  <1>1. Valid(NoEntry) = Valid(NoEntry)' /\ UNCHANGED Tokens
    BY DEF PInv, Valid, Tokens
  <1>2. AllVerified' /\ RunAgreesWithCache' /\ (cacheOn => OneAnswer)'
    BY DEF PInv, AllVerified, Verified, RunAgreesWithCache, OneAnswer, Valid
  <1>3. CASE pc' = "stopped"
    BY <1>2, <1>3 DEF PInv, Ahead, AtHand, LeftWhole, LeftByCache, AnswerFits, Missed, Busy
  <1>4. CASE Writing /\ Writing'
    <2>1. Through' = Through
      BY <1>4 DEF Through, Writing
    <2>2. Ahead' /\ AtHand' /\ AnswerFits' /\ Missed'
      BY <1>1, <1>4 DEF PInv, Ahead, AtHand, AnswerFits, Missed, Busy, Writing
    <2>3. LeftWhole' /\ LeftByCache'
      BY <2>1, <1>4 DEF PInv, LeftWhole, LeftByCache, Left, Once, ByCache, Valid, Writing
    <2> QED
      BY <1>2, <2>2, <2>3 DEF PInv
  <1>5. CASE Busy /\ Busy' /\ call'.stage = call.stage /\ AnswerFits' /\ Missed'
    <2>1. Through' = Through
      BY <1>5 DEF Through, Busy
    <2>2. Ahead' /\ AtHand'
      BY <1>1, <1>5 DEF PInv, Ahead, AtHand, Unextracted, Validated, Busy
    <2>3. LeftWhole' /\ LeftByCache'
      BY <2>1, <1>5 DEF PInv, LeftWhole, LeftByCache, Left, Once, ByCache, Valid, Busy
    <2> QED
      BY <1>2, <1>5, <2>2, <2>3 DEF PInv
  <1> QED
    BY <1>3, <1>4, <1>5

(* A step that takes the loop to the next window: what it leaves behind for  *)
(* the window at hand is all that there is to show.                         *)
Elsewhere(S) == \A m \in S \cup S' : m[1] # w => (m \in S <=> m \in S')

LEMMA Advance ==
  ASSUME PInv, Busy, NextWindow, UNCHANGED cacheOn, NEW z \in WindowIds, w = z,
         skipped \subseteq skipped',
         \A v \in WindowIds : v # z => used'[v] = used[v] /\ extracted'[v] = extracted[v],
         Elsewhere(supported), Elsewhere(rejected), Elsewhere(quarantined),
         supported' \subseteq Token,
         grounded \subseteq grounded', \A e \in grounded' : e.w # z => e \in grounded,
         Left(z)', cacheOn => ByCache(z)' \/ z \in skipped', cacheOn => used'[z] \in {NoEntry, extracted'[z]},
         \A m \in supported' : m[1] = z => Verified(m)'
  PROVE  /\ Ahead' /\ AtHand' /\ LeftWhole' /\ AllVerified' /\ AnswerFits'
         /\ RunAgreesWithCache' /\ Missed' /\ LeftByCache'
  <1>1. /\ w' \in WindowIds /\ pc' \in {"look", "write1"}
        /\ call'.stage = "extract"
        /\ pc' = "look" => w' = z + 1
        /\ pc' = "write1" => w' = z /\ z = NumWindows
    BY WindowFacts, FreshIsCall DEF PInv
  <1>2. /\ \A v \in WindowIds : v \in Through' <=> v <= z
        /\ Through' \subseteq WindowIds
        /\ \A v \in WindowIds : v \in Through <=> v < z
    BY WindowsLeft DEF PInv
  <1>3. WindowIds \subseteq Nat /\ NumWindows \in Nat
    BY PipelineAssumption DEF WindowIds
  <1>4. \A m : m[1] # z => /\ m \in supported <=> m \in supported'
                           /\ m \in rejected <=> m \in rejected'
                           /\ m \in quarantined <=> m \in quarantined'
    BY DEF Elsewhere
  <1>5. \A m \in Tokens : m[1] \in WindowIds /\ m[1] <= z
    BY DEF PInv, Ahead, Busy, TypeOK, Token, Tokens
  <1>6. \A m \in Tokens' : m[1] = z \/ m \in Tokens
    BY <1>4 DEF Tokens
  <1>7. Ahead'
    <2>1. w' >= z /\ z \in Nat /\ w' \in Nat
      BY <1>1, <1>3
    <2>2. ASSUME NEW v \in WindowIds, v > w' PROVE used'[v] = NoEntry
      <3>1. v > z /\ v # z
        BY <1>3, <2>1, <2>2
      <3> QED
        BY <3>1 DEF PInv, Ahead, Busy
    <2>3. ASSUME NEW m \in Tokens' PROVE m[1] <= w'
      <3>1. m[1] = z \/ (m[1] \in Nat /\ m[1] <= z)
        BY <1>3, <1>5, <1>6
      <3> QED
        BY <2>1, <3>1
    <2> QED
      BY <2>2, <2>3 DEF Ahead
  <1>8. AtHand'
    <2>1. CASE pc' = "look"
      <3>1. w' > z /\ w' # z
        BY <1>1, <1>3, <2>1
      <3>2. used'[w'] = NoEntry
        BY <1>1, <3>1 DEF PInv, Ahead, Busy
      <3>3. \A m \in Tokens' : m[1] # w'
        BY <1>1, <1>3, <1>5, <1>6, <3>1
      <3> QED
        BY <1>1, <3>2, <3>3 DEF AtHand, Unextracted
    <2> QED
      BY <1>1, <2>1 DEF AtHand, Busy
  <1>9. LeftWhole'
    <2> SUFFICES ASSUME NEW v \in Through' PROVE Left(v)'
      BY DEF LeftWhole
    <2>1. CASE v # z
      <3>1. v \in Through /\ v \in WindowIds
        BY <1>2, <1>3, <2>1
      <3>2. Left(v) /\ used'[v] = used[v]
        BY <2>1, <3>1 DEF PInv, LeftWhole, Busy
      <3> QED
        BY <1>4, <2>1, <3>2 DEF Left, Once
    <2> QED
      BY <2>1
  <1>10. AllVerified'
    <2> SUFFICES ASSUME NEW m \in supported', m[1] # z PROVE Verified(m)'
      BY DEF AllVerified
    <2>1. m \in supported /\ Verified(m) /\ m[1] \in WindowIds
      BY <1>4, <1>5 DEF PInv, AllVerified, Tokens
    <2>2. used'[m[1]] = used[m[1]]
      BY <2>1
    <2> QED
      BY <2>1, <2>2 DEF Verified, Valid
  <1>11. AnswerFits' /\ Missed'
    BY <1>1 DEF AnswerFits, Missed
  <1>12. RunAgreesWithCache'
    BY DEF PInv, RunAgreesWithCache
  <1>13. LeftByCache'
    <2> SUFFICES ASSUME cacheOn, NEW v \in Through' \ skipped' PROVE ByCache(v)'
      BY DEF LeftByCache
    <2>1. CASE v # z
      <3>1. v \in Through \ skipped /\ v \in WindowIds
        BY <1>2, <1>3, <2>1
      <3>2. ByCache(v) /\ used'[v] = used[v] /\ extracted'[v] = extracted[v]
        BY <2>1, <3>1 DEF PInv, LeftByCache, Busy
      <3>3. \A i : <<v, i>> \in supported => <<v, i>> \in supported'
        BY <1>4, <2>1
      <3>4. \A e \in grounded' : e.w = v => e \in grounded
        BY <2>1
      <3> QED
        BY <3>2, <3>3, <3>4 DEF ByCache, Valid
    <2> QED
      BY <2>1
  <1> QED
    BY <1>7, <1>8, <1>9, <1>10, <1>11, <1>12, <1>13

-----------------------------------------------------------------------------
(* A call fails.                                                            *)
Errors == {"budget", "provider", "parse", "twins", "omitted", "disk", "unread"}

LEMMA CallFailsKeeps ==
  ASSUME PInv, Busy, NEW why \in Errors, CallFails(why), UNCHANGED <<cacheOn, cache>>,
         runs' = runs, mishaps' \in 0 .. MaxMishaps,
         \/ skipped' = skipped /\ (cacheOn => Kept = {})
         \/ skipped' = IF failFast THEN skipped ELSE skipped \cup {w}
  PROVE  PInv'
  <1> USE DEF cache
  <1>1. /\ used' = used /\ supported' = supported /\ failFast' = failFast /\ error' = why
        /\ UNCHANGED <<cacheOn, extracted, grounded>>
    BY DEF CallFails
  <1>2. CASE failFast
    <2>1. /\ pc' = "stopped" /\ answer' = NoAnswer
          /\ UNCHANGED <<w, call, rejected, quarantined, skipped>>
      BY <1>2 DEF CallFails
    <2>2. TypeOK'
      BY <1>1, <2>1 DEF PInv, TypeOK, Errors
    <2> QED
      BY <1>1, <2>1, <2>2, Steady DEF Parts
  <1>3. CASE ~failFast
    <2> DEFINE lost == IF call.stage = "extract" THEN {<<w, 0>>} ELSE {}
               doubtful == IF call.stage = "extract" THEN {} ELSE Quarantine(used[w])
    <2>1. NextWindow /\ rejected' = rejected \cup lost /\ quarantined' = quarantined \cup doubtful
      BY <1>3 DEF CallFails
    <2>2. PICK z \in WindowIds : w = z
      BY DEF PInv, TypeOK
    <2>3. call.stage \in {"extract", "ground"}
      BY DEF PInv, TypeOK
    <2>4. lost \cup doubtful \subseteq Token /\ \A m \in lost \cup doubtful : m[1] = z
      <3>1. CASE call.stage = "extract"
        BY <2>2, <3>1 DEF Token
      <3>2. CASE call.stage = "ground"
        <4>1. Valid(used[z]) \subseteq Nat
          BY <2>2, <3>2, Batched DEF PInv, AtHand, Validated
        <4> QED
          BY <2>2, <3>2, <4>1 DEF Token, Quarantine
      <3> QED
        BY <2>3, <3>1, <3>2
    <2>5. TypeOK'
      <3>1. w' \in WindowIds /\ pc' \in {"look", "write1"} /\ call' \in Calls
            /\ call'.attempt = 0 /\ answer' = NoAnswer
        BY <2>1, WindowFacts, FreshIsCall DEF PInv
      <3>2. rejected' \subseteq Token /\ quarantined' \subseteq Token
        BY <2>1, <2>4 DEF PInv, TypeOK
      <3>3. skipped' \subseteq WindowIds
        BY <2>2 DEF PInv, TypeOK
      <3> QED
        BY <1>1, <3>1, <3>2, <3>3 DEF PInv, TypeOK, Calls, Errors
    <2>6. Left(z)'
      <3>1. CASE call.stage = "extract"
        BY <1>1, <2>1, <2>2, <3>1 DEF PInv, AtHand, Unextracted, Left
      <3>2. CASE call.stage = "ground"
        <4>1. used[z] \in Batches /\ Validated
          BY <2>2, <3>2 DEF PInv, AtHand, Validated
        <4>2. ASSUME NEW i \in DOMAIN used[z] PROVE Once(<<z, i>>)'
          <5>1. <<z, i>> \in doubtful <=> used[z][i].check = "valid"
            BY <2>2, <3>2 DEF Quarantine, Valid
          <5>2. lost = {}
            BY <3>2
          <5>3. used[z][i].check \in {"valid", "rejected", "quarantined"}
            BY <4>1, Batched
          <5> HIDE DEF lost, doubtful
          <5> QED
            BY <1>1, <2>1, <2>2, <4>1, <5>1, <5>2, <5>3 DEF Validated, Once
        <4> QED
          BY <1>1, <4>1, <4>2, Batched DEF Left
      <3> QED
        BY <2>3, <3>1, <3>2
    <2>7. cacheOn => ByCache(z)' \/ z \in skipped'
      <3> SUFFICES ASSUME cacheOn, z \notin skipped', Kept = {} PROVE ByCache(z)'
        BY <1>3, <2>2
      <3>1. CASE call.stage = "extract"
        BY <1>1, <2>2, <3>1 DEF PInv, AtHand, Unextracted, ByCache, Kept
      <3>2. CASE call.stage = "ground"
        <4>1. used[z] # NoEntry
          BY <2>2, <3>2, Batched DEF PInv, AtHand, Validated
        <4>2. \A e \in grounded : ~(e.w = z /\ e.of = used[z])
          BY <2>2, <3>2 DEF Kept
        <4> QED
          BY <1>1, <4>1, <4>2 DEF ByCache
      <3> QED
        BY <2>3, <3>1, <3>2
    <2>8. Elsewhere(supported) /\ Elsewhere(rejected) /\ Elsewhere(quarantined)
      <3> HIDE DEF lost, doubtful
      <3> QED
        BY <1>1, <2>1, <2>2, <2>4 DEF Elsewhere
    <2>9. cacheOn => used'[z] \in {NoEntry, extracted'[z]}
      BY <1>1 DEF PInv, RunAgreesWithCache
    <2>10. \A m \in supported' : m[1] = z => Verified(m)'
      BY <1>1 DEF PInv, AllVerified, Verified, Valid
    <2>11. supported' \subseteq Token
      BY <1>1 DEF PInv, TypeOK
    <2>12. /\ Ahead' /\ AtHand' /\ LeftWhole' /\ AllVerified' /\ AnswerFits'
           /\ RunAgreesWithCache' /\ Missed' /\ LeftByCache'
      <3>1. skipped \subseteq skipped'
        OBVIOUS
      <3> HIDE DEF lost, doubtful
      <3> QED
        BY <1>1, <2>1, <2>2, <2>6, <2>7, <2>8, <2>9, <2>10, <2>11, <3>1, Advance
    <2>13. (cacheOn => OneAnswer)'
      BY <1>1 DEF PInv, OneAnswer
    <2> QED
      BY <2>5, <2>12, <2>13 DEF PInv
  <1> QED
    BY <1>2, <1>3

-----------------------------------------------------------------------------
(* A batch comes, from the cache or from the model.                         *)
LEMMA ExtractedKeeps ==
  ASSUME PInv, Busy, call.stage = "extract", NEW b \in Batches, Extracted(b),
         UNCHANGED <<cacheOn, skipped, grounded, runs, mishaps>>,
         extracted' = IF cacheOn THEN [extracted EXCEPT ![w] = b] ELSE extracted
  PROVE  PInv'
  <1> DEFINE no == {i \in DOMAIN b : b[i].check = "rejected"}
             maybe == {i \in DOMAIN b : b[i].check = "quarantined"}
  <1>1. PICK z \in WindowIds : w = z
    BY DEF PInv, TypeOK
  <1>2. /\ used' = [used EXCEPT ![z] = b]
        /\ rejected' = rejected \cup {<<z, i>> : i \in no}
        /\ quarantined' = quarantined \cup {<<z, i>> : i \in maybe}
        /\ supported' = supported /\ failFast' = failFast /\ error' = error
    BY <1>1 DEF Extracted
  <1>3. used \in [WindowIds -> Batches \cup {NoEntry}] /\ extracted \in [WindowIds -> Batches \cup {NoEntry}]
    BY DEF PInv, TypeOK
  <1>4. /\ used' \in [WindowIds -> Batches \cup {NoEntry}] /\ used'[z] = b
        /\ extracted' \in [WindowIds -> Batches \cup {NoEntry}]
        /\ cacheOn => extracted'[z] = b
        /\ \A v \in WindowIds : v # z => used'[v] = used[v] /\ extracted'[v] = extracted[v]
    BY <1>1, <1>2, <1>3
  <1>5. b # NoEntry /\ no \subseteq Nat /\ maybe \subseteq Nat /\ Valid(b) \subseteq Nat
        /\ \A i \in DOMAIN b : b[i].check \in {"valid", "rejected", "quarantined"}
    BY Batched
  <1>6. supported' \subseteq Token /\ rejected' \subseteq Token /\ quarantined' \subseteq Token
    BY <1>2, <1>5 DEF PInv, TypeOK, Token
  <1>7. Unextracted
    BY DEF PInv, AtHand
  <1>8. Elsewhere(supported) /\ Elsewhere(rejected) /\ Elsewhere(quarantined)
    BY <1>1, <1>2 DEF Elsewhere
  <1>9. \A i \in DOMAIN b : /\ <<z, i>> \in rejected' <=> b[i].check = "rejected"
                            /\ <<z, i>> \in quarantined' <=> b[i].check = "quarantined"
                            /\ <<z, i>> \notin supported'
    BY <1>1, <1>2, <1>7 DEF Unextracted, Tokens
  <1>10. (cacheOn => OneAnswer)'
    BY DEF PInv, OneAnswer
  <1> HIDE DEF no, maybe
  <1>11. TypeOK' <=> /\ pc' \in {"stopped", "look", "ask", "save", "write1", "write2", "write3"}
                     /\ w' \in WindowIds /\ call' \in Calls
                     /\ (call'.attempt = 0 \/ call'.attempt < MaxRetries)
                     /\ (answer' = NoAnswer \/ (pc' = "save" /\ answer'.stage = call'.stage))
    BY <1>2, <1>4, <1>6 DEF PInv, TypeOK, Calls
  <1>12. CASE Valid(b) = {}
    <2>1. NextWindow
      BY <1>12 DEF Extracted
    <2>2. TypeOK'
      BY <1>11, <2>1, WindowFacts, FreshIsCall DEF PInv
    <2>3. Left(z)'
      BY <1>4, <1>5, <1>9, <1>12 DEF Left, Once, Valid
    <2>4. cacheOn => ByCache(z)'
      BY <1>4, <1>5, <1>12 DEF ByCache, Valid
    <2>5. \A m \in supported' : m[1] = z => Verified(m)'
      BY <1>1, <1>2, <1>7 DEF Unextracted, Tokens
    <2>6. /\ Ahead' /\ AtHand' /\ LeftWhole' /\ AllVerified' /\ AnswerFits'
          /\ RunAgreesWithCache' /\ Missed' /\ LeftByCache'
      BY <1>1, <1>4, <1>6, <1>8, <2>1, <2>3, <2>4, <2>5, Advance
    <2> QED
      BY <1>10, <2>2, <2>6 DEF PInv
  <1>13. CASE Valid(b) # {}
    <2>1. pc' = "look" /\ call' = Fresh("ground") /\ answer' = NoAnswer /\ w' = z
      BY <1>1, <1>13 DEF Extracted
    <2>2. TypeOK' /\ call'.stage = "ground"
      BY <1>11, <2>1, FreshIsCall DEF PInv
    <2>3. AtHand'
      BY <1>4, <1>9, <2>1, <2>2 DEF AtHand, Validated
    <2>4. WindowIds \subseteq Nat /\ Through' = Through /\ Through \subseteq WindowIds /\ \A v \in Through : v # z
      BY <1>1, <2>1, PipelineAssumption DEF Through, WindowIds, Busy
    <2>5. Ahead'
      <3>1. \A m \in Tokens' : m[1] = z \/ m \in Tokens
        BY <1>2 DEF Tokens
      <3>2. ASSUME NEW v \in WindowIds, v > z PROVE used'[v] = NoEntry
        BY <1>1, <1>4, <2>4, <3>2 DEF PInv, Ahead, Busy
      <3>3. \A m \in Tokens' : m[1] <= z
        BY <1>1, <2>4, <3>1 DEF PInv, Ahead, Busy
      <3> QED
        BY <2>1, <3>2, <3>3 DEF Ahead
    <2>6. \A v \in Through : /\ used'[v] = used[v] /\ extracted'[v] = extracted[v]
                             /\ \A i : /\ <<v, i>> \in supported <=> <<v, i>> \in supported'
                                       /\ <<v, i>> \in rejected <=> <<v, i>> \in rejected'
                                       /\ <<v, i>> \in quarantined <=> <<v, i>> \in quarantined'
      BY <1>1, <1>4, <1>8, <2>4 DEF Elsewhere
    <2>7. LeftWhole'
      BY <2>1, <2>4, <2>6 DEF PInv, LeftWhole, Left, Once, Busy
    <2>8. LeftByCache'
      BY <2>1, <2>4, <2>6 DEF PInv, LeftByCache, ByCache, Busy, Valid
    <2>9. AllVerified'
      <3> SUFFICES ASSUME NEW m \in supported PROVE Verified(m)'
        BY <1>2 DEF AllVerified
      <3>1. m[1] \in WindowIds /\ m[1] # z /\ Verified(m)
        BY <1>1, <1>7 DEF Unextracted, Tokens, PInv, AllVerified, TypeOK, Token
      <3>2. used'[m[1]] = used[m[1]]
        BY <1>4, <3>1
      <3> QED
        BY <3>1, <3>2 DEF Verified, Valid
    <2>10. AnswerFits' /\ Missed' /\ RunAgreesWithCache'
      BY <1>4, <2>1 DEF PInv, AnswerFits, Missed, RunAgreesWithCache
    <2> QED
      BY <1>10, <2>2, <2>3, <2>5, <2>7, <2>8, <2>9, <2>10 DEF PInv
  <1> QED
    BY <1>12, <1>13

(* The verdicts about a batch come, from the cache or from the model.        *)
LEMMA GroundedKeeps ==
  ASSUME PInv, Busy, call.stage = "ground", NEW ids, Grounded(ids),
         UNCHANGED <<cacheOn, skipped, extracted, runs, mishaps>>,
         grounded \subseteq grounded', \A e \in grounded' : e.w # w => e \in grounded,
         cacheOn => \E e \in grounded' : e.w = w /\ e.of = used[w] /\ e.ids = ids,
         (cacheOn => OneAnswer)',
         \A e \in grounded' : e.w \in WindowIds /\ e.of \in Batches /\ e.ids \subseteq Ids(e.of)
  PROVE  PInv'
  <1>1. PICK z \in WindowIds : w = z
    BY DEF PInv, TypeOK
  <1>2. PICK b \in Batches : b = used[z]
    BY <1>1 DEF PInv, AtHand, Validated
  <1> DEFINE yes == {i \in Valid(b) : b[i].content \in ids}
  <1>3. /\ used' = used /\ rejected' = rejected /\ failFast' = failFast /\ error' = error
        /\ supported' = supported \cup {<<z, i>> : i \in yes}
        /\ quarantined' = quarantined \cup {<<z, i>> : i \in Valid(b) \ yes}
        /\ NextWindow
    BY <1>1, <1>2 DEF Grounded, Supports
  <1>4. b # NoEntry /\ Valid(b) \subseteq Nat /\ Valid(b) \subseteq DOMAIN b
        /\ \A i \in DOMAIN b : b[i].check \in {"valid", "rejected", "quarantined"}
    BY Batched
  <1>5. supported' \subseteq Token /\ rejected' \subseteq Token /\ quarantined' \subseteq Token
    BY <1>3, <1>4 DEF PInv, TypeOK, Token
  <1>6. TypeOK'
    <2>1. w' \in WindowIds /\ pc' \in {"look", "write1"} /\ call' \in Calls
          /\ call'.attempt = 0 /\ answer' = NoAnswer
      BY <1>3, WindowFacts, FreshIsCall DEF PInv
    <2> QED
      BY <1>3, <1>5, <2>1 DEF PInv, TypeOK, Calls, Ids, Valid
  <1>7. Elsewhere(supported) /\ Elsewhere(rejected) /\ Elsewhere(quarantined)
    BY <1>1, <1>3 DEF Elsewhere
  <1>8. \A i \in DOMAIN b : /\ <<z, i>> \in rejected <=> b[i].check = "rejected"
                            /\ <<z, i>> \in quarantined <=> b[i].check = "quarantined"
                            /\ <<z, i>> \notin supported
    BY <1>1, <1>2 DEF PInv, AtHand, Validated
  <1>9. \A i \in DOMAIN b : i \in Valid(b) <=> b[i].check = "valid"
    BY DEF Valid
  <1>10. Left(z)'
    <2>1. ASSUME NEW i \in DOMAIN b PROVE Once(<<z, i>>)'
      <3>1. i \in yes <=> i \in Valid(b) /\ b[i].content \in ids
        OBVIOUS
      <3> HIDE DEF yes
      <3>2. /\ <<z, i>> \in supported' <=> i \in yes
            /\ <<z, i>> \in quarantined' <=> b[i].check = "quarantined" \/ (i \in Valid(b) /\ i \notin yes)
            /\ <<z, i>> \in rejected' <=> b[i].check = "rejected"
        BY <1>3, <1>8
      <3> QED
        BY <1>4, <1>9, <3>1, <3>2 DEF Once
    <2> QED
      BY <1>2, <1>3, <1>4, <2>1 DEF Left
  <1>11. cacheOn => ByCache(z)'
    <2> SUFFICES ASSUME cacheOn, NEW e \in grounded', e.w = z, e.of = b,
                        NEW i \in Valid(b), b[i].content \in e.ids
                 PROVE  <<z, i>> \in supported'
      BY <1>2, <1>3, <1>4 DEF ByCache, Valid
    <2>1. e.ids = ids
      BY <1>1, <1>2 DEF OneAnswer
    <2> QED
      BY <1>3, <2>1
  <1>12. cacheOn => used'[z] \in {NoEntry, extracted'[z]}
    BY <1>3 DEF PInv, RunAgreesWithCache
  <1>13. \A m \in supported' : m[1] = z => Verified(m)'
    <2> SUFFICES ASSUME NEW m \in supported', m[1] = z PROVE Verified(m)'
      OBVIOUS
    <2>1. m[2] \in yes
      <3>1. m \in supported => m[2] \in Nat /\ m = <<z, m[2]>>
        BY DEF PInv, TypeOK, Token
      <3>2. m \in supported => m[2] \in DOMAIN b
        BY <1>2, <3>1 DEF PInv, AllVerified, Verified, Valid
      <3>3. m \notin supported
        BY <1>8, <3>1, <3>2
      <3> QED
        BY <1>3, <3>3
    <2>2. used'[m[1]] = b
      BY <1>2, <1>3
    <2>3. m[2] \in Valid(b) /\ b[m[2]].content \in ids
      BY <2>1
    <2>4. cacheOn => \E e \in grounded' : e.w = z /\ e.of = b /\ b[m[2]].content \in e.ids
      BY <1>1, <1>2, <2>3
    <2> QED
      BY <2>2, <2>3, <2>4 DEF Verified, Valid
  <1>14. /\ Ahead' /\ AtHand' /\ LeftWhole' /\ AllVerified' /\ AnswerFits'
         /\ RunAgreesWithCache' /\ Missed' /\ LeftByCache'
    BY <1>1, <1>3, <1>5, <1>7, <1>10, <1>11, <1>12, <1>13, Advance
  <1> QED
    BY <1>6, <1>14 DEF PInv

-----------------------------------------------------------------------------
(* Steps that wait, ask again or stop.                                      *)
LEMMA InitP == Init => PInv
  <1> SUFFICES ASSUME Init PROVE PInv
    OBVIOUS
  <1>1. TypeOK
    BY PipelineAssumption DEF Init, TypeOK, Fresh, Token, WindowIds
  <1>2. Ahead /\ AtHand /\ LeftWhole /\ AllVerified /\ AnswerFits /\ Missed /\ LeftByCache
    BY DEF Init, Ahead, AtHand, LeftWhole, AllVerified, AnswerFits, Missed, LeftByCache, Busy
  <1>3. RunAgreesWithCache /\ OneAnswer
    BY DEF Init, RunAgreesWithCache, OneAnswer
  <1> QED
    BY <1>1, <1>2, <1>3 DEF PInv

LEMMA StartKeeps ==
  ASSUME PInv, NEW ff \in BOOLEAN, Start(ff) PROVE PInv'
  <1>1. /\ w' = 1 /\ pc' = "look" /\ call' = Fresh("extract") /\ answer' = NoAnswer
        /\ used' = [v \in WindowIds |-> NoEntry] /\ failFast' = ff /\ error' = "none"
        /\ supported' = {} /\ rejected' = {} /\ quarantined' = {} /\ skipped' = {}
        /\ UNCHANGED <<cacheOn, extracted, grounded, mishaps>> /\ runs' = runs + 1 /\ runs < MaxRuns
    BY DEF Start, cache
  <1>2. 1 \in WindowIds /\ Through' = {}
    BY <1>1, PipelineAssumption DEF WindowIds, Through
  <1>3. TypeOK'
    BY <1>1, <1>2, FreshIsCall, PipelineAssumption DEF PInv, TypeOK, Calls, Token
  <1>4. Ahead' /\ AtHand' /\ LeftWhole' /\ LeftByCache' /\ AllVerified'
    BY <1>1, <1>2, FreshIsCall
       DEF Ahead, AtHand, Unextracted, LeftWhole, LeftByCache, AllVerified, Tokens
  <1>5. AnswerFits' /\ Missed' /\ RunAgreesWithCache' /\ (cacheOn => OneAnswer)'
    BY <1>1 DEF PInv, AnswerFits, Missed, RunAgreesWithCache, OneAnswer
  <1> QED
    BY <1>3, <1>4, <1>5 DEF PInv

LEMMA LookHitKeeps ==
  ASSUME PInv, LookHit PROVE PInv'
  <1>1. PICK a \in Kept : Outcome(a)
    BY DEF LookHit
  <1>2. Busy /\ cacheOn /\ UNCHANGED <<cacheOn, skipped, extracted, grounded, runs, mishaps>>
    BY <1>1 DEF LookHit, cache, Busy, Kept
  <1>3. call.stage \in {"extract", "ground"}
    BY DEF PInv, TypeOK
  <1>4. CASE call.stage = "extract"
    <2>1. PICK b \in {extracted[w]} \ {NoEntry} : a = [stage |-> "extract", batch |-> b]
      BY <1>1, <1>2, <1>4 DEF Kept
    <2>2. b \in Batches /\ b = extracted[w] /\ w \in WindowIds
      BY <2>1 DEF PInv, TypeOK
    <2>3. extracted' = [extracted EXCEPT ![w] = b]
      BY <1>2, <2>2 DEF PInv, TypeOK
    <2>4. Extracted(b)
      BY <1>1, <2>1 DEF Outcome
    <2> QED
      BY <1>2, <1>4, <2>2, <2>3, <2>4, ExtractedKeeps
  <1>5. CASE call.stage = "ground"
    <2>1. PICK e \in grounded : e.w = w /\ e.of = used[w] /\ a = [stage |-> "ground", ids |-> e.ids]
      BY <1>1, <1>2, <1>5 DEF Kept
    <2>2. Grounded(e.ids)
      BY <1>1, <2>1 DEF Outcome
    <2>3. (cacheOn => OneAnswer)'
      BY <1>2 DEF PInv, OneAnswer
    <2>4. \A x \in grounded' : x.w \in WindowIds /\ x.of \in Batches /\ x.ids \subseteq Ids(x.of)
      BY <1>2 DEF PInv, TypeOK
    <2> QED
      BY <1>2, <1>5, <2>1, <2>2, <2>3, <2>4, GroundedKeeps
  <1> QED
    BY <1>3, <1>4, <1>5

LEMMA LookMissKeeps ==
  ASSUME PInv, LookMiss PROVE PInv'
  <1>1. /\ pc = "look" /\ pc' = "ask" /\ Kept = {} /\ call' = call
        /\ UNCHANGED Parts /\ UNCHANGED <<failFast, answer, error, runs, mishaps>>
    BY DEF LookMiss, cache, Parts
  <1>2. TypeOK'
    BY <1>1 DEF PInv, TypeOK, Parts
  <1>3. AnswerFits' /\ Missed'
    BY <1>1 DEF AnswerFits, Missed, Kept, Parts
  <1> QED
    BY <1>1, <1>2, <1>3, Steady DEF Busy

(* The request is sent once more.                                           *)
LEMMA AskedAgain ==
  ASSUME PInv, pc = "ask", call' \in Calls, call'.stage = call.stage,
         call'.attempt = 0 \/ call'.attempt < MaxRetries,
         UNCHANGED <<failFast, pc, answer, error, runs, mishaps>>, UNCHANGED Parts
  PROVE  PInv'
  <1>1. TypeOK'
    BY DEF PInv, TypeOK, Parts, Calls
  <1>2. AnswerFits' /\ Missed'
    BY DEF PInv, AnswerFits, Missed, Kept, Parts
  <1> QED
    BY <1>1, <1>2, Steady DEF Busy

LEMMA Failing ==
  ASSUME PInv, pc = "ask", NEW why \in Errors, CallFails(why),
         UNCHANGED <<cacheOn, skipped, cache, disk, runs, mishaps>>
  PROVE  PInv'
  <1>1. Busy /\ mishaps' \in 0 .. MaxMishaps /\ (cacheOn => Kept = {})
    BY DEF PInv, TypeOK, Busy, Missed
  <1> QED
    BY <1>1, CallFailsKeeps

LEMMA ReplyKeeps ==
  ASSUME PInv, Reply PROVE PInv'
  <1> USE DEF Errors
  <1>0. call \in Calls /\ call.attempt \in Nat
    BY DEF PInv, TypeOK, Calls
  <1>1. CASE OverBudget
    BY <1>1, Failing DEF OverBudget
  <1>2. CASE AttemptFails
    <2>1. CASE call.attempt + 1 < MaxRetries
      <3>1. call' = Again(call) /\ UNCHANGED <<failFast, pc, answer, error, runs, mishaps>> /\ UNCHANGED Parts
        BY <1>2, <2>1 DEF AttemptFails, cache, Parts
      <3>2. call' \in Calls /\ call'.stage = call.stage /\ call'.attempt = call.attempt + 1
        BY <1>0, <3>1 DEF Again, Calls
      <3> QED
        BY <1>2, <2>1, <3>1, <3>2, AskedAgain DEF AttemptFails
    <2> QED
      BY <1>2, <2>1, Failing DEF AttemptFails
  <1>3. CASE RequestRefused
    BY <1>3, Failing DEF RequestRefused
  <1>4. CASE ReasoningOnly
    <2>1. CASE call.sem + 1 < SemanticAttempts
      <3>1. call' = [call EXCEPT !.sem = @ + 1, !.attempt = 0]
            /\ UNCHANGED <<failFast, pc, answer, error, runs, mishaps>> /\ UNCHANGED Parts
        BY <1>4, <2>1 DEF ReasoningOnly, cache, Parts
      <3>2. call' \in Calls /\ call'.stage = call.stage /\ call'.attempt = 0
        <4>1. call.sem + 1 \in 0 .. SemanticAttempts - 1 /\ 0 \in Nat
          BY <1>0, <2>1, PipelineAssumption DEF Calls
        <4> QED
          BY <1>0, <3>1, <4>1 DEF Calls
      <3> QED
        BY <1>4, <3>1, <3>2, AskedAgain DEF ReasoningOnly
    <2> QED
      BY <1>4, <2>1, Failing DEF ReasoningOnly
  <1>5. ASSUME NEW why \in {"parse", "twins", "omitted"}, Unparsable(why) PROVE PInv'
    <2>1. CASE call.repair < RepairAttempts
      <3>1. call' = [call EXCEPT !.repair = @ + 1, !.sem = 0, !.attempt = 0]
            /\ UNCHANGED <<failFast, pc, answer, error, runs, mishaps>> /\ UNCHANGED Parts
        BY <1>5, <2>1 DEF Unparsable, cache, Parts
      <3>2. call' \in Calls /\ call'.stage = call.stage /\ call'.attempt = 0
        <4>1. call.repair + 1 \in 0 .. RepairAttempts /\ 0 \in 0 .. SemanticAttempts - 1 /\ 0 \in Nat
          BY <1>0, <2>1, PipelineAssumption DEF Calls
        <4> QED
          BY <1>0, <3>1, <4>1 DEF Calls
      <3> QED
        BY <1>5, <3>1, <3>2, AskedAgain DEF Unparsable
    <2> QED
      BY <1>5, <2>1, Failing DEF Unparsable
  <1>6. CASE AnswerParsed
    <2>1. /\ pc = "ask" /\ pc' = "save" /\ call' = call
          /\ UNCHANGED <<failFast, error, runs, mishaps>> /\ UNCHANGED Parts
      BY <1>6 DEF AnswerParsed, cache, Parts
    <2>2. /\ answer'.stage = call.stage
          /\ call.stage = "extract" => answer'.batch \in Batches
          /\ call.stage = "ground" => answer'.ids \subseteq Ids(used[w])
      BY <1>6 DEF AnswerParsed
    <2>3. TypeOK'
      BY <2>1, <2>2 DEF PInv, TypeOK, Parts
    <2>4. AnswerFits' /\ Missed'
      BY <2>1, <2>2 DEF PInv, AnswerFits, Missed, Kept, Parts, Ids, Valid
    <2> QED
      BY <2>1, <2>3, <2>4, Steady DEF Busy
  <1> QED
    BY <1>1, <1>2, <1>3, <1>4, <1>5, <1>6 DEF Reply

(* An answer goes into the cache and is used.                               *)
LEMMA SaveKeeps ==
  ASSUME PInv, Save PROVE PInv'
  <1>1. /\ pc = "save" /\ Busy /\ UNCHANGED <<cacheOn, skipped, runs, mishaps>>
        /\ answer.stage = call.stage /\ call.stage \in {"extract", "ground"}
    BY DEF Save, Busy, PInv, TypeOK, AnswerFits
  <1>2. CASE call.stage = "extract"
    <2>1. /\ answer.batch \in Batches /\ Extracted(answer.batch) /\ grounded' = grounded
          /\ extracted' = IF cacheOn THEN [extracted EXCEPT ![w] = answer.batch] ELSE extracted
      BY <1>1, <1>2 DEF Save, Outcome, PInv, AnswerFits
    <2> QED
      BY <1>1, <1>2, <2>1, ExtractedKeeps
  <1>3. CASE call.stage = "ground"
    <2> DEFINE entry == [w |-> w, of |-> used[w], ids |-> answer.ids]
    <2>1. /\ Grounded(answer.ids) /\ extracted' = extracted
          /\ grounded' = IF cacheOn THEN grounded \cup {entry} ELSE grounded
          /\ answer.ids \subseteq Ids(used[w])
      BY <1>1, <1>3 DEF Save, Outcome, PInv, AnswerFits
    <2>2. entry.w = w /\ entry.of = used[w] /\ entry.ids = answer.ids
      OBVIOUS
    <2>3. PICK n : n = entry
      OBVIOUS
    <2> HIDE DEF entry
    <2>4. used[w] \in Batches /\ w \in WindowIds
      BY <1>1, <1>3 DEF PInv, TypeOK, AtHand, Validated
    <2>5. \A e \in grounded' : e.w \in WindowIds /\ e.of \in Batches /\ e.ids \subseteq Ids(e.of)
      BY <2>1, <2>2, <2>4 DEF PInv, TypeOK
    <2>6. cacheOn => \A e \in grounded : ~(e.w = w /\ e.of = used[w])
      BY <1>1, <1>3 DEF PInv, Missed, Kept
    <2>7. (cacheOn => OneAnswer)'
      BY <1>1, <2>1, <2>2, <2>3, <2>6 DEF PInv, OneAnswer
    <2>8. /\ grounded \subseteq grounded' /\ \A e \in grounded' : e.w # w => e \in grounded
          /\ cacheOn => \E e \in grounded' : e.w = w /\ e.of = used[w] /\ e.ids = answer.ids
      BY <2>1, <2>2
    <2> QED
      BY <1>1, <1>3, <2>1, <2>5, <2>7, <2>8, GroundedKeeps
  <1> QED
    BY <1>1, <1>2, <1>3

LEMMA SaveFailsKeeps ==
  ASSUME PInv, SaveFails PROVE PInv'
  <1>1. /\ Busy /\ "disk" \in Errors /\ CallFails("disk")
        /\ UNCHANGED <<cacheOn, skipped, cache>> /\ runs' = runs
        /\ mishaps' = mishaps + 1 /\ mishaps < MaxMishaps
        /\ (cacheOn => Kept = {})
    BY DEF SaveFails, Busy, Errors, PInv, Missed
  <1>2. mishaps' \in 0 .. MaxMishaps
    BY <1>1, PipelineAssumption DEF PInv, TypeOK
  <1> QED
    BY <1>1, <1>2, CallFailsKeeps

LEMMA LookFailsKeeps ==
  ASSUME PInv, LookFails PROVE PInv'
  <1>1. /\ Busy /\ "unread" \in Errors /\ CallFails("unread")
        /\ UNCHANGED <<cacheOn, cache>> /\ runs' = runs
        /\ mishaps' = mishaps + 1 /\ mishaps < MaxMishaps
        /\ skipped' = IF failFast THEN skipped ELSE skipped \cup {w}
    BY DEF LookFails, Busy, Errors
  <1>2. mishaps' \in 0 .. MaxMishaps
    BY <1>1, PipelineAssumption DEF PInv, TypeOK
  <1> QED
    BY <1>1, <1>2, CallFailsKeeps

LEMMA WriteKeeps ==
  ASSUME PInv, NEW n \in 1 .. Len(Files), Write(n) PROVE PInv'
  <1>1. n \in {1, 2, 3}
    BY DEF Files
  <1>2. /\ Writing /\ pc' \in {"write2", "write3", "stopped"}
        /\ UNCHANGED <<failFast, call, answer, error, runs, mishaps>> /\ UNCHANGED Parts
    BY <1>1 DEF Write, Stage, Writing, Parts, cache
  <1>3. TypeOK'
    BY <1>2 DEF PInv, TypeOK, Parts, Writing
  <1> QED
    BY <1>2, <1>3, Steady DEF Writing

LEMMA KilledKeeps ==
  ASSUME PInv, Killed PROVE PInv'
  <1>1. /\ pc' = "stopped" /\ answer' = NoAnswer /\ mishaps' = mishaps + 1 /\ mishaps < MaxMishaps
        /\ UNCHANGED <<failFast, call, error, runs>> /\ UNCHANGED Parts
    BY DEF Killed, Parts, cache
  <1>2. TypeOK'
    BY <1>1, PipelineAssumption DEF PInv, TypeOK, Parts
  <1> QED
    BY <1>1, <1>2, Steady

LEMMA NextKeeps ==
  ASSUME PInv, [Next]_vars PROVE PInv'
  <1>1. CASE UNCHANGED vars
    <2>1. UNCHANGED <<pc, call, answer, failFast, error, runs, mishaps>> /\ UNCHANGED Parts
      BY <1>1 DEF vars, run, cache, Parts
    <2>2. TypeOK' /\ AnswerFits' /\ Missed'
      BY <2>1 DEF PInv, TypeOK, AnswerFits, Missed, Kept, Parts
    <2>3. \/ pc' = "stopped" \/ (Writing /\ Writing') \/ (Busy /\ Busy')
      BY <2>1 DEF PInv, TypeOK, Writing, Busy
    <2> QED
      BY <2>1, <2>2, <2>3, Steady
  <1> QED
    BY <1>1, StartKeeps, LookHitKeeps, LookMissKeeps, ReplyKeeps, SaveKeeps, WriteKeeps,
       LookFailsKeeps, SaveFailsKeeps, KilledKeeps DEF Next, Running

-----------------------------------------------------------------------------
(* PInv holds in every state, whatever the bounds.                        *)
THEOREM PipelineInvariance == Spec => []PInv
  BY InitP, NextKeeps, PTL DEF Spec

(* The variables keep their types.                                          *)
THEOREM PipelineTyped == Spec => []TypeOK
  <1>1. PInv => TypeOK
    BY DEF PInv
  <1> QED
    BY <1>1, PipelineInvariance, PTL

LEMMA OnceIsOne ==
  ASSUME NEW m, Once(m)
  PROVE  Cardinality({s \in {1, 2, 3} : m \in <<supported, rejected, quarantined>>[s]}) = 1
  <1> DEFINE places == {s \in {1, 2, 3} : m \in <<supported, rejected, quarantined>>[s]}
  <1>1. places = {1} \/ places = {2} \/ places = {3}
    BY DEF Once
  <1> HIDE DEF places
  <1>2. Cardinality(places) = 1
    BY <1>1, FS_Singleton
  <1> QED
    BY <1>2 DEF places

(* Of the windows a run has left (run_memory_pipeline) nothing is lost or     *)
(* counted twice, and what is supported was validated and verified.          *)
THEOREM NothingLost == Spec => []EveryMemoryAccounted
  <1>1. PInv => EveryMemoryAccounted
    BY OnceIsOne DEF PInv, EveryMemoryAccounted, LeftWhole, Left, AllVerified, Verified, Valid
  <1> QED
    BY <1>1, PipelineInvariance, PTL

(* What a run uses is in the cache: an answer that could not be written there *)
(* is not used.                                                             *)
THEOREM CacheFirst == Spec => []RunAgreesWithCache
  <1>1. PInv => RunAgreesWithCache
    BY DEF PInv
  <1> QED
    BY <1>1, PipelineInvariance, PTL

(* A run that comes to writing the output with all its answers in the cache,  *)
(* and passed over none of them, has gone by the cache.                     *)
LEMMA WritesByCache ==
  ASSUME PInv, cacheOn, skipped = {}, AllCached, Writing
  PROVE  Aggregate(supported, used) = CachedResult
  <1> DEFINE support == UNION {CachedSupport(v) : v \in WindowIds}
  <1>1. Through = WindowIds
    BY DEF Writing, Through
  <1>2. used = extracted
    <2>1. ASSUME NEW v \in WindowIds PROVE used[v] = extracted[v]
      BY <1>1 DEF PInv, LeftByCache, ByCache, RunAgreesWithCache, Writing
    <2> QED
      BY <2>1 DEF PInv, TypeOK
  <1>3. ASSUME NEW m \in supported PROVE m \in support
    <2>1. m = <<m[1], m[2]>> /\ m[1] \in WindowIds
      BY <1>3 DEF PInv, TypeOK, Token
    <2>2. Verified(m)
      BY <1>3 DEF PInv, AllVerified
    <2>3. m \in CachedSupport(m[1])
      BY <1>2, <2>1, <2>2 DEF Verified, CachedSupport, Answers
    <2> QED
      BY <2>1, <2>3
  <1>4. ASSUME NEW v \in WindowIds, NEW m \in CachedSupport(v) PROVE m \in supported
    <2>1. PICK i \in Valid(used[v]) :
            m = <<v, i>> /\ \E e \in Answers(v) : extracted[v][i].content \in e.ids
      BY <1>2 DEF CachedSupport
    <2>2. ByCache(v) /\ used[v] # NoEntry
      BY <1>1, <1>2 DEF PInv, LeftByCache, Writing, AllCached
    <2> QED
      BY <1>2, <2>1, <2>2 DEF ByCache, Answers
  <1>5. supported = support
    BY <1>3, <1>4
  <1> QED
    BY <1>2, <1>5 DEF CachedResult

(* Once a run has answered for every window and written its output, no later  *)
(* run, finished or not, puts another in its place, unless it passed over an  *)
(* entry of the cache that it could not read (main, fail_fast, cache.get).   *)
THEOREM OutputKept == Spec => OutputStays
  <1>1. PInv /\ [Next]_vars => [cacheOn /\ skipped = {} /\ AllCached /\ disk[3] = CachedResult => disk'[3] = disk[3]]_vars
    <2> SUFFICES ASSUME PInv, Next, cacheOn, skipped = {}, AllCached, disk[3] = CachedResult
                 PROVE  disk'[3] = disk[3]
      OBVIOUS
    <2>1. ASSUME NEW n \in 1 .. Len(Files), Write(n) PROVE disk'[3] = disk[3]
      <3>1. CASE n = 3
        <4>1. Writing
          BY <2>1, <3>1 DEF Write, Stage, Writing
        <4>2. disk' = [disk EXCEPT ![3] = Aggregate(supported, used)]
          BY <2>1, <3>1 DEF Write
        <4>3. disk' = [disk EXCEPT ![3] = disk[3]]
          BY <4>1, <4>2, WritesByCache
        <4> QED
          BY <4>3
      <3>2. CASE n # 3
        BY <2>1, <3>2 DEF Write
      <3> QED
        BY <3>1, <3>2
    <2> QED
      BY <2>1 DEF Next, Running, Start, LookHit, LookMiss, LookFails, Reply, OverBudget, AttemptFails,
                  RequestRefused, ReasoningOnly, Unparsable, AnswerParsed, Save, SaveFails, Killed
  <1> QED
    BY <1>1, PipelineInvariance, PTL DEF Spec, OutputStays
=============================================================================
