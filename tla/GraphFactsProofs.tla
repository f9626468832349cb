--------------------------- MODULE GraphFactsProofs ---------------------------
(***************************************************************************)
(* Machine-checked proofs about GraphFacts, for all records and queries:   *)
(* the graph is what the published records say, what matches a query is    *)
(* not lost, and an answer keeps to whom it is asked about.                *)
(*                                                                         *)
(* A publication resolves a record's names one after the other, and then   *)
(* adds its facts one after the other.  What holds after all of them is    *)
(* proved by induction over the positions, which rests on the least number *)
(* principle; the folds are first shown to be functions of the position.   *)
(***************************************************************************)
EXTENDS GraphFacts, SequenceTheorems, FiniteSetTheorems, TLAPS

(* Every set of numbers has a least one.                                   *)
LEMMA LeastNumber ==
  ASSUME NEW T \in SUBSET Nat, T # {}
  PROVE  \E x \in T : \A y \in T : x <= y
  <1>1. PICK R : /\ IsWellFoundedOn(R, Nat)
                 /\ \A x, y \in Nat : <<y, x>> \in R <=> y < x
    <2>1. IsWellFoundedOn(OpToRel(<, Nat), Nat)
      BY NatLessThanWellFounded
    <2>2. \A x, y \in Nat : <<y, x>> \in OpToRel(<, Nat) <=> y < x
      BY Zenon DEF OpToRel
    <2> QED  BY <2>1, <2>2, Zenon
  <1>2. PICK x \in T : \A y \in T : ~(<<y, x>> \in R)
    BY <1>1, WFMin
  <1>3. x \in Nat /\ \A y \in T : y \in Nat /\ ~(y < x)
    BY <1>1, <1>2
  <1>4. \A y \in T : x <= y
    BY <1>3
  <1> QED  BY <1>4

(* Induction up to n, for a property given as the set of numbers that have it. *)
LEMMA UpTo ==
  ASSUME NEW n \in Nat, NEW T, 0 \in T,
         \A k \in 0 .. n - 1 : k \in T => k + 1 \in T
  PROVE  \A k \in 0 .. n : k \in T
  <1> DEFINE Out == {k \in 0 .. n : k \notin T}
  <1> SUFFICES ASSUME Out # {} PROVE FALSE
    OBVIOUS
  <1>1. Out \in SUBSET Nat
    OBVIOUS
  <1>2. PICK x \in Out : \A y \in Out : x <= y
    BY <1>1, LeastNumber
  <1>3. x # 0 /\ x \in 0 .. n /\ x \notin T
    OBVIOUS
  <1>4. x - 1 \in 0 .. n - 1 /\ x - 1 \in T
    BY <1>2, <1>3
  <1>5. x - 1 + 1 \in T
    BY <1>4
  <1> QED  BY <1>3, <1>5

(* The highest of a set of positions, which is where a fold goes on.       *)
LEMMA Highest ==
  ASSUME NEW k \in Nat, NEW S \in SUBSET (1 .. k + 1), k + 1 \in S
  PROVE  Max(S) = k + 1 /\ S \ {k + 1} \in SUBSET (1 .. k)
  <1>1. \A y \in S : k + 1 >= y
    OBVIOUS
  <1>2. \A x \in S : (\A y \in S : x >= y) => x = k + 1
    OBVIOUS
  <1>3. \E x \in S : \A y \in S : x >= y
    BY <1>1
  <1>4. PICK m : m = Max(S)
    OBVIOUS
  <1>5. m \in S /\ \A y \in S : m >= y
    BY <1>3, <1>4 DEF Max
  <1> QED  BY <1>2, <1>4, <1>5

LEMMA MaxOfSome ==
  ASSUME NEW n \in Nat, NEW S \in SUBSET (1 .. n), S # {}
  PROVE  Max(S) \in S
  <1> DEFINE Above == {k \in Nat : \A y \in S : y <= k}
  <1>1. n \in Above
    OBVIOUS
  <1>2. PICK m \in Above : \A y \in Above : m <= y
    BY <1>1, LeastNumber
  <1>3. m \in S
    <2> SUFFICES ASSUME m \notin S PROVE FALSE
      OBVIOUS
    <2>1. \A y \in S : y \in 1 .. n /\ y < m
      BY <1>2
    <2>2. PICK z \in S : TRUE
      OBVIOUS
    <2>3. m \in Nat /\ z \in 1 .. n /\ z < m
      BY <2>1
    <2>4. m - 1 \in Nat
      BY <2>3
    <2>5. \A y \in S : y <= m - 1
      BY <2>1, <2>3
    <2>6. m - 1 \in Above
      BY <2>4, <2>5
    <2> QED  BY <1>2, <2>6, <2>3
  <1>4. \E x \in S : \A y \in S : x >= y
    BY <1>2, <1>3
  <1> QED  BY <1>4 DEF Max

(* A fold over positions 1 to n takes its way.                             *)
FoldsOver(g, n, base, step) ==
  \A S \in SUBSET (1 .. n) :
    g[S] = IF S = {} THEN base ELSE step[<<Max(S), g[S \ {Max(S)}]>>]

LEMMA FoldExists ==
  ASSUME NEW n \in Nat, NEW V, NEW base \in V, NEW step \in [(1 .. n) \X V -> V]
  PROVE  \E g \in [SUBSET (1 .. n) -> V] : FoldsOver(g, n, base, step)
  <1> DEFINE Way(g, k) ==
        \A S \in SUBSET (1 .. k) :
          g[S] = IF S = {} THEN base ELSE step[<<Max(S), g[S \ {Max(S)}]>>]
  <1> DEFINE T == {k \in 0 .. n : \E g \in [SUBSET (1 .. k) -> V] : Way(g, k)}
  <1>1. 0 \in T
    <2>1. SUBSET (1 .. 0) = {{}}
      OBVIOUS
    <2> DEFINE g == [S \in SUBSET (1 .. 0) |-> base]
    <2>2. g \in [SUBSET (1 .. 0) -> V] /\ Way(g, 0)
      BY <2>1
    <2> HIDE DEF g
    <2> HIDE DEF Way
    <2>3. \E x \in [SUBSET (1 .. 0) -> V] : Way(x, 0)
      BY <2>2
    <2>4. 0 \in 0 .. n
      OBVIOUS
    <2> QED  BY <2>3, <2>4, Zenon
  <1>2. ASSUME NEW k \in 0 .. n - 1, k \in T PROVE k + 1 \in T
    <2>1. PICK g \in [SUBSET (1 .. k) -> V] : Way(g, k)
      BY <1>2
    <2> DEFINE h == [S \in SUBSET (1 .. k + 1) |->
                       IF k + 1 \in S THEN step[<<k + 1, g[S \ {k + 1}]>>] ELSE g[S]]
    <2>2. \A S \in SUBSET (1 .. k + 1) : k + 1 \notin S => S \in SUBSET (1 .. k)
      OBVIOUS
    <2>3. \A S \in SUBSET (1 .. k + 1) :
            k + 1 \in S => Max(S) = k + 1 /\ S \ {k + 1} \in SUBSET (1 .. k)
      BY Highest
    <2>4. h \in [SUBSET (1 .. k + 1) -> V]
      BY <2>2, <2>3
    <2>5. \A S \in SUBSET (1 .. k) : S \in SUBSET (1 .. k + 1) /\ k + 1 \notin S
      OBVIOUS
    <2>6. \A S \in SUBSET (1 .. k) : h[S] = g[S] /\ S \ {Max(S)} \in SUBSET (1 .. k)
      BY <2>5
    <2>7. ASSUME NEW S \in SUBSET (1 .. k + 1)
          PROVE  h[S] = IF S = {} THEN base ELSE step[<<Max(S), h[S \ {Max(S)}]>>]
      <3>1. CASE k + 1 \in S
        <4>1. S # {} /\ Max(S) = k + 1 /\ S \ {k + 1} \in SUBSET (1 .. k)
          BY <3>1, <2>3
        <4>2. h[S] = step[<<k + 1, g[S \ {k + 1}]>>] /\ h[S \ {k + 1}] = g[S \ {k + 1}]
          BY <3>1, <4>1, <2>6
        <4> HIDE DEF h
        <4> QED  BY <4>1, <4>2
      <3>2. CASE k + 1 \notin S
        <4>1. S \in SUBSET (1 .. k)
          BY <3>2, <2>2
        <4>2. h[S] = g[S] /\ h[S \ {Max(S)}] = g[S \ {Max(S)}]
          BY <4>1, <2>6
        <4> HIDE DEF h
        <4> QED  BY <4>1, <4>2, <2>1
      <3> QED  BY <3>1, <3>2
    <2> HIDE DEF h
    <2>8. Way(h, k + 1)
      BY <2>7
    <2> HIDE DEF Way
    <2>9. \E x \in [SUBSET (1 .. k + 1) -> V] : Way(x, k + 1)
      BY <2>4, <2>8
    <2> QED  BY <2>9
  <1> HIDE DEF T
  <1>3. \A k \in 0 .. n : k \in T
    BY <1>1, <1>2, UpTo
  <1>4. n \in T
    BY <1>3
  <1> QED  BY <1>4 DEF T, FoldsOver

LEMMA PrefixTop ==
  ASSUME NEW n \in Nat, NEW k \in 1 .. n
  PROVE  /\ 1 .. k \in SUBSET (1 .. n) /\ 1 .. k # {}
         /\ Max(1 .. k) = k
         /\ (1 .. k) \ {k} = 1 .. k - 1
  <1>1. k - 1 \in Nat /\ 1 .. k \in SUBSET (1 .. (k - 1) + 1) /\ (k - 1) + 1 \in 1 .. k
    OBVIOUS
  <1>2. Max(1 .. k) = (k - 1) + 1
    BY <1>1, Highest
  <1> QED  BY <1>2

-----------------------------------------------------------------------------
(* The rows a publication makes.                                           *)
Candidates == UNION {ToSet(r.speaker) \cup ToSet(r.entities) : r \in Records}
Forms == {Norm(c.name) : c \in Candidates}
EntityRow == [name: {c.name : c \in Candidates}, type: {c.type : c \in Candidates},
              at: Int, id: Int]
Claims == UNION {ToSet(r.facts) : r \in Records}
FactRow == [subject: Nat, predicate: {f.predicate : f \in Claims}, object: Nat,
            text: {f.text : f \in Claims}, at: Int, id: Int]

Resolving == [entities: Seq(EntityRow), aliases: SUBSET (Nat \X Forms), chosen: Seq(Nat)]
Adding == [facts: Seq(FactRow), evidence: SUBSET (Nat \X Records)]

LEMMA ResolveType ==
  ASSUME NEW acc \in Resolving, NEW e \in Candidates, NEW at \in Int, NEW id \in Int
  PROVE  Resolve(acc, e, at, id) \in Resolving
  <1> DEFINE known == FindByName(acc.entities, e.name, e.type)
             alias == FindByAlias(acc.entities, acc.aliases, e.name, e.type)
             found == IF known # {} THEN known ELSE alias
             chosen == IF found # {} THEN CHOOSE k \in found : TRUE ELSE Len(acc.entities) + 1
             row == [name |-> e.name, type |-> e.type, at |-> at, id |-> id + Len(acc.entities)]
  <1>1. acc.entities \in Seq(EntityRow) /\ acc.chosen \in Seq(Nat)
        /\ acc.aliases \in SUBSET (Nat \X Forms) /\ Len(acc.entities) \in Nat
    BY DEF Resolving
  <1>2. found \subseteq DOMAIN acc.entities
    BY DEF FindByName, FindByAlias
  <1>3. chosen \in Nat
    BY <1>1, <1>2
  <1>4. row \in EntityRow
    BY <1>1 DEF EntityRow
  <1>5. Norm(e.name) \in Forms
    BY DEF Forms
  <1>6. Resolve(acc, e, at, id) =
          [entities |-> IF found # {} THEN acc.entities ELSE Append(acc.entities, row),
           aliases  |-> acc.aliases \cup {<<chosen, Norm(e.name)>>},
           chosen   |-> Append(acc.chosen, chosen)]
    BY DEF Resolve
  <1> HIDE DEF found, chosen, row
  <1> QED  BY <1>1, <1>3, <1>4, <1>5, <1>6 DEF Resolving

LEMMA ResolveAllWay ==
  ASSUME NEW cands \in Seq(Candidates), NEW at \in Int, NEW id \in Int,
         entities \in Seq(EntityRow), aliases \in SUBSET (Nat \X Forms)
  PROVE  \E acc \in [0 .. Len(cands) -> Resolving] :
           /\ acc[0] = [entities |-> entities, aliases |-> aliases, chosen |-> <<>>]
           /\ \A k \in 1 .. Len(cands) : acc[k] = Resolve(acc[k - 1], cands[k], at, id)
           /\ ResolveAll(cands, at, id) = acc[Len(cands)]
  <1> DEFINE n == Len(cands)
             base == [entities |-> entities, aliases |-> aliases, chosen |-> <<>>]
             step == [x \in (1 .. n) \X Resolving |-> Resolve(x[2], cands[x[1]], at, id)]
  <1>1. n \in Nat /\ DOMAIN cands = 1 .. n /\ \A k \in 1 .. n : cands[k] \in Candidates
    OBVIOUS
  <1>2. base \in Resolving
    BY DEF Resolving
  <1>3. step \in [(1 .. n) \X Resolving -> Resolving]
    BY <1>1, ResolveType
  <1>4. \A k \in 1 .. n, a \in Resolving : step[<<k, a>>] = Resolve(a, cands[k], at, id)
    OBVIOUS
  <1> DEFINE Way(g) == g = [S \in SUBSET (DOMAIN cands) |->
                      IF S = {} THEN base ELSE Resolve(g[S \ {Max(S)}], cands[Max(S)], at, id)]
  <1>5. ResolveAll(cands, at, id) = (CHOOSE g : Way(g))[DOMAIN cands]
    BY DEF ResolveAll, FoldLeft, MapThenFoldSet
  <1>6. PICK g \in [SUBSET (1 .. n) -> Resolving] :
          FoldsOver(g, n, base, step)
    <2> HIDE DEF base, step, n
    <2>1. n \in Nat
      BY <1>1
    <2> QED  BY <2>1, <1>2, <1>3, FoldExists, Zenon
  <1>7. \A S \in SUBSET (1 .. n) :
          g[S] = IF S = {} THEN base ELSE Resolve(g[S \ {Max(S)}], cands[Max(S)], at, id)
    <2> HIDE DEF base, step, n
    <2>1. ASSUME NEW S \in SUBSET (1 .. n), S # {}
          PROVE  g[S] = Resolve(g[S \ {Max(S)}], cands[Max(S)], at, id)
      <3>1. Max(S) \in 1 .. n
        BY <1>1, <2>1, MaxOfSome
      <3>2. g[S \ {Max(S)}] \in Resolving
        OBVIOUS
      <3> QED  BY <1>4, <1>6, <2>1, <3>1, <3>2 DEF FoldsOver
    <2> QED  BY <1>6, <2>1 DEF FoldsOver
  <1>8. Way(g)
    <2> HIDE DEF base, n
    <2> QED  BY <1>1, <1>7
  <1> DEFINE it == CHOOSE x : Way(x)
  <1>9. Way(it)
    <2> HIDE DEF Way
    <2> QED  BY <1>8
  <1> HIDE DEF it
  <1>10. \A S \in SUBSET (1 .. n) :
           it[S] = IF S = {} THEN base ELSE Resolve(it[S \ {Max(S)}], cands[Max(S)], at, id)
    <2> HIDE DEF base, n
    <2> QED  BY <1>1, <1>9
  <1> DEFINE acc == [k \in 0 .. n |-> it[1 .. k]]
  <1>11. acc[0] = base
    <2>1. 1 .. 0 = {} /\ 0 \in 0 .. n
      BY <1>1
    <2> HIDE DEF base, n
    <2> QED  BY <1>10, <2>1
  <1>12. \A k \in 1 .. n : acc[k] = Resolve(acc[k - 1], cands[k], at, id)
    <2> HIDE DEF base, n
    <2> SUFFICES ASSUME NEW k \in 1 .. n
                 PROVE  it[1 .. k] = Resolve(it[1 .. k - 1], cands[k], at, id)
      BY <1>1
    <2> QED  BY <1>1, <1>10, PrefixTop
  <1>13. ResolveAll(cands, at, id) = acc[n]
    <2>1. n \in 0 .. n
      BY <1>1
    <2> HIDE DEF base, n
    <2> QED  BY <1>1, <1>5, <2>1 DEF it
  <1> HIDE DEF acc, base, n
  <1>14. \A k \in 0 .. n : acc[k] \in Resolving
    <2> DEFINE T == {k \in 0 .. n : acc[k] \in Resolving}
    <2>1. 0 \in T
      BY <1>1, <1>2, <1>11
    <2>2. ASSUME NEW k \in 0 .. n - 1, k \in T PROVE k + 1 \in T
      <3>1. k + 1 \in 1 .. n /\ (k + 1) - 1 = k /\ acc[k] \in Resolving
        BY <1>1, <2>2
      <3>2. acc[k + 1] \in Resolving
        BY <1>1, <1>12, <3>1, ResolveType
      <3> QED  BY <3>1, <3>2
    <2> HIDE DEF T
    <2>3. \A k \in 0 .. n : k \in T
      BY <1>1, <2>1, <2>2, UpTo
    <2> QED  BY <2>3 DEF T
  <1>15. acc \in [0 .. n -> Resolving]
    BY <1>14 DEF acc
  <1> QED  BY <1>11, <1>12, <1>13, <1>15 DEF n, base

LEMMA AddType ==
  ASSUME NEW acc \in Adding, NEW f \in FactRow, NEW r \in Records
  PROVE  AddFact(acc, f, r) \in Adding
  <1> DEFINE same == {k \in DOMAIN acc.facts : SameFact(acc.facts[k], f)}
             k == IF same # {} THEN CHOOSE x \in same : TRUE ELSE Len(acc.facts) + 1
  <1>1. acc.facts \in Seq(FactRow) /\ acc.evidence \in SUBSET (Nat \X Records)
        /\ Len(acc.facts) \in Nat
    BY DEF Adding
  <1>2. same \subseteq DOMAIN acc.facts
    OBVIOUS
  <1>3. k \in Nat
    BY <1>1, <1>2
  <1>4. AddFact(acc, f, r) =
          [facts |-> IF same # {} THEN acc.facts ELSE Append(acc.facts, f),
           evidence |-> acc.evidence \cup {<<k, r>>}]
    BY DEF AddFact
  <1> HIDE DEF same, k
  <1> QED  BY <1>1, <1>3, <1>4 DEF Adding

LEMMA AddAllWay ==
  ASSUME NEW resolved \in Seq(FactRow), NEW r \in Records,
         facts \in Seq(FactRow), evidence \in SUBSET (Nat \X Records)
  PROVE  \E acc \in [0 .. Len(resolved) -> Adding] :
           /\ acc[0] = [facts |-> facts, evidence |-> evidence]
           /\ \A k \in 1 .. Len(resolved) : acc[k] = AddFact(acc[k - 1], resolved[k], r)
           /\ AddAll(resolved, r) = acc[Len(resolved)]
  <1> DEFINE n == Len(resolved)
             base == [facts |-> facts, evidence |-> evidence]
             step == [x \in (1 .. n) \X Adding |-> AddFact(x[2], resolved[x[1]], r)]
  <1>1. n \in Nat /\ DOMAIN resolved = 1 .. n /\ \A k \in 1 .. n : resolved[k] \in FactRow
    OBVIOUS
  <1>2. base \in Adding
    BY DEF Adding
  <1>3. step \in [(1 .. n) \X Adding -> Adding]
    BY <1>1, AddType
  <1>4. \A k \in 1 .. n, a \in Adding : step[<<k, a>>] = AddFact(a, resolved[k], r)
    OBVIOUS
  <1> DEFINE Way(g) == g = [S \in SUBSET (DOMAIN resolved) |->
                      IF S = {} THEN base ELSE AddFact(g[S \ {Max(S)}], resolved[Max(S)], r)]
  <1>5. AddAll(resolved, r) = (CHOOSE g : Way(g))[DOMAIN resolved]
    BY DEF AddAll, FoldLeft, MapThenFoldSet
  <1>6. PICK g \in [SUBSET (1 .. n) -> Adding] :
          FoldsOver(g, n, base, step)
    <2> HIDE DEF base, step, n
    <2>1. n \in Nat
      BY <1>1
    <2> QED  BY <2>1, <1>2, <1>3, FoldExists, Zenon
  <1>7. \A S \in SUBSET (1 .. n) :
          g[S] = IF S = {} THEN base ELSE AddFact(g[S \ {Max(S)}], resolved[Max(S)], r)
    <2> HIDE DEF base, step, n
    <2>1. ASSUME NEW S \in SUBSET (1 .. n), S # {}
          PROVE  g[S] = AddFact(g[S \ {Max(S)}], resolved[Max(S)], r)
      <3>1. Max(S) \in 1 .. n
        BY <1>1, <2>1, MaxOfSome
      <3>2. g[S \ {Max(S)}] \in Adding
        OBVIOUS
      <3> QED  BY <1>4, <1>6, <2>1, <3>1, <3>2 DEF FoldsOver
    <2> QED  BY <1>6, <2>1 DEF FoldsOver
  <1>8. Way(g)
    <2> HIDE DEF base, n
    <2> QED  BY <1>1, <1>7
  <1> DEFINE it == CHOOSE x : Way(x)
  <1>9. Way(it)
    <2> HIDE DEF Way
    <2> QED  BY <1>8
  <1> HIDE DEF it
  <1>10. \A S \in SUBSET (1 .. n) :
           it[S] = IF S = {} THEN base ELSE AddFact(it[S \ {Max(S)}], resolved[Max(S)], r)
    <2> HIDE DEF base, n
    <2> QED  BY <1>1, <1>9
  <1> DEFINE acc == [k \in 0 .. n |-> it[1 .. k]]
  <1>11. acc[0] = base
    <2>1. 1 .. 0 = {} /\ 0 \in 0 .. n
      BY <1>1
    <2> HIDE DEF base, n
    <2> QED  BY <1>10, <2>1
  <1>12. \A k \in 1 .. n : acc[k] = AddFact(acc[k - 1], resolved[k], r)
    <2> HIDE DEF base, n
    <2> SUFFICES ASSUME NEW k \in 1 .. n
                 PROVE  it[1 .. k] = AddFact(it[1 .. k - 1], resolved[k], r)
      BY <1>1
    <2> QED  BY <1>1, <1>10, PrefixTop
  <1>13. AddAll(resolved, r) = acc[n]
    <2>1. n \in 0 .. n
      BY <1>1
    <2> HIDE DEF base, n
    <2> QED  BY <1>1, <1>5, <2>1 DEF it
  <1> HIDE DEF acc, base, n
  <1>14. \A k \in 0 .. n : acc[k] \in Adding
    <2> DEFINE T == {k \in 0 .. n : acc[k] \in Adding}
    <2>1. 0 \in T
      BY <1>1, <1>2, <1>11
    <2>2. ASSUME NEW k \in 0 .. n - 1, k \in T PROVE k + 1 \in T
      <3>1. k + 1 \in 1 .. n /\ (k + 1) - 1 = k /\ acc[k] \in Adding
        BY <1>1, <2>2
      <3>2. acc[k + 1] \in Adding
        BY <1>1, <1>12, <3>1, AddType
      <3> QED  BY <3>1, <3>2
    <2> HIDE DEF T
    <2>3. \A k \in 0 .. n : k \in T
      BY <1>1, <2>1, <2>2, UpTo
    <2> QED  BY <2>3 DEF T
  <1>15. acc \in [0 .. n -> Adding]
    BY <1>14 DEF acc
  <1> QED  BY <1>11, <1>12, <1>13, <1>15 DEF n, base

-----------------------------------------------------------------------------
(* What the two loops keep and add.                                        *)
Grows(s, t) == Len(s) <= Len(t) /\ \A k \in 1 .. Len(s) : t[k] = s[k]

EntitiesDiffer(es) == \A e, d \in DOMAIN es : e # d => Who(es[e]) # Who(es[d])

(* An alias is a normal form of the entity's own name.                     *)
OwnNames(es, as) == \A a \in as : a[1] \in DOMAIN es /\ a[2] = Norm(es[a[1]].name)

FactsDiffer(fs) == \A f, g \in DOMAIN fs : f # g => ~SameFact(fs[f], fs[g])

(* A candidate resolved: an entity that is called as it is.                *)
Resolves(acc, e, new) ==
  /\ EntitiesDiffer(new.entities)
  /\ OwnNames(new.entities, new.aliases)
  /\ Grows(acc.entities, new.entities)
  /\ \E c \in DOMAIN new.entities :
       Who(new.entities[c]) = Who(e) /\ new.chosen = Append(acc.chosen, c)

LEMMA ResolveStep ==
  ASSUME NEW acc \in Resolving, NEW e \in Candidates, NEW at \in Int, NEW id \in Int,
         EntitiesDiffer(acc.entities), OwnNames(acc.entities, acc.aliases),
         NEW new, new = Resolve(acc, e, at, id)
  PROVE  Resolves(acc, e, new)
  <1> DEFINE es == acc.entities
             known == FindByName(es, e.name, e.type)
             alias == FindByAlias(es, acc.aliases, e.name, e.type)
             found == IF known # {} THEN known ELSE alias
             chosen == IF found # {} THEN CHOOSE k \in found : TRUE ELSE Len(es) + 1
             row == [name |-> e.name, type |-> e.type, at |-> at, id |-> id + Len(es)]
  <1>1. /\ es \in Seq(EntityRow) /\ Len(es) \in Nat /\ DOMAIN es = 1 .. Len(es)
        /\ acc.aliases \in SUBSET (Nat \X Forms)
    BY DEF Resolving
  <1>2. /\ new.entities = IF found # {} THEN es ELSE Append(es, row)
        /\ new.aliases = acc.aliases \cup {<<chosen, Norm(e.name)>>}
        /\ new.chosen = Append(acc.chosen, chosen)
    BY DEF Resolve
  <1>3. \A k \in found : k \in DOMAIN es /\ Who(es[k]) = Who(e)
    <2>1. \A k \in known : k \in DOMAIN es /\ Who(es[k]) = Who(e)
      BY DEF FindByName, Who
    <2>2. ASSUME NEW k \in alias PROVE k \in DOMAIN es /\ Who(es[k]) = Who(e)
      <3>1. k \in DOMAIN es /\ es[k].type = e.type /\ <<k, Norm(e.name)>> \in acc.aliases
        BY <2>2 DEF FindByAlias
      <3>2. Norm(e.name) = Norm(es[k].name)
        BY <3>1 DEF OwnNames
      <3> QED  BY <3>1, <3>2 DEF Who
    <2> QED  BY <2>1, <2>2
  <1>4. \A k \in DOMAIN es : Who(es[k]) = Who(e) => found # {}
    BY DEF FindByName, Who
  <1> HIDE DEF known, alias, found
  <1>5. CASE found # {}
    <2>1. chosen \in DOMAIN es /\ Who(es[chosen]) = Who(e)
      BY <1>3, <1>5
    <2>2. new.entities = es /\ Norm(es[chosen].name) = Norm(e.name)
      BY <1>2, <1>5, <2>1 DEF Who
    <2> HIDE DEF chosen, es
    <2>3. ASSUME NEW a \in new.aliases
          PROVE  a[1] \in DOMAIN new.entities /\ a[2] = Norm(new.entities[a[1]].name)
      <3>1. CASE a \in acc.aliases
        BY <2>2, <3>1 DEF OwnNames, es
      <3>2. CASE a = <<chosen, Norm(e.name)>>
        BY <2>1, <2>2, <3>2
      <3> QED  BY <1>2, <3>1, <3>2
    <2> QED  BY <1>1, <1>2, <2>1, <2>2, <2>3 DEF Grows, OwnNames, Resolves, es
  <1>6. CASE found = {}
    <2>1. chosen = Len(es) + 1 /\ new.entities = Append(es, row)
      BY <1>2, <1>6
    <2>2. row \in EntityRow
      BY <1>1 DEF EntityRow
    <2> HIDE DEF row
    <2>3. /\ DOMAIN new.entities = 1 .. Len(es) + 1 /\ Len(new.entities) = Len(es) + 1
          /\ \A k \in 1 .. Len(es) : new.entities[k] = es[k]
          /\ new.entities[chosen] = row
      BY <1>1, <2>1, <2>2
    <2>4. Who(row) = Who(e) /\ Norm(row.name) = Norm(e.name)
      BY DEF row, Who
    <2> HIDE DEF chosen
    <2>5. EntitiesDiffer(new.entities)
      BY <1>1, <1>4, <1>6, <2>1, <2>3, <2>4 DEF EntitiesDiffer
    <2>6. OwnNames(new.entities, new.aliases)
      BY <1>1, <1>2, <2>1, <2>3, <2>4 DEF OwnNames
    <2> QED  BY <1>1, <1>2, <2>1, <2>3, <2>4, <2>5, <2>6 DEF Grows, Resolves
  <1> QED  BY <1>5, <1>6

LEMMA AddStep ==
  ASSUME NEW acc \in Adding, NEW f \in FactRow, NEW r \in Records,
         FactsDiffer(acc.facts), NEW new, new = AddFact(acc, f, r)
  PROVE  /\ FactsDiffer(new.facts)
         /\ Grows(acc.facts, new.facts)
         /\ \E x \in DOMAIN new.facts :
              /\ SameFact(new.facts[x], f)
              /\ new.evidence = acc.evidence \cup {<<x, r>>}
              /\ DOMAIN new.facts \subseteq DOMAIN acc.facts \cup {x}
  <1> DEFINE fs == acc.facts
             same == {k \in DOMAIN fs : SameFact(fs[k], f)}
             k == IF same # {} THEN CHOOSE x \in same : TRUE ELSE Len(fs) + 1
  <1>1. fs \in Seq(FactRow) /\ Len(fs) \in Nat /\ DOMAIN fs = 1 .. Len(fs)
    BY DEF Adding
  <1>2. /\ new.facts = IF same # {} THEN fs ELSE Append(fs, f)
        /\ new.evidence = acc.evidence \cup {<<k, r>>}
    BY DEF AddFact
  <1>3. CASE same # {}
    <2>1. k \in DOMAIN fs /\ SameFact(fs[k], f) /\ new.facts = fs
      BY <1>2, <1>3
    <2>2. FactsDiffer(new.facts) /\ Grows(acc.facts, new.facts)
      BY <1>1, <2>1 DEF Grows
    <2> HIDE DEF k, same
    <2>3. k \in DOMAIN new.facts /\ SameFact(new.facts[k], f)
      BY <2>1
    <2> QED  BY <1>2, <2>1, <2>2, <2>3
  <1>4. CASE same = {}
    <2>1. k = Len(fs) + 1 /\ new.facts = Append(fs, f)
      BY <1>2, <1>4
    <2>2. /\ DOMAIN new.facts = 1 .. Len(fs) + 1 /\ Len(new.facts) = Len(fs) + 1
          /\ \A i \in 1 .. Len(fs) : new.facts[i] = fs[i]
          /\ new.facts[k] = f
      BY <1>1, <2>1
    <2>3. \A i \in DOMAIN fs : ~SameFact(fs[i], f) /\ ~SameFact(f, fs[i])
      BY <1>4 DEF SameFact
    <2>4. SameFact(f, f)
      BY DEF SameFact
    <2> HIDE DEF k, same
    <2>5. FactsDiffer(new.facts)
      BY <1>1, <2>1, <2>2, <2>3 DEF FactsDiffer
    <2> QED  BY <1>1, <1>2, <2>1, <2>2, <2>4, <2>5 DEF Grows
  <1> QED  BY <1>3, <1>4

LEMMA GrowsOn ==
  ASSUME NEW R, NEW s \in Seq(R), NEW t \in Seq(R), NEW u \in Seq(R), Grows(s, t), Grows(t, u)
  PROVE  Grows(s, u)
  BY DEF Grows

(* Every candidate gets an entity that is called as it is, and of those    *)
(* there were nothing is lost.                                             *)
Resolved(found, cands, k) ==
  /\ EntitiesDiffer(found.entities)
  /\ OwnNames(found.entities, found.aliases)
  /\ Grows(entities, found.entities)
  /\ Len(found.chosen) = k
  /\ \A j \in 1 .. k : /\ found.chosen[j] \in DOMAIN found.entities
                       /\ Who(found.entities[found.chosen[j]]) = Who(cands[j])

LEMMA ResolveOn ==
  ASSUME NEW cands \in Seq(Candidates), NEW k \in 1 .. Len(cands),
         NEW at \in Int, NEW id \in Int, entities \in Seq(EntityRow),
         NEW acc \in Resolving, NEW new \in Resolving,
         Resolved(acc, cands, k - 1), new = Resolve(acc, cands[k], at, id)
  PROVE  Resolved(new, cands, k)
  <1>1. cands[k] \in Candidates
    OBVIOUS
  <1>2. /\ EntitiesDiffer(new.entities)
        /\ OwnNames(new.entities, new.aliases)
        /\ Grows(acc.entities, new.entities)
        /\ \E c \in DOMAIN new.entities :
             Who(new.entities[c]) = Who(cands[k]) /\ new.chosen = Append(acc.chosen, c)
    <2>1. EntitiesDiffer(acc.entities) /\ OwnNames(acc.entities, acc.aliases)
      BY DEF Resolved
    <2>2. Resolves(acc, cands[k], new)
      BY <1>1, <2>1, ResolveStep
    <2> QED  BY <2>2 DEF Resolves
  <1>3. PICK c \in DOMAIN new.entities :
          Who(new.entities[c]) = Who(cands[k]) /\ new.chosen = Append(acc.chosen, c)
    BY <1>2
  <1>4. /\ acc.entities \in Seq(EntityRow) /\ new.entities \in Seq(EntityRow)
        /\ acc.chosen \in Seq(Nat)
    BY DEF Resolving
  <1>5. Grows(entities, new.entities)
    BY <1>2, <1>4, GrowsOn DEF Resolved
  <1>6. c \in Nat /\ DOMAIN acc.entities \subseteq DOMAIN new.entities
    BY <1>2, <1>4 DEF Grows
  <1>7. Len(acc.chosen) = k - 1
    BY DEF Resolved
  <1>8. /\ Len(new.chosen) = k /\ new.chosen[k] = c
        /\ \A j \in 1 .. k - 1 : new.chosen[j] = acc.chosen[j]
    BY <1>3, <1>4, <1>6, <1>7
  <1>9. ASSUME NEW j \in 1 .. k
        PROVE  /\ new.chosen[j] \in DOMAIN new.entities
               /\ Who(new.entities[new.chosen[j]]) = Who(cands[j])
    <2>1. CASE j = k
      BY <1>3, <1>8, <2>1
    <2>2. CASE j \in 1 .. k - 1
      <3>1. /\ acc.chosen[j] \in DOMAIN acc.entities
            /\ Who(acc.entities[acc.chosen[j]]) = Who(cands[j])
        BY <2>2 DEF Resolved
      <3>2. new.entities[acc.chosen[j]] = acc.entities[acc.chosen[j]]
        <4>1. DOMAIN acc.entities = 1 .. Len(acc.entities)
          BY <1>4
        <4> QED  BY <1>2, <3>1, <4>1 DEF Grows
      <3> QED  BY <1>6, <1>8, <2>2, <3>1, <3>2
    <2> QED  BY <2>1, <2>2
  <1> QED  BY <1>2, <1>5, <1>8, <1>9 DEF Resolved

LEMMA ResolvedAll ==
  ASSUME NEW cands \in Seq(Candidates), NEW at \in Int, NEW id \in Int,
         entities \in Seq(EntityRow), aliases \in SUBSET (Nat \X Forms),
         EntitiesDiffer(entities), OwnNames(entities, aliases)
  PROVE  /\ ResolveAll(cands, at, id) \in Resolving
         /\ Resolved(ResolveAll(cands, at, id), cands, Len(cands))
  <1>1. PICK acc \in [0 .. Len(cands) -> Resolving] :
           /\ acc[0] = [entities |-> entities, aliases |-> aliases, chosen |-> <<>>]
           /\ \A k \in 1 .. Len(cands) : acc[k] = Resolve(acc[k - 1], cands[k], at, id)
           /\ ResolveAll(cands, at, id) = acc[Len(cands)]
    BY ResolveAllWay
  <1> DEFINE n == Len(cands)
             T == {k \in 0 .. n : Resolved(acc[k], cands, k)}
  <1>2. n \in Nat
    OBVIOUS
  <1>3. 0 \in T
    BY <1>1, <1>2 DEF Resolved, Grows
  <1>4. ASSUME NEW k \in 0 .. n - 1, k \in T PROVE k + 1 \in T
    <2>1. k + 1 \in 1 .. n /\ (k + 1) - 1 = k /\ k \in 0 .. n /\ k + 1 \in 0 .. n
      BY <1>2
    <2>2. acc[k] \in Resolving /\ acc[k + 1] \in Resolving
      BY <2>1
    <2>3. Resolved(acc[k], cands, (k + 1) - 1)
      BY <1>4, <2>1
    <2>4. acc[k + 1] = Resolve(acc[k], cands[k + 1], at, id)
      BY <1>1, <2>1
    <2> QED  BY <2>1, <2>2, <2>3, <2>4, ResolveOn
  <1> HIDE DEF T
  <1>5. \A k \in 0 .. n : k \in T
    BY <1>2, <1>3, <1>4, UpTo
  <1>6. n \in 0 .. n /\ n \in T
    BY <1>2, <1>5
  <1> QED  BY <1>1, <1>6 DEF T

(* Every fact of the record is there, once, with the record as evidence,   *)
(* and nothing else has changed.                                           *)
Added(acc, resolved, r, k) ==
  /\ FactsDiffer(acc.facts)
  /\ Grows(facts, acc.facts)
  /\ evidence \subseteq acc.evidence
  /\ \A x \in acc.evidence \ evidence :
       /\ x[1] \in DOMAIN acc.facts /\ x = <<x[1], r>>
       /\ \E j \in 1 .. k : SameFact(acc.facts[x[1]], resolved[j])
  /\ \A x \in DOMAIN acc.facts : x \in DOMAIN facts \/ <<x, r>> \in acc.evidence
  /\ \A j \in 1 .. k : \E x \in DOMAIN acc.facts :
       SameFact(acc.facts[x], resolved[j]) /\ <<x, r>> \in acc.evidence

LEMMA AddOn ==
  ASSUME NEW resolved \in Seq(FactRow), NEW k \in 1 .. Len(resolved), NEW r \in Records,
         facts \in Seq(FactRow), NEW acc \in Adding, NEW new \in Adding,
         Added(acc, resolved, r, k - 1), new = AddFact(acc, resolved[k], r)
  PROVE  Added(new, resolved, r, k)
  <1>1. resolved[k] \in FactRow
    OBVIOUS
  <1>2. /\ FactsDiffer(new.facts)
        /\ Grows(acc.facts, new.facts)
        /\ \E x \in DOMAIN new.facts :
             /\ SameFact(new.facts[x], resolved[k])
             /\ new.evidence = acc.evidence \cup {<<x, r>>}
             /\ DOMAIN new.facts \subseteq DOMAIN acc.facts \cup {x}
    BY <1>1, AddStep DEF Added
  <1>3. PICK c \in DOMAIN new.facts :
             /\ SameFact(new.facts[c], resolved[k])
             /\ new.evidence = acc.evidence \cup {<<c, r>>}
             /\ DOMAIN new.facts \subseteq DOMAIN acc.facts \cup {c}
    BY <1>2
  <1>4. acc.facts \in Seq(FactRow) /\ new.facts \in Seq(FactRow)
    BY DEF Adding
  <1>5. /\ DOMAIN acc.facts \subseteq DOMAIN new.facts
        /\ \A x \in DOMAIN acc.facts : new.facts[x] = acc.facts[x]
    <2>1. /\ DOMAIN acc.facts = 1 .. Len(acc.facts) /\ DOMAIN new.facts = 1 .. Len(new.facts)
          /\ Len(acc.facts) \in Nat /\ Len(new.facts) \in Nat
      BY <1>4
    <2> QED  BY <1>2, <2>1 DEF Grows
  <1>6. Grows(facts, new.facts)
    BY <1>2, <1>4, GrowsOn DEF Added
  <1>7. evidence \subseteq new.evidence
    BY <1>3 DEF Added
  <1>8. ASSUME NEW x \in new.evidence \ evidence
        PROVE  /\ x[1] \in DOMAIN new.facts /\ x = <<x[1], r>>
               /\ \E j \in 1 .. k : SameFact(new.facts[x[1]], resolved[j])
    <2>1. CASE x \in acc.evidence
      <3>1. /\ x[1] \in DOMAIN acc.facts /\ x = <<x[1], r>>
            /\ \E j \in 1 .. k - 1 : SameFact(acc.facts[x[1]], resolved[j])
        BY <2>1 DEF Added
      <3> QED  BY <1>5, <3>1
    <2>2. CASE x = <<c, r>>
      BY <1>3, <2>2
    <2> QED  BY <1>3, <2>1, <2>2
  <1>9. ASSUME NEW x \in DOMAIN new.facts
        PROVE  x \in DOMAIN facts \/ <<x, r>> \in new.evidence
    BY <1>3 DEF Added
  <1>10. ASSUME NEW j \in 1 .. k
         PROVE  \E x \in DOMAIN new.facts :
                  SameFact(new.facts[x], resolved[j]) /\ <<x, r>> \in new.evidence
    <2>1. CASE j = k
      BY <1>3, <2>1
    <2>2. CASE j \in 1 .. k - 1
      <3>1. PICK x \in DOMAIN acc.facts :
               SameFact(acc.facts[x], resolved[j]) /\ <<x, r>> \in acc.evidence
        BY <2>2 DEF Added
      <3> QED  BY <1>3, <1>5, <3>1
    <2>3. j = k \/ j \in 1 .. k - 1
      OBVIOUS
    <2> QED  BY <2>1, <2>2, <2>3
  <1> QED  BY <1>2, <1>6, <1>7, <1>8, <1>9, <1>10 DEF Added

LEMMA AddedAll ==
  ASSUME NEW resolved \in Seq(FactRow), NEW r \in Records,
         facts \in Seq(FactRow), evidence \in SUBSET (Nat \X Records), FactsDiffer(facts)
  PROVE  /\ AddAll(resolved, r) \in Adding
         /\ Added(AddAll(resolved, r), resolved, r, Len(resolved))
  <1>1. PICK acc \in [0 .. Len(resolved) -> Adding] :
           /\ acc[0] = [facts |-> facts, evidence |-> evidence]
           /\ \A k \in 1 .. Len(resolved) : acc[k] = AddFact(acc[k - 1], resolved[k], r)
           /\ AddAll(resolved, r) = acc[Len(resolved)]
    BY AddAllWay
  <1> DEFINE n == Len(resolved)
             T == {k \in 0 .. n : Added(acc[k], resolved, r, k)}
  <1>2. n \in Nat
    OBVIOUS
  <1>3. 0 \in T
    BY <1>1, <1>2 DEF Added, Grows
  <1>4. ASSUME NEW k \in 0 .. n - 1, k \in T PROVE k + 1 \in T
    <2>1. k + 1 \in 1 .. n /\ (k + 1) - 1 = k /\ k \in 0 .. n /\ k + 1 \in 0 .. n
      BY <1>2
    <2>2. acc[k] \in Adding /\ acc[k + 1] \in Adding
      BY <2>1
    <2>3. Added(acc[k], resolved, r, (k + 1) - 1)
      BY <1>4, <2>1
    <2>4. acc[k + 1] = AddFact(acc[k], resolved[k + 1], r)
      BY <1>1, <2>1
    <2> QED  BY <2>1, <2>2, <2>3, <2>4, AddOn
  <1> HIDE DEF T
  <1>5. \A k \in 0 .. n : k \in T
    BY <1>2, <1>3, <1>4, UpTo
  <1>6. n \in 0 .. n /\ n \in T
    BY <1>2, <1>5
  <1> QED  BY <1>1, <1>6 DEF T

-----------------------------------------------------------------------------
(* The invariant.                                                          *)
GraphTyped ==
  /\ published \in Seq(Records)
  /\ entities \in Seq(EntityRow)
  /\ aliases \in SUBSET (Nat \X Forms)
  /\ facts \in Seq(FactRow)
  /\ evidence \in SUBSET (Nat \X Records)

FactsNameEntities ==
  \A f \in DOMAIN facts : facts[f].subject \in DOMAIN entities
                          /\ facts[f].object \in DOMAIN entities

Mentions(r, e) == <<r, e, "mention">> \in links

EvidenceSaysSo ==
  \A x \in evidence :
    /\ x[1] \in DOMAIN facts /\ x[2] \in ToSet(published)
    /\ Stored(x[1]) \in Said(x[2])
    /\ Mentions(x[2], facts[x[1]].subject) /\ Mentions(x[2], facts[x[1]].object)

AllIsStored ==
  \A r \in ToSet(published) : \A s \in Said(r) :
    \E f \in DOMAIN facts : Stored(f) = s /\ <<f, r>> \in evidence

NoFactAlone == \A f \in DOMAIN facts : \E r \in Records : <<f, r>> \in evidence

GInv ==
  /\ GraphTyped
  /\ EntitiesDiffer(entities) /\ OwnNames(entities, aliases) /\ FactsDiffer(facts)
  /\ FactsNameEntities /\ EvidenceSaysSo /\ AllIsStored /\ NoFactAlone

LEMMA GraphFromInv == GInv => GraphIsWhatWasSaid
  <1> SUFFICES ASSUME GInv PROVE GraphIsWhatWasSaid
    OBVIOUS
  <1>1. ASSUME NEW f \in DOMAIN facts, NEW g \in DOMAIN facts, f # g
        PROVE  Stored(f) # Stored(g)
    <2>1. ~SameFact(facts[f], facts[g])
      BY <1>1 DEF GInv, FactsDiffer
    <2>2. /\ facts[f].subject \in DOMAIN entities /\ facts[g].subject \in DOMAIN entities
          /\ facts[f].object \in DOMAIN entities /\ facts[g].object \in DOMAIN entities
      BY DEF GInv, FactsNameEntities
    <2>3. \A e, d \in DOMAIN entities : Who(entities[e]) = Who(entities[d]) => e = d
      BY DEF GInv, EntitiesDiffer
    <2> QED  BY <2>1, <2>2, <2>3 DEF Stored, SameFact
  <1>2. \A e, d \in DOMAIN entities : e # d => Who(entities[e]) # Who(entities[d])
    BY DEF GInv, EntitiesDiffer
  <1>3. {<<Stored(x[1]), x[2]>> : x \in evidence} =
          UNION {{<<s, r>> : s \in Said(r)} : r \in ToSet(published)}
    <2>1. ASSUME NEW x \in evidence
          PROVE  x[2] \in ToSet(published) /\ Stored(x[1]) \in Said(x[2])
      BY DEF GInv, EvidenceSaysSo
    <2>2. ASSUME NEW r \in ToSet(published), NEW s \in Said(r)
          PROVE  \E x \in evidence : <<s, r>> = <<Stored(x[1]), x[2]>>
      <3>1. PICK f \in DOMAIN facts : Stored(f) = s /\ <<f, r>> \in evidence
        BY DEF GInv, AllIsStored
      <3> QED  BY <3>1
    <2> QED  BY <2>1, <2>2
  <1>4. {x[1] : x \in evidence} = DOMAIN facts
    <2>1. \A f \in DOMAIN facts : \E x \in evidence : x[1] = f
      <3> SUFFICES ASSUME NEW f \in DOMAIN facts PROVE \E x \in evidence : x[1] = f
        OBVIOUS
      <3>1. PICK r \in Records : <<f, r>> \in evidence
        BY DEF GInv, NoFactAlone
      <3> QED  BY <3>1
    <2> QED  BY <2>1 DEF GInv, EvidenceSaysSo
  <1>5. \A x \in evidence : \A e \in {facts[x[1]].subject, facts[x[1]].object} :
          <<x[2], e, "mention">> \in links
    BY DEF GInv, EvidenceSaysSo, Mentions
  <1> QED  BY <1>1, <1>2, <1>3, <1>4, <1>5 DEF GraphIsWhatWasSaid

LEMMA GraphInit == Init => GInv
  BY DEF Init, GInv, GraphTyped, EntitiesDiffer, OwnNames, FactsDiffer, FactsNameEntities,
         EvidenceSaysSo, AllIsStored, NoFactAlone, ToSet

(* What is said of a fact that is the same is the same.                    *)
LEMMA SameSaid ==
  ASSUME NEW f, NEW g, SameFact(f, g)
  PROVE  /\ f.subject = g.subject /\ f.object = g.object
         /\ f.predicate = g.predicate /\ f.text = g.text
  BY DEF SameFact

(* The facts of a record, by the entities its names were resolved to.      *)
FactOf(r, found, k, at, id) ==
  [subject |-> found.chosen[Len(r.speaker) + r.facts[k].subject],
   predicate |-> r.facts[k].predicate,
   object |-> found.chosen[Len(r.speaker) + r.facts[k].object],
   text |-> r.facts[k].text, at |-> at, id |-> id + k]

LEMMA PartsOfRecord ==
  ASSUME NEW r \in Records
  PROVE  /\ r.speaker \in Seq(Candidates) /\ r.entities \in Seq(Candidates)
         /\ r.facts \in Seq(Claims)
         /\ r.speaker \o r.entities \in Seq(Candidates)
         /\ Len(r.speaker \o r.entities) = Len(r.speaker) + Len(r.entities)
         /\ \A k \in 1 .. Len(r.entities) :
              (r.speaker \o r.entities)[Len(r.speaker) + k] = r.entities[k]
  <1>1. /\ r.speaker \in Seq(ToSet(r.speaker)) /\ r.entities \in Seq(ToSet(r.entities))
        /\ r.facts \in Seq(ToSet(r.facts))
    BY RecordsAreExtractions DEF IsSequence
  <1>2. /\ ToSet(r.speaker) \subseteq Candidates /\ ToSet(r.entities) \subseteq Candidates
        /\ ToSet(r.facts) \subseteq Claims
    BY DEF Candidates, Claims
  <1>3. /\ r.speaker \in Seq(Candidates) /\ r.entities \in Seq(Candidates)
        /\ r.facts \in Seq(Claims)
    BY <1>1, <1>2
  <1>4. r.speaker \o r.entities \in Seq(Candidates)
    BY <1>3
  <1>5. Len(r.speaker \o r.entities) = Len(r.speaker) + Len(r.entities)
    BY <1>3
  <1>6. \A k \in 1 .. Len(r.entities) :
          (r.speaker \o r.entities)[Len(r.speaker) + k] = r.entities[k]
    <2>1. Len(r.speaker) \in Nat /\ Len(r.entities) \in Nat
      BY <1>3
    <2>2. \A i \in 1 .. Len(r.speaker) + Len(r.entities) :
            (r.speaker \o r.entities)[i] =
              IF i <= Len(r.speaker) THEN r.speaker[i] ELSE r.entities[i - Len(r.speaker)]
      BY <1>3, ConcatProperties
    <2> SUFFICES ASSUME NEW k \in 1 .. Len(r.entities)
                 PROVE  (r.speaker \o r.entities)[Len(r.speaker) + k] = r.entities[k]
      OBVIOUS
    <2> DEFINE i == Len(r.speaker) + k
    <2>3. /\ i \in 1 .. Len(r.speaker) + Len(r.entities)
          /\ ~(i <= Len(r.speaker)) /\ i - Len(r.speaker) = k
      <3>1. \A a, b \in Nat : \A c \in 1 .. b :
              a + c \in 1 .. a + b /\ ~(a + c <= a) /\ (a + c) - a = c
        OBVIOUS
      <3> QED  BY <2>1, <3>1
    <2> HIDE DEF i
    <2>4. (r.speaker \o r.entities)[i] = r.entities[k]
      BY <2>2, <2>3
    <2> QED  BY <2>4 DEF i
  <1> QED  BY <1>3, <1>4, <1>5, <1>6

LEMMA FactsOfRecord ==
  ASSUME NEW r \in Records, Valid(r), NEW found \in Resolving,
         Resolved(found, r.speaker \o r.entities, Len(r.speaker \o r.entities)),
         NEW k \in DOMAIN r.facts, NEW at \in Int, NEW id \in Int
  PROVE  LET f == FactOf(r, found, k, at, id)
             c == r.facts[k]
         IN  /\ f \in FactRow
             /\ f.subject \in DOMAIN found.entities /\ f.object \in DOMAIN found.entities
             /\ Who(found.entities[f.subject]) = Who(r.entities[c.subject])
             /\ Who(found.entities[f.object]) = Who(r.entities[c.object])
             /\ <<r, f.subject, "mention">> \in Mentioned(r, found.chosen)
             /\ <<r, f.object, "mention">> \in Mentioned(r, found.chosen)
  <1> DEFINE f == FactOf(r, found, k, at, id)
             c == r.facts[k]
             n == Len(r.speaker)
             cands == r.speaker \o r.entities
  <1>1. /\ n \in Nat /\ Len(r.entities) \in Nat /\ DOMAIN r.entities = 1 .. Len(r.entities)
        /\ Len(cands) = n + Len(r.entities) /\ k \in Nat /\ c \in Claims
        /\ \A j \in 1 .. Len(r.entities) : cands[n + j] = r.entities[j]
    <2>1. r.speaker \in Seq(Candidates) /\ r.entities \in Seq(Candidates)
          /\ r.facts \in Seq(Claims)
      BY PartsOfRecord
    <2>2. /\ n \in Nat /\ Len(r.entities) \in Nat /\ DOMAIN r.entities = 1 .. Len(r.entities)
          /\ k \in Nat /\ c \in Claims
      BY <2>1
    <2>3. Len(cands) = n + Len(r.entities)
      BY PartsOfRecord
    <2>4. \A j \in 1 .. Len(r.entities) : cands[n + j] = r.entities[j]
      BY PartsOfRecord
    <2> QED  BY <2>2, <2>3, <2>4
  <1>2. c.subject \in 1 .. Len(r.entities) /\ c.object \in 1 .. Len(r.entities)
    BY <1>1 DEF Valid
  <1>3. Len(found.chosen) = Len(cands) /\ found.chosen \in Seq(Nat)
        /\ found.entities \in Seq(EntityRow)
    BY DEF Resolved, Resolving
  <1> HIDE DEF cands, n
  <1>4. ASSUME NEW j \in 1 .. Len(r.entities)
        PROVE  /\ found.chosen[n + j] \in DOMAIN found.entities
               /\ Who(found.entities[found.chosen[n + j]]) = Who(r.entities[j])
               /\ <<r, found.chosen[n + j], "mention">> \in Mentioned(r, found.chosen)
    <2>1. n + j \in 1 .. Len(cands) /\ n + j \in n + 1 .. Len(found.chosen)
      BY <1>1, <1>3
    <2>2. /\ found.chosen[n + j] \in DOMAIN found.entities
          /\ Who(found.entities[found.chosen[n + j]]) = Who(cands[n + j])
      BY <2>1 DEF Resolved, cands
    <2>3. <<r, found.chosen[n + j], "mention">> \in Mentioned(r, found.chosen)
      BY <2>1 DEF Mentioned, n
    <2> QED  BY <1>1, <2>2, <2>3
  <1>5. f.subject = found.chosen[n + c.subject] /\ f.object = found.chosen[n + c.object]
    BY DEF FactOf, n
  <1>6. f.subject \in Nat /\ f.object \in Nat
    <2>1. DOMAIN found.entities \subseteq Nat
      BY <1>3
    <2> QED  BY <1>2, <1>4, <1>5, <2>1
  <1>7. f \in FactRow
    BY <1>1, <1>6 DEF FactOf, FactRow
  <1> QED  BY <1>2, <1>4, <1>5, <1>7

LEMMA PublishKeeps ==
  ASSUME GInv, NEW r \in Records, NEW early \in BOOLEAN, Publish(r, early)
  PROVE  GInv'
  <1> DEFINE at == Len(published) + 1
             id == IF early THEN -10 * at ELSE 10 * at
             cands == r.speaker \o r.entities
             found == ResolveAll(cands, at, id)
             resolved == [k \in DOMAIN r.facts |-> FactOf(r, found, k, at, id)]
             added == AddAll(resolved, r)
             said(k) == <<Who(r.entities[r.facts[k].subject]), r.facts[k].predicate,
                          Who(r.entities[r.facts[k].object]), r.facts[k].text>>
  <1>1. /\ Valid(r) /\ published' = Append(published, r)
        /\ entities' = found.entities /\ aliases' = found.aliases
        /\ facts' = added.facts /\ evidence' = added.evidence
        /\ links \subseteq links' /\ Mentioned(r, found.chosen) \subseteq links'
    BY DEF Publish, FactOf
  <1>2. /\ published \in Seq(Records) /\ entities \in Seq(EntityRow) /\ facts \in Seq(FactRow)
        /\ aliases \in SUBSET (Nat \X Forms) /\ evidence \in SUBSET (Nat \X Records)
        /\ EntitiesDiffer(entities) /\ OwnNames(entities, aliases) /\ FactsDiffer(facts)
    BY DEF GInv, GraphTyped
  <1>3. at \in Int /\ id \in Int
    BY <1>2
  <1>4. cands \in Seq(Candidates)
    BY PartsOfRecord
  <1> HIDE DEF at, id
  <1>5. found \in Resolving /\ Resolved(found, cands, Len(cands))
    BY <1>2, <1>3, <1>4, ResolvedAll
  <1> HIDE DEF found
  <1>6. ASSUME NEW k \in DOMAIN r.facts
        PROVE  LET f == FactOf(r, found, k, at, id)
               IN  /\ f \in FactRow
                   /\ f.subject \in DOMAIN found.entities /\ f.object \in DOMAIN found.entities
                   /\ <<Who(found.entities[f.subject]), f.predicate,
                        Who(found.entities[f.object]), f.text>> = said(k)
                   /\ <<r, f.subject, "mention">> \in links'
                   /\ <<r, f.object, "mention">> \in links'
    BY <1>1, <1>3, <1>5, FactsOfRecord DEF FactOf
  <1>7. /\ r.facts \in Seq(Claims) /\ DOMAIN r.facts = 1 .. Len(r.facts) /\ Len(r.facts) \in Nat
    <2>1. r.facts \in Seq(Claims)
      BY PartsOfRecord
    <2> QED  BY <2>1
  <1>8. /\ resolved \in Seq(FactRow) /\ Len(resolved) = Len(r.facts)
        /\ \A k \in 1 .. Len(r.facts) : resolved[k] = FactOf(r, found, k, at, id)
    <2>1. \A k \in 1 .. Len(r.facts) : FactOf(r, found, k, at, id) \in FactRow
      BY <1>6, <1>7
    <2>2. resolved \in [1 .. Len(r.facts) -> FactRow]
      BY <1>7, <2>1
    <2>3. resolved \in Seq(FactRow) /\ Len(resolved) = Len(r.facts)
      BY <1>7, <2>2
    <2> QED  BY <1>7, <2>3
  <1> HIDE DEF resolved
  <1>9. added \in Adding /\ Added(added, resolved, r, Len(resolved))
    BY <1>2, <1>8, AddedAll
  <1> HIDE DEF added
  <1>10. ToSet(published)' = ToSet(published) \cup {r}
    BY <1>1, <1>2 DEF ToSet
  <1>11. GraphTyped'
    BY <1>1, <1>2, <1>5, <1>9 DEF GraphTyped, Resolving, Adding
  <1>12. /\ Grows(entities, entities') /\ EntitiesDiffer(entities)' /\ OwnNames(entities, aliases)'
    BY <1>1, <1>5 DEF Resolved
  <1>13. /\ Grows(facts, facts') /\ FactsDiffer(facts)'
         /\ evidence \subseteq evidence'
    BY <1>1, <1>9 DEF Added
  <1>14. /\ DOMAIN entities \subseteq DOMAIN entities' /\ DOMAIN facts \subseteq DOMAIN facts'
         /\ \A e \in DOMAIN entities : entities'[e] = entities[e]
         /\ \A f \in DOMAIN facts : facts'[f] = facts[f]
    <2>1. /\ DOMAIN entities = 1 .. Len(entities) /\ DOMAIN facts = 1 .. Len(facts)
          /\ Len(entities) \in Nat /\ Len(facts) \in Nat
      BY <1>2
    <2>2. /\ DOMAIN entities' = 1 .. Len(entities') /\ DOMAIN facts' = 1 .. Len(facts')
          /\ Len(entities') \in Nat /\ Len(facts') \in Nat
      BY <1>11 DEF GraphTyped
    <2> QED  BY <1>12, <1>13, <2>1, <2>2 DEF Grows
  (* A fact that is as one of the record's says what the record says.      *)
  <1>15. ASSUME NEW x \in DOMAIN facts', NEW k \in 1 .. Len(r.facts),
                SameFact(facts'[x], resolved[k])
         PROVE  /\ Stored(x)' = said(k)
                /\ facts'[x].subject \in DOMAIN entities' /\ facts'[x].object \in DOMAIN entities'
                /\ <<r, facts'[x].subject, "mention">> \in links'
                /\ <<r, facts'[x].object, "mention">> \in links'
    <2>1. LET f == resolved[k]
          IN  /\ f.subject \in DOMAIN entities' /\ f.object \in DOMAIN entities'
              /\ <<Who(entities'[f.subject]), f.predicate,
                   Who(entities'[f.object]), f.text>> = said(k)
              /\ <<r, f.subject, "mention">> \in links'
              /\ <<r, f.object, "mention">> \in links'
      BY <1>1, <1>6, <1>7, <1>8
    <2>2. /\ facts'[x].subject = resolved[k].subject /\ facts'[x].object = resolved[k].object
          /\ facts'[x].predicate = resolved[k].predicate /\ facts'[x].text = resolved[k].text
      BY <1>15, SameSaid
    <2> QED  BY <2>1, <2>2 DEF Stored
  <1>16. ASSUME NEW f \in DOMAIN facts
         PROVE  /\ Stored(f)' = Stored(f)
                /\ facts'[f].subject = facts[f].subject /\ facts'[f].object = facts[f].object
                /\ facts'[f].subject \in DOMAIN entities' /\ facts'[f].object \in DOMAIN entities'
    <2>1. facts[f].subject \in DOMAIN entities /\ facts[f].object \in DOMAIN entities
      BY DEF GInv, FactsNameEntities
    <2> QED  BY <1>14, <2>1 DEF Stored
  (* What is new in evidence is the record's, of a fact of its own.        *)
  <1>17. ASSUME NEW x \in evidence', x \notin evidence
         PROVE  /\ x[1] \in DOMAIN facts' /\ x[2] = r
                /\ \E k \in 1 .. Len(r.facts) : SameFact(facts'[x[1]], resolved[k])
    <2>1. /\ x[1] \in DOMAIN facts' /\ x = <<x[1], r>>
          /\ \E k \in 1 .. Len(resolved) : SameFact(facts'[x[1]], resolved[k])
      BY <1>1, <1>9, <1>17 DEF Added
    <2> QED  BY <1>8, <2>1
  <1>18. \A k \in 1 .. Len(r.facts) : said(k) \in Said(r)
    BY <1>7 DEF Said
  <1>19. ASSUME NEW x \in DOMAIN facts'
         PROVE  /\ facts'[x].subject \in DOMAIN entities' /\ facts'[x].object \in DOMAIN entities'
                /\ \E q \in Records : <<x, q>> \in evidence'
    <2>1. CASE x \in DOMAIN facts
      <3>1. PICK q \in Records : <<x, q>> \in evidence
        BY <2>1 DEF GInv, NoFactAlone
      <3> QED  BY <1>13, <1>16, <2>1, <3>1
    <2>2. CASE x \notin DOMAIN facts
      <3>1. <<x, r>> \in evidence'
        BY <1>1, <1>9, <2>2 DEF Added
      <3>2. <<x, r>> \notin evidence
        BY <2>2 DEF GInv, EvidenceSaysSo
      <3>3. PICK k \in 1 .. Len(r.facts) : SameFact(facts'[x], resolved[k])
        BY <1>17, <3>1, <3>2
      <3> QED  BY <1>15, <3>1, <3>3
    <2> QED  BY <2>1, <2>2
  <1>20. FactsNameEntities' /\ NoFactAlone'
    BY <1>19 DEF FactsNameEntities, NoFactAlone
  <1>21. ASSUME NEW x \in evidence'
         PROVE  /\ x[1] \in DOMAIN facts' /\ x[2] \in ToSet(published)'
                /\ Stored(x[1])' \in Said(x[2])
                /\ <<x[2], facts'[x[1]].subject, "mention">> \in links'
                /\ <<x[2], facts'[x[1]].object, "mention">> \in links'
    <2>1. CASE x \in evidence
      <3>1. /\ x[1] \in DOMAIN facts /\ x[2] \in ToSet(published)
            /\ Stored(x[1]) \in Said(x[2])
            /\ <<x[2], facts[x[1]].subject, "mention">> \in links
            /\ <<x[2], facts[x[1]].object, "mention">> \in links
        BY <2>1 DEF GInv, EvidenceSaysSo, Mentions
      <3> QED  BY <1>1, <1>10, <1>14, <1>16, <3>1
    <2>2. CASE x \notin evidence
      <3>1. x[1] \in DOMAIN facts' /\ x[2] = r
        BY <1>17, <2>2
      <3>2. PICK k \in 1 .. Len(r.facts) : SameFact(facts'[x[1]], resolved[k])
        BY <1>17, <2>2
      <3>3. Stored(x[1])' \in Said(r)
        BY <1>15, <1>18, <3>1, <3>2
      <3>4. /\ <<r, facts'[x[1]].subject, "mention">> \in links'
            /\ <<r, facts'[x[1]].object, "mention">> \in links'
        BY <1>15, <3>1, <3>2
      <3> QED  BY <1>10, <3>1, <3>3, <3>4
    <2> QED  BY <2>1, <2>2
  <1>22. EvidenceSaysSo'
    BY <1>21 DEF EvidenceSaysSo, Mentions
  <1>23. ASSUME NEW q \in ToSet(published)', NEW s \in Said(q)
         PROVE  \E f \in DOMAIN facts' : Stored(f)' = s /\ <<f, q>> \in evidence'
    <2>1. CASE q \in ToSet(published)
      <3>1. PICK f \in DOMAIN facts : Stored(f) = s /\ <<f, q>> \in evidence
        BY <2>1 DEF GInv, AllIsStored
      <3> QED  BY <1>13, <1>14, <1>16, <3>1
    <2>2. CASE q = r
      <3>1. PICK k \in 1 .. Len(r.facts) : s = said(k)
        BY <1>7, <2>2 DEF Said
      <3>2. PICK x \in DOMAIN facts' : SameFact(facts'[x], resolved[k]) /\ <<x, r>> \in evidence'
        BY <1>1, <1>8, <1>9 DEF Added
      <3> QED  BY <1>15, <2>2, <3>1, <3>2
    <2> QED  BY <1>10, <2>1, <2>2
  <1>24. AllIsStored'
    BY <1>23 DEF AllIsStored
  <1> QED  BY <1>11, <1>12, <1>13, <1>20, <1>22, <1>24 DEF GInv

LEMMA GraphStep == GInv /\ [Next]_vars => GInv'
  <1> SUFFICES ASSUME GInv, [Next]_vars PROVE GInv'
    OBVIOUS
  <1>1. CASE Next
    BY <1>1, PublishKeeps DEF Next
  <1>2. CASE UNCHANGED vars
    BY <1>2 DEF vars, GInv, GraphTyped, FactsNameEntities, EvidenceSaysSo, Mentions, AllIsStored,
                NoFactAlone, Stored
  <1> QED  BY <1>1, <1>2

(* GInv holds in every state, for all records.                             *)
THEOREM GraphInvariance == Spec => []GInv
  BY GraphInit, GraphStep, PTL DEF Spec

(* Whatever records are published in whatever order, the graph is what     *)
(* they say: every fact once, with the records that say it as evidence and *)
(* no others, each linked to the entities of the fact                      *)
(* (publish_resolution, resolve_entity_candidate, resolve_fact_candidate). *)
THEOREM GraphSaysIt == Spec => []GraphIsWhatWasSaid
  BY GraphFromInv, GraphInvariance, PTL
-----------------------------------------------------------------------------
(* What a query gets back, for all records and all queries.  Sorting first: *)
(* the ranks of a finite set's members are an injection into the numbers up  *)
(* to its size, hence onto them.                                           *)

(* An order that may leave some undecided, in groups.                      *)
Orders(R, S) ==
  /\ \A x, y \in S : <<x, y>> \in R => <<y, x>> \notin R
  /\ \A x, y, z \in S : <<x, z>> \in R => <<x, y>> \in R \/ <<y, z>> \in R

LEMMA PrecedesOrders ==
  ASSUME NEW S \in SUBSET Nat, NEW R, Orders(R, S)
  PROVE  /\ \A x, y \in S : x # y => Precedes(R, x, y) \/ Precedes(R, y, x)
         /\ \A x, y \in S : Precedes(R, x, y) => ~Precedes(R, y, x)
         /\ \A x, y, z \in S : Precedes(R, x, y) /\ Precedes(R, y, z) => Precedes(R, x, z)
  <1>1. S \subseteq Nat
    OBVIOUS
  <1>2. ASSUME NEW x \in S, NEW y \in S
        PROVE  /\ x # y => Precedes(R, x, y) \/ Precedes(R, y, x)
               /\ Precedes(R, x, y) => ~Precedes(R, y, x)
    <2>1. x \in Nat /\ y \in Nat
      BY <1>1
    <2>2. <<x, y>> \in R => <<y, x>> \notin R
      BY DEF Orders
    <2> QED  BY <2>1, <2>2 DEF Precedes
  <1>4. ASSUME NEW x \in S, NEW y \in S, NEW z \in S, Precedes(R, x, y), Precedes(R, y, z)
        PROVE  Precedes(R, x, z)
    <2>1. x \in Nat /\ y \in Nat /\ z \in Nat
      BY <1>1
    <2>2. CASE <<x, z>> \in R
      BY <2>2 DEF Precedes
    <2>3. CASE <<x, z>> \notin R
      <3>1. <<x, y>> \notin R \/ <<y, z>> \notin R
        BY <2>3 DEF Orders
      <3>2. <<z, x>> \notin R
        BY <1>4, <3>1 DEF Orders, Precedes
      <3>3. <<x, y>> \notin R /\ <<y, z>> \notin R
        BY <1>4, <2>3, <3>2 DEF Orders, Precedes
      <3> QED  BY <1>4, <2>1, <2>3, <3>2, <3>3 DEF Precedes
    <2> QED  BY <2>2, <2>3
  <1> QED  BY <1>2, <1>4

(* Sorting loses nothing, doubles nothing and puts in order.               *)
LEMMA SortedIs ==
  ASSUME NEW S \in SUBSET Nat, IsFiniteSet(S), NEW R, Orders(R, S)
  PROVE  /\ Cardinality(S) \in Nat
         /\ Sorted(S, R) \in [1 .. Cardinality(S) -> S]
         /\ \A x \in S : \E k \in 1 .. Cardinality(S) : Sorted(S, R)[k] = x
         /\ \A i, j \in 1 .. Cardinality(S) :
              i < j => Precedes(R, Sorted(S, R)[i], Sorted(S, R)[j])
  <1> DEFINE n == Cardinality(S)
             below(x) == {y \in S : Precedes(R, y, x)}
             rank == [x \in S |-> Cardinality(below(x)) + 1]
  <1>1. n \in Nat
    BY FS_CardinalityType
  <1>2. ASSUME NEW x \in S
        PROVE  /\ IsFiniteSet(below(x)) /\ Cardinality(below(x)) \in 0 .. n - 1
    <2>1. below(x) \in SUBSET (S \ {x})
      BY PrecedesOrders
    <2>2. IsFiniteSet(S \ {x}) /\ Cardinality(S \ {x}) = n - 1
      BY FS_RemoveElement
    <2> QED  BY <1>1, <2>1, <2>2, FS_Subset, FS_CardinalityType
  <1>3. ASSUME NEW x \in S, NEW y \in S, Precedes(R, x, y)
        PROVE  Cardinality(below(x)) < Cardinality(below(y))
    <2>1. below(x) \in SUBSET below(y)
      BY <1>3, PrecedesOrders
    <2>2. x \in below(y) /\ x \notin below(x)
      BY <1>3, PrecedesOrders
    <2>3. Cardinality(below(x)) <= Cardinality(below(y))
          /\ Cardinality(below(x)) # Cardinality(below(y))
      BY <1>2, <2>1, <2>2, FS_Subset
    <2> QED  BY <1>2, <2>3
  <1>4. rank \in [S -> 1 .. n]
    BY <1>1, <1>2
  <1>5. \A x, y \in S : x # y => rank[x] # rank[y]
    BY <1>2, <1>3, PrecedesOrders
  <1> HIDE DEF rank
  <1>6. rank \in Injection(S, 1 .. n)
    BY <1>4, <1>5 DEF Injection, IsInjective
  <1>7. IsFiniteSet(1 .. n) /\ Cardinality(1 .. n) = n
    BY <1>1, FS_Interval
  <1>8. rank \in Surjection(S, 1 .. n)
    BY <1>6, <1>7, FS_Injection
  <1>9. \A k \in 1 .. n : \E x \in S : rank[x] = k
    BY <1>8 DEF Surjection
  <1> USE DEF rank
  <1>10. ASSUME NEW k \in 1 .. n
         PROVE  Sorted(S, R)[k] \in S /\ rank[Sorted(S, R)[k]] = k
    <2>1. PICK x \in S : rank[x] = k
      BY <1>9
    <2>2. Cardinality(below(x)) = k - 1
      BY <1>2, <2>1
    <2>3. Sorted(S, R)[k] = CHOOSE y \in S : Cardinality(below(y)) = k - 1
      BY DEF Sorted
    <2>4. Sorted(S, R)[k] \in S /\ Cardinality(below(Sorted(S, R)[k])) = k - 1
      BY <2>2, <2>3
    <2> QED  BY <1>2, <2>4
  <1>11. Sorted(S, R) \in [1 .. n -> S]
    <2> DEFINE at(k) == CHOOSE x \in S : Cardinality(below(x)) = k - 1
    <2>1. Sorted(S, R) = [k \in 1 .. n |-> at(k)]
      BY DEF Sorted
    <2> HIDE DEF at
    <2>2. \A k \in 1 .. n : at(k) \in S
      BY <1>10, <2>1
    <2> QED  BY <2>1, <2>2
  <1> HIDE DEF rank
  <1>12. ASSUME NEW x \in S
         PROVE  rank[x] \in 1 .. n /\ Sorted(S, R)[rank[x]] = x
    BY <1>4, <1>5, <1>10
  <1>13. ASSUME NEW i \in 1 .. n, NEW j \in 1 .. n, i < j
         PROVE  Precedes(R, Sorted(S, R)[i], Sorted(S, R)[j])
    <2> DEFINE x == Sorted(S, R)[i]
               y == Sorted(S, R)[j]
    <2>1. x \in S /\ y \in S /\ rank[x] = i /\ rank[y] = j
      BY <1>10
    <2> HIDE DEF x, y
    <2>2. x # y
      BY <1>13, <2>1
    <2>3. ASSUME Precedes(R, y, x) PROVE FALSE
      <3>1. Cardinality(below(y)) < Cardinality(below(x))
        BY <1>3, <2>1, <2>3
      <3>2. rank[y] < rank[x]
        BY <1>2, <2>1, <3>1 DEF rank
      <3> QED  BY <1>1, <1>13, <2>1, <3>2
    <2> QED  BY <2>1, <2>2, <2>3, PrecedesOrders DEF x, y
  <1> QED  BY <1>1, <1>11, <1>12, <1>13

LEMMA FewOf ==
  ASSUME NEW X, NEW s \in Seq(X), NEW n \in Nat
  PROVE  /\ FirstFew(s, n) \in Seq(X)
         /\ Len(FirstFew(s, n)) <= n
         /\ Len(FirstFew(s, n)) <= Len(s)
         /\ \A k \in DOMAIN FirstFew(s, n) : FirstFew(s, n)[k] = s[k]
         /\ Len(s) <= n => FirstFew(s, n) = s
         /\ n > 0 /\ s # <<>> => FirstFew(s, n) # <<>>
  <1> DEFINE m == IF n < Len(s) THEN n ELSE Len(s)
  <1>1. Len(s) \in Nat /\ m \in 0 .. Len(s) /\ m <= n
    OBVIOUS
  <1>2. FirstFew(s, n) = SubSeq(s, 1, m)
    BY DEF FirstFew
  <1> HIDE DEF m
  <1>3. /\ FirstFew(s, n) \in Seq(X) /\ Len(FirstFew(s, n)) = m
        /\ \A k \in 1 .. m : FirstFew(s, n)[k] = s[k]
    <2>1. \A k \in 1 .. m : s[k] \in X
      BY <1>1
    <2>2. /\ Len(SubSeq(s, 1, m)) = m
          /\ \A k \in 1 .. m : SubSeq(s, 1, m)[k] = s[k]
      BY <1>1, SubSeqProperties
    <2>3. SubSeq(s, 1, m) \in Seq(X)
      BY <1>1, SubSeqProperties
    <2> QED  BY <1>2, <2>2, <2>3
  <1>4. Len(s) <= n => m = Len(s)
    BY <1>1 DEF m
  <1>5. ASSUME Len(s) <= n PROVE FirstFew(s, n) = s
    BY <1>1, <1>3, <1>4, <1>5
  <1>6. ASSUME n > 0, s # <<>> PROVE FirstFew(s, n) # <<>>
    <2>1. m > 0
      BY <1>1, <1>6 DEF m
    <2> QED  BY <1>3, <2>1
  <1> QED  BY <1>1, <1>3, <1>5, <1>6

LEMMA FewSet ==
  ASSUME NEW X, NEW s \in Seq(X), NEW n \in Nat
  PROVE  ToSet(FirstFew(s, n)) \subseteq ToSet(s)
  <1>1. /\ FirstFew(s, n) \in Seq(X) /\ Len(FirstFew(s, n)) <= Len(s)
        /\ \A k \in DOMAIN FirstFew(s, n) : FirstFew(s, n)[k] = s[k]
    BY FewOf
  <1>2. DOMAIN FirstFew(s, n) \subseteq DOMAIN s
    BY <1>1
  <1> QED  BY <1>1, <1>2 DEF ToSet

(* A sorted set and its first members.                                     *)
LEMMA SortedSet ==
  ASSUME NEW S \in SUBSET Nat, IsFiniteSet(S), NEW R, Orders(R, S)
  PROVE  /\ Sorted(S, R) \in Seq(S)
         /\ Len(Sorted(S, R)) = Cardinality(S)
         /\ ToSet(Sorted(S, R)) = S
         /\ S # {} => Sorted(S, R) # <<>>
  <1>1. /\ Cardinality(S) \in Nat
        /\ Sorted(S, R) \in [1 .. Cardinality(S) -> S]
        /\ \A x \in S : \E k \in 1 .. Cardinality(S) : Sorted(S, R)[k] = x
    BY SortedIs
  <1>2. Sorted(S, R) \in Seq(S) /\ Len(Sorted(S, R)) = Cardinality(S)
    BY <1>1
  <1>3. ToSet(Sorted(S, R)) = S
    BY <1>1 DEF ToSet
  <1>4. ASSUME S # {} PROVE Sorted(S, R) # <<>>
    <2>1. PICK x : x \in S
      BY <1>4
    <2>2. PICK k \in 1 .. Cardinality(S) : Sorted(S, R)[k] = x
      BY <1>1, <2>1
    <2>3. Len(Sorted(S, R)) # 0
      BY <1>1, <1>2, <2>2
    <2> QED  BY <2>3
  <1> QED  BY <1>2, <1>3, <1>4

LEMMA TopOf ==
  ASSUME NEW S \in SUBSET Nat, IsFiniteSet(S), NEW R, Orders(R, S), NEW n \in Nat
  PROVE  /\ FirstFew(Sorted(S, R), n) \in Seq(S)
         /\ ToSet(FirstFew(Sorted(S, R), n)) \subseteq S
         /\ Cardinality(S) <= n => ToSet(FirstFew(Sorted(S, R), n)) = S
         /\ n > 0 /\ S # {} => ToSet(FirstFew(Sorted(S, R), n)) # {}
  <1> DEFINE s == Sorted(S, R)
             t == FirstFew(s, n)
  <1>1. s \in Seq(S) /\ Len(s) = Cardinality(S) /\ ToSet(s) = S /\ (S # {} => s # <<>>)
    BY SortedSet
  <1> HIDE DEF s
  <1>2. t \in Seq(S) /\ (Len(s) <= n => t = s) /\ (n > 0 /\ s # <<>> => t # <<>>)
    BY <1>1, FewOf
  <1>3. ToSet(t) \subseteq S
    BY <1>1, FewSet
  <1>4. t # <<>> => ToSet(t) # {}
    <2>1. t # <<>> => 1 \in DOMAIN t
      BY <1>2
    <2> QED  BY <2>1 DEF ToSet
  <1> QED  BY <1>1, <1>2, <1>3, <1>4 DEF s

(* What is told apart by numbers is ordered by them, one after the other.  *)
LEMMA ByNumbers ==
  ASSUME NEW S, NEW a \in [S -> Int], NEW b \in [S -> Int], NEW c \in [S -> Int], NEW R,
         \A x, y \in S : <<x, y>> \in R <=>
           \/ a[x] < a[y]
           \/ a[x] = a[y] /\ (b[x] < b[y] \/ (b[x] = b[y] /\ c[x] < c[y]))
  PROVE  Orders(R, S)
  BY DEF Orders

LEMMA ByNothing == \A S : Orders({}, S)
  BY DEF Orders

LEMMA SomeAreFinite ==
  ASSUME NEW n \in Nat, NEW S \in SUBSET (1 .. n)
  PROVE  S \in SUBSET Nat /\ IsFiniteSet(S)
  <1>1. IsFiniteSet(1 .. n)
    BY FS_Interval
  <1>2. IsFiniteSet(S)
    BY <1>1, FS_Subset
  <1> QED  BY <1>2

LEMMA HitsCount ==
  ASSUME NEW text, IsSequence(text), NEW terms
  PROVE  Hits(text, terms) \in Nat
  <1> DEFINE n == Len(text)
  <1>1. n \in Nat /\ text \in [1 .. n -> ToSet(text)]
    BY DEF IsSequence
  <1>2. text \in Surjection(1 .. n, ToSet(text))
    BY <1>1 DEF Surjection, ToSet
  <1>3. IsFiniteSet(ToSet(text))
    BY <1>1, <1>2, FS_Interval, FS_Surjection
  <1> QED  BY <1>3, FS_Intersection, FS_CardinalityType DEF Hits

(* What the rows have that a query needs.                                  *)
LEMMA RowsFit ==
  ASSUME GInv
  PROVE  /\ entities \in Seq(EntityRow) /\ facts \in Seq(FactRow) /\ published \in Seq(Records)
         /\ \A e \in DOMAIN entities : /\ entities[e].at \in Int /\ entities[e].id \in Int
                                       /\ IsSequence(Norm(entities[e].name))
         /\ \A f \in DOMAIN facts : /\ facts[f].at \in Int /\ facts[f].id \in Int
                                    /\ IsSequence(facts[f].text)
         /\ \A k \in DOMAIN published : IsSequence(published[k].words)
  <1>1. entities \in Seq(EntityRow) /\ facts \in Seq(FactRow) /\ published \in Seq(Records)
    BY DEF GInv, GraphTyped
  <1>2. ASSUME NEW e \in DOMAIN entities
        PROVE  /\ entities[e].at \in Int /\ entities[e].id \in Int
               /\ IsSequence(Norm(entities[e].name))
    <2>1. entities[e] \in EntityRow
      BY <1>1
    <2>2. PICK c \in Candidates : c.name = entities[e].name
      BY <2>1 DEF EntityRow
    <2>3. IsSequence(c.name.tokens)
      BY RecordsAreExtractions DEF Candidates
    <2> QED  BY <2>1, <2>2, <2>3 DEF EntityRow, Norm
  <1>3. ASSUME NEW f \in DOMAIN facts
        PROVE  facts[f].at \in Int /\ facts[f].id \in Int /\ IsSequence(facts[f].text)
    <2>1. facts[f] \in FactRow
      BY <1>1
    <2>2. PICK c \in Claims : c.text = facts[f].text
      BY <2>1 DEF FactRow
    <2>3. IsSequence(c.text)
      BY RecordsAreExtractions DEF Claims
    <2> QED  BY <2>1, <2>2, <2>3 DEF FactRow
  <1>4. \A k \in DOMAIN published : IsSequence(published[k].words)
    BY <1>1, RecordsAreExtractions
  <1> QED  BY <1>1, <1>2, <1>3, <1>4

LEMMA RowsOrdered ==
  ASSUME NEW S, NEW table, \A x \in S : table[x].at \in Int /\ table[x].id \in Int
  PROVE  Orders({x \in S \X S : Before(table[x[1]], table[x[2]])}, S)
  <1> DEFINE R == {x \in S \X S : Before(table[x[1]], table[x[2]])}
             a == [x \in S |-> table[x].at]
             b == [x \in S |-> table[x].id]
  <1>1. a \in [S -> Int] /\ b \in [S -> Int]
    OBVIOUS
  <1>2. \A x, y \in S : <<x, y>> \in R <=>
          \/ a[x] < a[y]
          \/ a[x] = a[y] /\ (b[x] < b[y] \/ (b[x] = b[y] /\ b[x] < b[y]))
    BY <1>1 DEF Before
  <1> HIDE DEF a, b, R
  <1>3. Orders(R, S)
    BY <1>1, <1>2, ByNumbers
  <1> QED  BY <1>3 DEF R

(* The full text search finds what has one of the terms.                    *)
Hitting(S, texts, terms) == {k \in S : Hits(texts[k], terms) > 0}

LEMMA RankedIs ==
  ASSUME NEW S, NEW table, NEW texts, NEW terms,
         \A x \in S : table[x].at \in Int /\ table[x].id \in Int /\ IsSequence(texts[x])
  PROVE  \E R : /\ Orders(R, Hitting(S, texts, terms))
                /\ Ranked(table, texts, S, terms) = Sorted(Hitting(S, texts, terms), R)
  <1> DEFINE hits(k) == Hits(texts[k], terms)
             matching == {k \in S : hits(k) > 0}
             R == {x \in matching \X matching :
                     \/ hits(x[1]) > hits(x[2])
                     \/ hits(x[1]) = hits(x[2]) /\ Before(table[x[1]], table[x[2]])}
             a == [x \in matching |-> 0 - hits(x)]
             b == [x \in matching |-> table[x].at]
             c == [x \in matching |-> table[x].id]
  <1>1. \A x \in S : hits(x) \in Nat
    BY HitsCount
  <1>2. Ranked(table, texts, S, terms) = Sorted(matching, R)
    BY DEF Ranked
  <1>3. a \in [matching -> Int] /\ b \in [matching -> Int] /\ c \in [matching -> Int]
    BY <1>1
  <1>4. \A x, y \in matching : <<x, y>> \in R <=>
          \/ a[x] < a[y]
          \/ a[x] = a[y] /\ (b[x] < b[y] \/ (b[x] = b[y] /\ c[x] < c[y]))
    <2> HIDE DEF hits
    <2> QED  BY <1>1 DEF Before
  <1> HIDE DEF a, b, c, R, matching
  <1>5. Orders(R, matching)
    BY <1>3, <1>4, ByNumbers
  <1> QED  BY <1>2, <1>5 DEF matching, Hitting

LEMMA BestRankIs ==
  ASSUME NEW lists, lists # {}, \A l \in lists : \E X : l \in Seq(X), NEW x
  PROVE  BestRank(lists, x) \in Nat
  <1> DEFINE ranks == {RankIn(l, x) : l \in lists}
  <1>1. ASSUME NEW l \in lists PROVE RankIn(l, x) \in Nat
    <2>1. PICK X : l \in Seq(X)
      OBVIOUS
    <2>2. CASE x \in ToSet(l)
      <3>1. \E k \in DOMAIN l : l[k] = x
        BY <2>2 DEF ToSet
      <3>2. RankIn(l, x) \in DOMAIN l
        BY <2>2, <3>1 DEF RankIn
      <3> QED  BY <2>1, <3>2
    <2>3. CASE x \notin ToSet(l)
      BY <2>3, LimitsAreValidated DEF RankIn
    <2> QED  BY <2>2, <2>3
  <1>2. ranks \in SUBSET Nat /\ ranks # {}
    BY <1>1
  <1>3. \E k \in ranks : \A y \in ranks : k <= y
    BY <1>2, LeastNumber
  <1>4. BestRank(lists, x) \in ranks
    BY <1>3 DEF BestRank
  <1> QED  BY <1>2, <1>4

(* The order of merge_graph_seeds, and that of the answer.                 *)
LEMMA MergedOrder ==
  ASSUME NEW S, NEW table, NEW lists, lists # {}, \A l \in lists : \E X : l \in Seq(X),
         \A x \in S : table[x].at \in Int /\ table[x].id \in Int
  PROVE  /\ Orders({x \in S \X S :
                      \/ BestRank(lists, x[1]) < BestRank(lists, x[2])
                      \/ /\ BestRank(lists, x[1]) = BestRank(lists, x[2])
                         /\ table[x[1]].id < table[x[2]].id}, S)
         /\ Orders({x \in S \X S :
                      \/ BestRank(lists, x[1]) < BestRank(lists, x[2])
                      \/ /\ BestRank(lists, x[1]) = BestRank(lists, x[2])
                         /\ Before(table[x[1]], table[x[2]])}, S)
         /\ Orders({x \in S \X S : BestRank(lists, x[1]) < BestRank(lists, x[2])}, S)
  <1> DEFINE rank(x) == BestRank(lists, x)
             at(x) == table[x].at
             id(x) == table[x].id
  <1>1. \A x \in S : rank(x) \in Int /\ at(x) \in Int /\ id(x) \in Int
    BY BestRankIs
  <1>2. \A x, y \in S : Before(table[x], table[y]) <=> at(x) < at(y) \/ (at(x) = at(y) /\ id(x) < id(y))
    BY DEF Before
  <1>3. \A x, y \in S : table[x].id < table[y].id <=> id(x) < id(y)
    OBVIOUS
  <1> HIDE DEF rank, at, id
  <1> DEFINE byId(x, y) == rank(x) < rank(y) \/ (rank(x) = rank(y) /\ table[x].id < table[y].id)
             byTime(x, y) == rank(x) < rank(y) \/ (rank(x) = rank(y) /\ Before(table[x], table[y]))
             byRank(x, y) == rank(x) < rank(y)
  <1>4. ASSUME NEW x \in S, NEW y \in S, NEW z \in S
        PROVE  /\ byId(x, y) => ~byId(y, x)
               /\ byId(x, z) => byId(x, y) \/ byId(y, z)
    BY <1>1, <1>3
  <1>5. ASSUME NEW x \in S, NEW y \in S, NEW z \in S
        PROVE  /\ byTime(x, y) => ~byTime(y, x)
               /\ byTime(x, z) => byTime(x, y) \/ byTime(y, z)
    BY <1>1, <1>2
  <1>6. ASSUME NEW x \in S, NEW y \in S, NEW z \in S
        PROVE  /\ byRank(x, y) => ~byRank(y, x)
               /\ byRank(x, z) => byRank(x, y) \/ byRank(y, z)
    BY <1>1
  <1> HIDE DEF byId, byTime, byRank
  <1>7. /\ Orders({x \in S \X S : byId(x[1], x[2])}, S)
        /\ Orders({x \in S \X S : byTime(x[1], x[2])}, S)
        /\ Orders({x \in S \X S : byRank(x[1], x[2])}, S)
    BY <1>4, <1>5, <1>6 DEF Orders
  <1> QED  BY <1>7 DEF byId, byTime, byRank, rank

(* The first few of a set: nothing else, all if they fit, some if there are any. *)
Takes(s, S, n) ==
  /\ ToSet(s) \subseteq S
  /\ Cardinality(S) <= n => ToSet(s) = S
  /\ S # {} => ToSet(s) # {}

LEMMA FirstInOrder ==
  ASSUME GInv, NEW S \in SUBSET DOMAIN facts, NEW n \in Nat \ {0}
  PROVE  /\ FirstFew(InOrder(facts, S), n) \in Seq(DOMAIN facts)
         /\ Takes(FirstFew(InOrder(facts, S), n), S, n)
  <1> DEFINE R == {x \in S \X S : Before(facts[x[1]], facts[x[2]])}
  <1>1. S \in SUBSET (1 .. Len(facts)) /\ Len(facts) \in Nat
    BY RowsFit
  <1>2. S \in SUBSET Nat /\ IsFiniteSet(S)
    BY <1>1, SomeAreFinite
  <1>3. \A x \in S : facts[x].at \in Int /\ facts[x].id \in Int
    BY RowsFit
  <1>4. Orders(R, S)
    BY <1>3, RowsOrdered
  <1>5. InOrder(facts, S) = Sorted(S, R)
    BY DEF InOrder
  <1> HIDE DEF R
  <1> DEFINE t == FirstFew(Sorted(S, R), n)
  <1>6. /\ t \in Seq(S) /\ ToSet(t) \subseteq S
        /\ Cardinality(S) <= n => ToSet(t) = S
        /\ n > 0 /\ S # {} => ToSet(t) # {}
    BY <1>2, <1>4, TopOf
  <1> HIDE DEF t
  <1>7. t \in Seq(DOMAIN facts)
    BY <1>6
  <1>8. Takes(t, S, n)
    BY <1>6 DEF Takes
  <1> QED  BY <1>5, <1>7, <1>8 DEF t

(* collect_fact_text_seeds and collect_record_evidence_fact_seeds.         *)
ByText(S, terms) == {f \in FactsAbout(S) : Hits(facts[f].text, terms) > 0}

LEMMA TextSeedsAre ==
  ASSUME GInv, NEW S, NEW terms
  PROVE  /\ TextSeeds(S, terms) \in Seq(DOMAIN facts)
         /\ Takes(TextSeeds(S, terms), ByText(S, terms), SeedLimit)
  <1> DEFINE M == ByText(S, terms)
             about == FactsAbout(S)
  <1>1. about \subseteq DOMAIN facts
    BY DEF FactsAbout
  <1>2. \A x \in about : /\ facts[x].at \in Int /\ facts[x].id \in Int /\ IsSequence(Texts[x])
                         /\ Texts[x] = facts[x].text
    BY <1>1, RowsFit DEF Texts
  <1>3. M = {k \in about : Hits(Texts[k], terms) > 0}
    BY <1>2 DEF ByText
  <1>4. M \in SUBSET (1 .. Len(facts)) /\ Len(facts) \in Nat
    BY <1>1, <1>3, RowsFit
  <1>5. M \in SUBSET Nat /\ IsFiniteSet(M)
    BY <1>4, SomeAreFinite
  <1>6. PICK R : Orders(R, M) /\ Ranked(facts, Texts, about, terms) = Sorted(M, R)
    <2> HIDE DEF about, M
    <2>1. M = Hitting(about, Texts, terms)
      BY <1>3 DEF Hitting
    <2>2. \A x \in about : facts[x].at \in Int /\ facts[x].id \in Int /\ IsSequence(Texts[x])
      BY <1>2
    <2>3. \E R : /\ Orders(R, Hitting(about, Texts, terms))
                 /\ Ranked(facts, Texts, about, terms) = Sorted(Hitting(about, Texts, terms), R)
      BY <2>2, RankedIs
    <2> QED  BY <2>1, <2>3
  <1> HIDE DEF M
  <1>7. SeedLimit \in Nat /\ SeedLimit > 0
    BY LimitsAreValidated
  <1> DEFINE t == FirstFew(Sorted(M, R), SeedLimit)
  <1>8. /\ t \in Seq(M) /\ ToSet(t) \subseteq M
        /\ Cardinality(M) <= SeedLimit => ToSet(t) = M
        /\ SeedLimit > 0 /\ M # {} => ToSet(t) # {}
    BY <1>5, <1>6, <1>7, TopOf
  <1>9. TextSeeds(S, terms) = t
    BY <1>6 DEF TextSeeds
  <1> HIDE DEF t
  <1>10. t \in Seq(DOMAIN facts)
    <2>1. M \subseteq DOMAIN facts
      BY <1>4, RowsFit
    <2> QED  BY <1>8, <2>1
  <1>11. Takes(t, M, SeedLimit)
    BY <1>7, <1>8 DEF Takes
  <1> QED  BY <1>9, <1>10, <1>11 DEF M

LEMMA EvidenceSeedsAre ==
  ASSUME GInv, NEW S, NEW terms
  PROVE  /\ EvidenceSeeds(S, terms) \in Seq(DOMAIN facts)
         /\ Takes(EvidenceSeeds(S, terms), ByEvidence(S, terms), SeedLimit)
  <1>1. ByEvidence(S, terms) \in SUBSET DOMAIN facts
    BY DEF ByEvidence, FactsAbout
  <1>2. SeedLimit \in Nat \ {0}
    BY LimitsAreValidated
  <1> QED  BY <1>1, <1>2, FirstInOrder DEF EvidenceSeeds

LEMMA ListsAre ==
  ASSUME GInv, NEW p
  PROVE  /\ EachTarget(p) # {} /\ UNION {FactsAbout(S) : S \in EachTarget(p)} = FactsAbout(p.targets)
         /\ FactLists(p) # {}
         /\ \A l \in FactLists(p) : l \in Seq(DOMAIN facts)
  <1>1. EachTarget(p) # {} /\ UNION {FactsAbout(S) : S \in EachTarget(p)} = FactsAbout(p.targets)
    <2>1. CASE p.targets = {}
      BY <2>1 DEF EachTarget, FactsAbout
    <2>2. CASE p.targets # {}
      <3>1. EachTarget(p) = {{e} : e \in p.targets}
        BY <2>2 DEF EachTarget
      <3>2. \A f : f \in FactsAbout(p.targets) <=> \E e \in p.targets : f \in FactsAbout({e})
        BY <2>2 DEF FactsAbout
      <3>3. \A f : f \in UNION {FactsAbout(S) : S \in EachTarget(p)} <=>
                     \E e \in p.targets : f \in FactsAbout({e})
        BY <3>1, Zenon
      <3>4. EachTarget(p) # {}
        BY <2>2, <3>1
      <3> HIDE DEF FactsAbout
      <3> QED  BY <3>2, <3>3, <3>4, Zenon
    <2> QED  BY <2>1, <2>2
  <1>2. FactLists(p) # {}
    BY <1>1 DEF FactLists
  <1>3. \A l \in FactLists(p) : l \in Seq(DOMAIN facts)
    BY TextSeedsAre, EvidenceSeedsAre DEF FactLists
  <1> QED  BY <1>1, <1>2, <1>3

(* The facts about the target that match.                                  *)
MatchingFacts(p) == {f \in FactsAbout(p.targets) : Matches(p, f)}

LEMMA SeedsMatch ==
  ASSUME GInv, NEW p
  PROVE  LET seeds == UNION {ToSet(l) : l \in FactLists(p)}
         IN  /\ seeds \subseteq MatchingFacts(p)
             /\ MatchingFacts(p) # {} => seeds # {}
             /\ Cardinality(MatchingFacts(p)) <= SeedLimit => seeds = MatchingFacts(p)
  <1> DEFINE seeds == UNION {ToSet(l) : l \in FactLists(p)}
             M == MatchingFacts(p)
  <1>1. \A f : f \in M <=>
          \E S \in EachTarget(p) : f \in ByText(S, p.relation) \/ f \in ByEvidence(S, p.relation)
    <2>1. \A f : f \in FactsAbout(p.targets) <=> \E S \in EachTarget(p) : f \in FactsAbout(S)
      BY ListsAre
    <2> QED  BY <2>1 DEF MatchingFacts, Matches, ByText, ByEvidence
  <1>2. \A f : f \in seeds <=>
          \E S \in EachTarget(p) : \/ f \in ToSet(TextSeeds(S, p.relation))
                                   \/ f \in ToSet(EvidenceSeeds(S, p.relation))
    BY DEF FactLists
  <1>3. \A S : /\ Takes(TextSeeds(S, p.relation), ByText(S, p.relation), SeedLimit)
               /\ Takes(EvidenceSeeds(S, p.relation), ByEvidence(S, p.relation), SeedLimit)
    BY TextSeedsAre, EvidenceSeedsAre
  <1>4. seeds \subseteq M
    BY <1>1, <1>2, <1>3 DEF Takes
  <1>5. ASSUME M # {} PROVE seeds # {}
    <2>1. PICK S \in EachTarget(p) : ByText(S, p.relation) # {} \/ ByEvidence(S, p.relation) # {}
      BY <1>1, <1>5
    <2>2. ToSet(TextSeeds(S, p.relation)) # {} \/ ToSet(EvidenceSeeds(S, p.relation)) # {}
      BY <1>3, <2>1 DEF Takes
    <2> QED  BY <1>2, <2>2
  <1>6. ASSUME Cardinality(M) <= SeedLimit PROVE seeds = M
    <2>1. M \in SUBSET (1 .. Len(facts)) /\ Len(facts) \in Nat
      BY RowsFit DEF MatchingFacts, FactsAbout
    <2>2. IsFiniteSet(M)
      BY <2>1, SomeAreFinite
    <2>3. \A X \in SUBSET M : Cardinality(X) <= SeedLimit
      BY <1>6, <2>2, FS_Subset, FS_CardinalityType, LimitsAreValidated
    <2>4. \A S \in EachTarget(p) : ByText(S, p.relation) \subseteq M /\ ByEvidence(S, p.relation) \subseteq M
      BY <1>1
    <2>5. ASSUME NEW S \in EachTarget(p)
          PROVE  /\ ToSet(TextSeeds(S, p.relation)) = ByText(S, p.relation)
                 /\ ToSet(EvidenceSeeds(S, p.relation)) = ByEvidence(S, p.relation)
      BY <1>3, <2>3, <2>4 DEF Takes
    <2> QED  BY <1>1, <1>2, <2>5
  <1> QED  BY <1>4, <1>5, <1>6

(* merge_graph_seeds keeps the seeds there are, the answer all of those.   *)
LEMMA MergedAre ==
  ASSUME GInv, NEW p, NEW S \in SUBSET DOMAIN facts, NEW n \in Nat \ {0}
  PROVE  /\ FirstFew(BestFirst(FactLists(p), S), n) \in Seq(DOMAIN facts)
         /\ Takes(FirstFew(BestFirst(FactLists(p), S), n), S, n)
  <1> DEFINE lists == FactLists(p)
             R == {x \in S \X S :
                     \/ BestRank(lists, x[1]) < BestRank(lists, x[2])
                     \/ /\ BestRank(lists, x[1]) = BestRank(lists, x[2])
                        /\ Before(facts[x[1]], facts[x[2]])}
             t == FirstFew(Sorted(S, R), n)
  <1>1. S \in SUBSET Nat /\ IsFiniteSet(S)
    <2>1. Len(facts) \in Nat /\ S \in SUBSET (1 .. Len(facts))
      BY RowsFit
    <2> QED  BY <2>1, SomeAreFinite
  <1>2. \A x \in S : facts[x].at \in Int /\ facts[x].id \in Int
    BY RowsFit
  <1>3. lists # {} /\ \A l \in lists : \E X : l \in Seq(X)
    BY ListsAre
  <1>4. Orders(R, S)
    BY <1>2, <1>3, MergedOrder
  <1>5. BestFirst(lists, S) = Sorted(S, R)
    BY DEF BestFirst
  <1> HIDE DEF R, lists
  <1>6. /\ t \in Seq(S) /\ ToSet(t) \subseteq S
        /\ Cardinality(S) <= n => ToSet(t) = S
        /\ n > 0 /\ S # {} => ToSet(t) # {}
    BY <1>1, <1>4, TopOf
  <1> HIDE DEF t
  <1>7. t \in Seq(DOMAIN facts) /\ Takes(t, S, n)
    BY <1>6 DEF Takes
  <1> QED  BY <1>5, <1>7 DEF t, lists

LEMMA SeedsAre ==
  ASSUME GInv, NEW p
  PROVE  LET lists == FactLists(p)
             seeds == UNION {ToSet(l) : l \in lists}
         IN  /\ MergeSeeds(facts, lists) \in Seq(DOMAIN facts)
             /\ Takes(MergeSeeds(facts, lists), seeds, SeedLimit)
  <1> DEFINE lists == FactLists(p)
             seeds == UNION {ToSet(l) : l \in lists}
             R == {x \in seeds \X seeds :
                     \/ BestRank(lists, x[1]) < BestRank(lists, x[2])
                     \/ /\ BestRank(lists, x[1]) = BestRank(lists, x[2])
                        /\ facts[x[1]].id < facts[x[2]].id}
             t == FirstFew(Sorted(seeds, R), SeedLimit)
  <1>1. lists # {} /\ (\A l \in lists : l \in Seq(DOMAIN facts)) /\ seeds \subseteq DOMAIN facts
    BY ListsAre DEF ToSet
  <1>2. seeds \in SUBSET Nat /\ IsFiniteSet(seeds)
    <2> HIDE DEF seeds
    <2>1. Len(facts) \in Nat /\ seeds \in SUBSET (1 .. Len(facts))
      BY <1>1, RowsFit
    <2> QED  BY <2>1, SomeAreFinite
  <1>3. \A x \in seeds : facts[x].at \in Int /\ facts[x].id \in Int
    BY <1>1, RowsFit
  <1>4. MergeSeeds(facts, lists) = t
    BY DEF MergeSeeds
  <1>5. \A l \in lists : \E X : l \in Seq(X)
    BY <1>1
  <1> HIDE DEF seeds
  <1>6. Orders(R, seeds)
    BY <1>1, <1>3, <1>5, MergedOrder
  <1> HIDE DEF R, lists
  <1>7. SeedLimit \in Nat /\ SeedLimit > 0
    BY LimitsAreValidated
  <1>8. /\ t \in Seq(seeds) /\ ToSet(t) \subseteq seeds
        /\ Cardinality(seeds) <= SeedLimit => ToSet(t) = seeds
        /\ SeedLimit > 0 /\ seeds # {} => ToSet(t) # {}
    BY <1>2, <1>6, <1>7, TopOf
  <1> HIDE DEF t
  <1>9. t \in Seq(DOMAIN facts) /\ Takes(t, seeds, SeedLimit)
    BY <1>1, <1>7, <1>8 DEF Takes
  <1> QED  BY <1>4, <1>9 DEF lists, seeds

LEMMA MatchesFound == 
  ASSUME GInv, NEW p
  PROVE  FindsMatches(MatchingFacts(p), ToSet(ExpandSeeds(p)))
  <1> DEFINE lists == FactLists(p)
             seeds == UNION {ToSet(l) : l \in lists}
             merged == MergeSeeds(facts, lists)
             M == MatchingFacts(p)
  <1> SUFFICES ASSUME M # {}
               PROVE  /\ ToSet(ExpandSeeds(p)) \subseteq M
                      /\ Cardinality(M) <= TopK /\ Cardinality(M) <= SeedLimit
                           => M \subseteq ToSet(ExpandSeeds(p))
    BY DEF FindsMatches
  <1>1. seeds \subseteq M /\ seeds # {} /\ (Cardinality(M) <= SeedLimit => seeds = M)
    BY SeedsMatch
  <1>2. merged \in Seq(DOMAIN facts) /\ Takes(merged, seeds, SeedLimit)
    BY SeedsAre
  <1> HIDE DEF seeds, merged, M
  <1>3. ToSet(merged) # {} /\ ToSet(merged) \subseteq seeds /\ ToSet(merged) \subseteq DOMAIN facts
    BY <1>1, <1>2 DEF Takes, ToSet
  <1>4. merged # <<>>
    BY <1>2, <1>3 DEF ToSet
  <1>5. TopK \in Nat \ {0}
    BY LimitsAreValidated
  <1>6. ExpandSeeds(p) = FirstFew(BestFirst(lists, ToSet(merged)), TopK)
    BY <1>4 DEF ExpandSeeds, merged
  <1>7. Takes(ExpandSeeds(p), ToSet(merged), TopK)
    BY <1>3, <1>5, <1>6, MergedAre
  <1>8. ToSet(ExpandSeeds(p)) \subseteq M
    BY <1>1, <1>3, <1>7 DEF Takes
  <1>9. ASSUME Cardinality(M) <= TopK, Cardinality(M) <= SeedLimit
        PROVE  ToSet(ExpandSeeds(p)) = M
    <2>1. seeds = M
      BY <1>1, <1>9
    <2>2. ToSet(merged) = M
      BY <1>2, <1>9, <2>1 DEF Takes
    <2> QED  BY <1>7, <1>9, <2>2 DEF Takes
  <1> QED  BY <1>8, <1>9

LEMMA MatchesFromInv == GInv => MatchesAreFound
  BY MatchesFound DEF MatchesAreFound, MatchingFacts

(* Whatever was published and is asked: when facts match a query           *)
(* themselves, it gets nothing but such facts, and all of them when they   *)
(* fit its limits (collect_graph_seeds, merge_graph_seeds,                 *)
(* expand_seed_facts).                                                     *)
THEOREM MatchesAreNotLost == Spec => []MatchesAreFound
  BY MatchesFromInv, GraphInvariance, PTL

(* expand_seed_facts tells nothing but facts about the targets.            *)
LEMMA ExpandedAre ==
  ASSUME GInv, NEW p
  PROVE  /\ ExpandSeeds(p) \in Seq(DOMAIN facts)
         /\ ToSet(ExpandSeeds(p)) \subseteq FactsAbout(p.targets)
  <1> DEFINE lists == FactLists(p)
             merged == MergeSeeds(facts, lists)
             around == Surroundings(p, merged)
  <1>1. merged \in Seq(DOMAIN facts) /\ ToSet(merged) \subseteq UNION {ToSet(l) : l \in lists}
    BY SeedsAre DEF Takes
  <1>2. ToSet(merged) \subseteq MatchingFacts(p)
    BY <1>1, SeedsMatch
  <1>3. TopK \in Nat \ {0}
    BY LimitsAreValidated
  <1>4. FactsAbout(p.targets) \subseteq DOMAIN facts
    BY DEF FactsAbout
  <1>5. ASSUME merged # <<>>
        PROVE  /\ ExpandSeeds(p) \in Seq(DOMAIN facts)
               /\ ToSet(ExpandSeeds(p)) \subseteq FactsAbout(p.targets)
    <2>1. ExpandSeeds(p) = FirstFew(BestFirst(lists, ToSet(merged)), TopK)
      BY <1>5 DEF ExpandSeeds
    <2>2. ToSet(merged) \subseteq FactsAbout(p.targets)
      BY <1>2 DEF MatchingFacts
    <2> HIDE DEF merged
    <2>3. /\ FirstFew(BestFirst(lists, ToSet(merged)), TopK) \in Seq(DOMAIN facts)
          /\ Takes(FirstFew(BestFirst(lists, ToSet(merged)), TopK), ToSet(merged), TopK)
      BY <1>3, <1>4, <2>2, MergedAre
    <2> QED  BY <2>1, <2>2, <2>3 DEF Takes
  <1>6. ASSUME NEW e PROVE Around(p, e) \subseteq FactsAbout(p.targets)
    <2>1. ASSUME NEW S \in EachTarget(p), NEW f,
                 f \in ToSet(FirstFew(InOrder(facts, {g \in FactsAbout(S) :
                               e \in {facts[g].subject, facts[g].object}}), TopK))
          PROVE  f \in FactsAbout(p.targets)
      <3> DEFINE X == {g \in FactsAbout(S) : e \in {facts[g].subject, facts[g].object}}
      <3>1. X \in SUBSET DOMAIN facts
        BY DEF FactsAbout
      <3>2. X \subseteq FactsAbout(S)
        OBVIOUS
      <3>3. f \in ToSet(FirstFew(InOrder(facts, X), TopK))
        BY <2>1
      <3> HIDE DEF X
      <3>4. f \in X
        BY <1>3, <3>1, <3>3, FirstInOrder DEF Takes
      <3>5. f \in UNION {FactsAbout(T) : T \in EachTarget(p)}
        BY <3>2, <3>4
      <3> QED  BY <3>5, ListsAre
    <2> QED  BY <2>1 DEF Around
  <1>7. around \subseteq FactsAbout(p.targets)
    BY <1>6 DEF Surroundings
  <1>8. ASSUME merged = <<>>
        PROVE  /\ ExpandSeeds(p) \in Seq(DOMAIN facts)
               /\ ToSet(ExpandSeeds(p)) \subseteq FactsAbout(p.targets)
    <2>1. ExpandSeeds(p) = FirstFew(InOrder(facts, around), TopK)
      BY <1>8 DEF ExpandSeeds
    <2> HIDE DEF around
    <2>2. /\ FirstFew(InOrder(facts, around), TopK) \in Seq(DOMAIN facts)
          /\ Takes(FirstFew(InOrder(facts, around), TopK), around, TopK)
      BY <1>3, <1>4, <1>7, FirstInOrder
    <2> QED  BY <1>7, <2>1, <2>2 DEF Takes
  <1> QED  BY <1>5, <1>8

(* load_evidence_records_for_fact: the speakers are the right ones.        *)
LEMMA EvidenceSpoken ==
  ASSUME GInv, NEW p, NEW f
  PROVE  \A r \in ToSet(EvidenceOf(p, f)) : SpokenBy(r, SpeakersOf(p, f))
  <1> DEFINE S == {k \in DOMAIN published :
                     <<f, published[k]>> \in evidence /\ SpokenBy(published[k], SpeakersOf(p, f))}
             few == FirstFew(Sorted(S, {}), EvidenceLimit)
  <1>1. \A k \in S : SpokenBy(published[k], SpeakersOf(p, f))
    OBVIOUS
  <1>2. Len(published) \in Nat /\ S \in SUBSET (1 .. Len(published))
    BY RowsFit
  <1>3. EvidenceOf(p, f) = [k \in DOMAIN few |-> published[few[k]]]
    BY DEF EvidenceOf
  <1> HIDE DEF S
  <1>4. S \in SUBSET Nat /\ IsFiniteSet(S)
    BY <1>2, SomeAreFinite
  <1>5. EvidenceLimit \in Nat
    BY LimitsAreValidated
  <1>6. few \in Seq(S)
    BY <1>4, <1>5, ByNothing, TopOf
  <1> HIDE DEF few
  <1>7. \A k \in DOMAIN few : few[k] \in S
    BY <1>6
  <1> QED  BY <1>1, <1>3, <1>7 DEF ToSet

(* load_direct_evidence_record_context_units: the records of one speaker.  *)
Speaking(S) == {k \in DOMAIN published : SpokenBy(published[k], S)}

LEMMA RecordsSpoken ==
  ASSUME GInv, NEW S, NEW terms
  PROVE  RecordsOf(S, terms) \in Seq(Speaking(S))
  <1> DEFINE hits(k) == Hits(published[k].words, terms)
             M == {k \in DOMAIN published : hits(k) > 0 /\ SpokenBy(published[k], S)}
             R == {x \in M \X M : hits(x[1]) > hits(x[2])}
             s == FirstFew(Sorted(M, R), SeedLimit)
  <1>1. M \subseteq Speaking(S)
    BY DEF Speaking
  <1>2. Len(published) \in Nat /\ M \in SUBSET (1 .. Len(published))
    BY RowsFit
  <1>3. M \in SUBSET Nat /\ IsFiniteSet(M)
    <2> HIDE DEF M
    <2> QED  BY <1>2, SomeAreFinite
  <1>4. \A k \in M : hits(k) \in Nat
    BY RowsFit, HitsCount
  <1>5. RecordsOf(S, terms) = FirstFew(s, TopK)
    BY DEF RecordsOf
  <1> HIDE DEF hits, M
  <1>6. Orders(R, M)
    BY <1>4 DEF Orders
  <1> HIDE DEF R
  <1>7. SeedLimit \in Nat /\ TopK \in Nat
    BY LimitsAreValidated
  <1>8. s \in Seq(M)
    BY <1>3, <1>6, <1>7, TopOf
  <1> HIDE DEF s
  <1>9. FirstFew(s, TopK) \in Seq(M)
    BY <1>7, <1>8, FewOf
  <1> QED  BY <1>1, <1>5, <1>9

LEMMA BestAreOf ==
  ASSUME GInv, NEW X \in SUBSET DOMAIN published, NEW lists, lists # {},
         \A l \in lists : l \in Seq(X)
  PROVE  \A r \in ToSet(BestRecords(lists)) : \E k \in X : r = published[k]
  <1> DEFINE found == UNION {ToSet(l) : l \in lists}
             R == {x \in found \X found : BestRank(lists, x[1]) < BestRank(lists, x[2])}
             few == FirstFew(Sorted(found, R), TopK)
  <1>1. found \subseteq X
    BY DEF ToSet
  <1>2. BestRecords(lists) = [k \in DOMAIN few |-> published[few[k]]]
    BY DEF BestRecords
  <1> HIDE DEF found
  <1>3. Len(published) \in Nat /\ found \in SUBSET (1 .. Len(published))
    BY <1>1, RowsFit
  <1>4. found \in SUBSET Nat /\ IsFiniteSet(found)
    BY <1>3, SomeAreFinite
  <1>5. \A l \in lists : \E Y : l \in Seq(Y)
    OBVIOUS
  <1>6. Orders(R, found)
    <2>1. \A x \in found : BestRank(lists, x) \in Nat
      BY <1>5, BestRankIs
    <2> QED  BY <2>1 DEF Orders
  <1> HIDE DEF R
  <1>7. TopK \in Nat
    BY LimitsAreValidated
  <1>8. few \in Seq(found)
    BY <1>4, <1>6, <1>7, TopOf
  <1> HIDE DEF few
  <1>9. \A k \in DOMAIN few : few[k] \in X
    BY <1>1, <1>8
  <1> QED  BY <1>2, <1>9 DEF ToSet

LEMMA DirectSpoken ==
  ASSUME GInv, NEW p
  PROVE  \A r \in ToSet(DirectRecords(p)) :
           /\ p.asked # {} => SpokenBy(r, p.asked)
           /\ p.asked = {} /\ p.named # {} => SpokenBy(r, p.named)
  <1> DEFINE terms == IF p.relation # {} THEN p.relation ELSE p.entity
  <1>1. ASSUME p.asked # {}
        PROVE  \A r \in ToSet(DirectRecords(p)) : SpokenBy(r, p.asked)
    <2>1. DirectRecords(p) = BestRecords({RecordsOf(p.asked, terms)})
      BY <1>1 DEF DirectRecords
    <2>2. RecordsOf(p.asked, terms) \in Seq(Speaking(p.asked))
      BY RecordsSpoken
    <2>3. Speaking(p.asked) \in SUBSET DOMAIN published
      BY DEF Speaking
    <2>4. \A r \in ToSet(DirectRecords(p)) : \E k \in Speaking(p.asked) : r = published[k]
      BY <2>1, <2>2, <2>3, BestAreOf
    <2> QED  BY <2>4 DEF Speaking
  <1>2. ASSUME p.asked = {}, p.named # {}
        PROVE  \A r \in ToSet(DirectRecords(p)) : SpokenBy(r, p.named)
    <2> DEFINE lists == {RecordsOf(S, terms) : S \in {{e} : e \in p.named}}
    <2>1. DirectRecords(p) = BestRecords(lists)
      BY <1>2 DEF DirectRecords
    <2>2. ASSUME NEW e \in p.named PROVE RecordsOf({e}, terms) \in Seq(Speaking(p.named))
      <3>1. RecordsOf({e}, terms) \in Seq(Speaking({e}))
        BY RecordsSpoken
      <3>2. Speaking({e}) \subseteq Speaking(p.named)
        BY DEF Speaking, SpokenBy
      <3> HIDE DEF terms
      <3>3. \A s : s \in Seq(Speaking({e})) => s \in Seq(Speaking(p.named))
        BY <3>2
      <3> QED  BY <3>1, <3>3
    <2>3. \A l \in lists : l \in Seq(Speaking(p.named))
      BY <2>2
    <2>4. lists # {}
      BY <1>2
    <2>5. Speaking(p.named) \in SUBSET DOMAIN published
      BY DEF Speaking
    <2> HIDE DEF lists
    <2>6. \A r \in ToSet(DirectRecords(p)) : \E k \in Speaking(p.named) : r = published[k]
      BY <2>1, <2>3, <2>4, <2>5, BestAreOf
    <2> QED  BY <2>6 DEF Speaking
  <1> QED  BY <1>1, <1>2

LEMMA AnswerKeeps ==
  ASSUME GInv, NEW p \in Plans
  PROVE  KeepsTo(p, Retrieve(p))
  <1> DEFINE chosen == ExpandSeeds(p)
             answer == Retrieve(p)
  <1>1. p.named # {} => p.asked = {}
    <2>1. PICK q \in Queries : p = Plan(q)
      BY DEF Plans
    <2>2. q.speaker = <<>> => p.asked = {}
      BY <2>1 DEF Plan, ToSet
    <2>3. q.speaker # <<>> => p.named = {}
      BY <2>1 DEF Plan
    <2> QED  BY <2>2, <2>3
  <1>2. answer = [facts |-> [k \in DOMAIN chosen |->
                              [fact |-> chosen[k], records |-> EvidenceOf(p, chosen[k])]],
                  records |-> DirectRecords(p)]
    BY DEF Retrieve
  <1>3. ToSet(chosen) \subseteq FactsAbout(p.targets)
    BY ExpandedAre
  <1>4. ASSUME NEW found \in ToSet(answer.facts)
        PROVE  /\ found.fact \in FactsAbout(p.targets)
               /\ \A r \in ToSet(found.records) : SpokenBy(r, SpeakersOf(p, found.fact))
    <2> HIDE DEF chosen
    <2>1. PICK k \in DOMAIN chosen :
            found = [fact |-> chosen[k], records |-> EvidenceOf(p, chosen[k])]
      BY <1>2 DEF ToSet
    <2>2. chosen[k] \in FactsAbout(p.targets)
      BY <1>3 DEF ToSet
    <2> QED  BY <2>1, <2>2, EvidenceSpoken
  <1>5. answer.records = DirectRecords(p)
    BY <1>2
  <1> HIDE DEF answer, chosen
  <1>6. ASSUME NEW found \in ToSet(answer.facts)
        PROVE  /\ p.targets # {} => facts[found.fact].subject \in p.targets
               /\ Signal(found.fact)
               /\ facts[found.fact].subject \in p.named =>
                    \A r \in ToSet(found.records) : SpokenBy(r, {facts[found.fact].subject})
               /\ p.asked # {} => \A r \in ToSet(found.records) : SpokenBy(r, p.asked)
    <2>1. (p.targets # {} => facts[found.fact].subject \in p.targets) /\ Signal(found.fact)
      BY <1>4 DEF FactsAbout
    <2>2. ASSUME facts[found.fact].subject \in p.named
          PROVE  SpeakersOf(p, found.fact) = {facts[found.fact].subject}
      BY <1>1, <2>2 DEF SpeakersOf
    <2>3. p.asked # {} => SpeakersOf(p, found.fact) = p.asked
      BY DEF SpeakersOf
    <2> QED  BY <1>4, <2>1, <2>2, <2>3
  <1>7. p.asked # {} => \A r \in ToSet(answer.records) : SpokenBy(r, p.asked)
    BY <1>5, DirectSpoken
  <1>8. p.named # {} => \A r \in ToSet(answer.records) : SpokenBy(r, p.named)
    BY <1>1, <1>5, DirectSpoken
  <1>9. p.asked # {} => \A r \in Told(answer) : SpokenBy(r, p.asked)
    <2>1. ASSUME NEW r \in Told(answer), p.asked # {}
          PROVE  SpokenBy(r, p.asked)
      <3> DEFINE A == UNION {ToSet(found.records) : found \in ToSet(answer.facts)}
                 B == ToSet(answer.records)
      <3>1. Told(answer) = A \cup B
        BY DEF Told
      <3>2. ASSUME r \in A PROVE SpokenBy(r, p.asked)
        <4>1. PICK found \in ToSet(answer.facts) : r \in ToSet(found.records)
          BY <3>2
        <4> QED  BY <1>6, <2>1, <4>1
      <3>3. ASSUME r \in B PROVE SpokenBy(r, p.asked)
        BY <1>7, <2>1, <3>3
      <3> HIDE DEF A, B
      <3> QED  BY <2>1, <3>1, <3>2, <3>3
    <2> QED  BY <2>1
  <1> QED  BY <1>6, <1>8, <1>9 DEF KeepsTo, answer

(* The speakers resolve_query_source_actors looks at.                      *)
AllSpeakers == {e \in DOMAIN entities : Speaks(e)}
SeenIn(words) ==
  ToSet(FirstFew(Ranked(entities, Names, AllSpeakers, ToSet(words) \ StopWords), SeedLimit))

LEMMA SeenAre ==
  ASSUME GInv, NEW words
  PROVE  /\ SeenIn(words) \subseteq AllSpeakers /\ IsFiniteSet(SeenIn(words))
         /\ \A e \in SeenIn(words), d \in AllSpeakers :
              Names[d] = Names[e] /\ Cardinality(AllSpeakers) <= SeedLimit => d \in SeenIn(words)
  <1> DEFINE terms == ToSet(words) \ StopWords
             M == Hitting(AllSpeakers, Names, terms)
  <1>1. AllSpeakers \subseteq DOMAIN entities
    BY DEF AllSpeakers
  <1>2. \A x \in AllSpeakers : /\ entities[x].at \in Int /\ entities[x].id \in Int
                               /\ IsSequence(Names[x])
    BY <1>1, RowsFit DEF Names
  <1>3. PICK R : Orders(R, M) /\ Ranked(entities, Names, AllSpeakers, terms) = Sorted(M, R)
    BY <1>2, RankedIs
  <1>4. M \subseteq AllSpeakers
    BY DEF Hitting
  <1>5. Len(entities) \in Nat /\ AllSpeakers \in SUBSET (1 .. Len(entities))
    BY <1>1, RowsFit
  <1>6. IsFiniteSet(AllSpeakers) /\ AllSpeakers \in SUBSET Nat
    BY <1>5, SomeAreFinite
  <1>7. SeenIn(words) = ToSet(FirstFew(Sorted(M, R), SeedLimit))
    BY <1>3 DEF SeenIn
  <1>8. SeedLimit \in Nat
    BY LimitsAreValidated
  <1>9. \A e \in M, d \in AllSpeakers : Names[d] = Names[e] => d \in M
    BY DEF Hitting
  <1> HIDE DEF M
  <1>10. M \in SUBSET Nat /\ IsFiniteSet(M) /\ Cardinality(M) <= Cardinality(AllSpeakers)
    BY <1>4, <1>6, FS_Subset
  <1>11. /\ SeenIn(words) \subseteq M
         /\ Cardinality(M) <= SeedLimit => SeenIn(words) = M
    BY <1>3, <1>7, <1>8, <1>10, TopOf
  <1>12. Cardinality(M) \in Nat /\ Cardinality(AllSpeakers) \in Nat
    BY <1>6, <1>10, FS_CardinalityType
  <1>13. IsFiniteSet(SeenIn(words))
    BY <1>10, <1>11, FS_Subset
  <1>14. Cardinality(AllSpeakers) <= SeedLimit => SeenIn(words) = M
    BY <1>8, <1>10, <1>11, <1>12
  <1> QED  BY <1>4, <1>9, <1>11, <1>13, <1>14

(* The longest name at a place is one entity's.                            *)
LEMMA LongestIsOne ==
  ASSUME NEW S, IsFiniteSet(S)
  PROVE  /\ Longest(S) \subseteq S
         /\ \A x \in Longest(S), y \in S :
              (\A z \in S : NameLength(z) <= NameLength(y)) => y = x
  <1> DEFINE L == {e \in S : \A x \in S : NameLength(x) <= NameLength(e)}
  <1>1. Longest(S) = IF Cardinality(L) = 1 THEN L ELSE {}
    BY DEF Longest
  <1>2. L \in SUBSET S
    OBVIOUS
  <1>3. \A y \in S : (\A z \in S : NameLength(z) <= NameLength(y)) => y \in L
    OBVIOUS
  <1> HIDE DEF L
  <1>4. IsFiniteSet(L)
    BY <1>2, FS_Subset
  <1>5. Cardinality(L) = 1 => \E x : L = {x}
    BY <1>4, FS_Singleton
  <1>6. ASSUME NEW x \in Longest(S), NEW y \in S, \A z \in S : NameLength(z) <= NameLength(y)
        PROVE  y = x
    <2>1. x \in L /\ Cardinality(L) = 1
      BY <1>1
    <2>2. y \in L
      BY <1>3, <1>6
    <2> QED  BY <1>5, <2>1, <2>2
  <1> QED  BY <1>1, <1>2, <1>6

(* Where a name is in a query.                                             *)
LEMMA AtIs ==
  ASSUME NEW words, IsSequence(words), NEW tokens, IsSequence(tokens), At(words, tokens) # 0
  PROVE  /\ At(words, tokens) \in DOMAIN words
         /\ At(words, tokens) .. At(words, tokens) + Len(tokens) - 1 \subseteq DOMAIN words
  <1> DEFINE places == {p \in 1 .. Len(words) - Len(tokens) + 1 :
                          SubSeq(words, p, p + Len(tokens) - 1) = tokens}
             a == At(words, tokens)
  <1>1. Len(words) \in Nat /\ Len(tokens) \in Nat /\ DOMAIN words = 1 .. Len(words)
    BY DEF IsSequence
  <1>2. tokens # <<>> /\ places # {}
    BY DEF At
  <1>3. Len(tokens) > 0
    <2>1. tokens \in Seq(ToSet(tokens))
      BY DEF IsSequence
    <2> QED  BY <1>2, <2>1
  <1>4. a = CHOOSE p \in places : \A x \in places : p <= x
    BY <1>2 DEF At
  <1>5. places \in SUBSET Nat
    BY <1>1
  <1>6. \A p \in places : p \in 1 .. Len(words) - Len(tokens) + 1
    OBVIOUS
  <1> HIDE DEF places, a
  <1>7. a \in places
    BY <1>2, <1>4, <1>5, LeastNumber
  <1>8. a \in 1 .. Len(words) - Len(tokens) + 1
    BY <1>6, <1>7
  <1> QED  BY <1>1, <1>3, <1>8 DEF a

(* What is kept of some spans: what overlaps nothing kept before it.       *)
KeptOf(T, spans, cells) ==
  \A x \in spans : x \in T <=> \A y \in T : y[1] < x[1] => cells[x] \cap cells[y] = {}

(* Place by place, one finds what to keep.                                 *)
LEMMA KeptExists ==
  ASSUME NEW n \in Nat, NEW X, NEW spans \in SUBSET ((1 .. n) \X X), NEW cells
  PROVE  \E T \in SUBSET spans : KeptOf(T, spans, cells)
  <1> DEFINE Way(T, k) == /\ \A y \in T : y[1] <= k
                          /\ \A x \in spans : x[1] <= k =>
                               (x \in T <=> \A y \in T : y[1] < x[1] => cells[x] \cap cells[y] = {})
             Good == {k \in 0 .. n : \E T \in SUBSET spans : Way(T, k)}
  <1>1. \A x \in spans : x[1] \in 1 .. n
    OBVIOUS
  <1>2. 0 \in Good
    <2>1. Way({}, 0)
      BY <1>1
    <2> HIDE DEF Way
    <2>2. {} \in SUBSET spans /\ 0 \in 0 .. n
      OBVIOUS
    <2> QED  BY <2>1, <2>2
  <1>3. ASSUME NEW k \in 0 .. n - 1, k \in Good PROVE k + 1 \in Good
    <2>1. PICK T \in SUBSET spans : Way(T, k)
      BY <1>3
    <2> DEFINE N == {x \in spans : x[1] = k + 1 /\ \A y \in T : cells[x] \cap cells[y] = {}}
               U == T \cup N
    <2>2. U \in SUBSET spans
      OBVIOUS
    <2>3. \A y \in U : y[1] <= k + 1
      BY <1>1, <2>1
    <2>4. ASSUME NEW x \in spans, x[1] <= k
          PROVE  x \in U <=> \A y \in U : y[1] < x[1] => cells[x] \cap cells[y] = {}
      <3>1. x \in U <=> x \in T
        BY <1>1, <2>4
      <3>2. \A y \in U : y[1] < x[1] <=> y \in T /\ y[1] < x[1]
        BY <1>1, <2>4
      <3>3. x \in T <=> \A y \in T : y[1] < x[1] => cells[x] \cap cells[y] = {}
        BY <2>1, <2>4
      <3> QED  BY <3>1, <3>2, <3>3
    <2>5. ASSUME NEW x \in spans, x[1] = k + 1
          PROVE  x \in U <=> \A y \in U : y[1] < x[1] => cells[x] \cap cells[y] = {}
      <3>1. \A y \in T : y[1] < x[1]
        BY <1>1, <2>1, <2>5
      <3>2. \A y \in N : ~(y[1] < x[1])
        BY <1>1, <2>5
      <3>3. x \notin T
        BY <1>1, <2>1, <2>5
      <3>4. x \in U <=> \A y \in T : cells[x] \cap cells[y] = {}
        BY <2>5, <3>3
      <3> HIDE DEF N
      <3> QED  BY <3>1, <3>2, <3>4
    <2>6. \A x \in spans : x[1] <= k + 1 => x[1] <= k \/ x[1] = k + 1
      BY <1>1
    <2> HIDE DEF U
    <2>7. Way(U, k + 1)
      BY <2>3, <2>4, <2>5, <2>6
    <2> QED  BY <2>2, <2>7
  <1>4. \A k \in 0 .. n : k \in Good
    <2> HIDE DEF Good
    <2> QED  BY <1>2, <1>3, UpTo
  <1>5. PICK T \in SUBSET spans : Way(T, n)
    BY <1>4
  <1>6. \A x \in spans : x[1] <= n
    BY <1>1
  <1> QED  BY <1>5, <1>6 DEF KeptOf

(* A place in the query with the speaker it names.                         *)
NamedAt(words, x) ==
  /\ x[1] \in DOMAIN words /\ x[2] \in SeenIn(words)
  /\ At(words, Names[x[2]]) = x[1]
  /\ \A e \in SeenIn(words) : At(words, Names[e]) = x[1] /\ NameLength(e) = NameLength(x[2]) => e = x[2]
CellsOf(x) == x[1] .. x[1] + NameLength(x[2]) - 1

(* resolve_query_source_actors: the actors have places of their own.       *)
LEMMA ActorsAre ==
  ASSUME GInv, NEW words, IsSequence(words)
  PROVE  \E a : \A k \in DOMAIN QueryActors(words) :
           /\ NamedAt(words, a[k]) /\ a[k][2] = QueryActors(words)[k]
           /\ \A j \in DOMAIN QueryActors(words) : j # k => CellsOf(a[j]) \cap CellsOf(a[k]) = {}
  <1> DEFINE seen == SeenIn(words)
             at(p) == {e \in seen : At(words, Names[e]) = p}
             here(p) == Longest(at(p))
             spans == {x \in (DOMAIN words) \X seen : x[2] \in here(x[1])}
             Keeps(T) == \A x \in spans :
                           x \in T <=> \A y \in T : y[1] < x[1] => CellsOf(x) \cap CellsOf(y) = {}
             kept == CHOOSE T \in SUBSET spans : Keeps(T)
             starts == {x[1] : x \in kept}
             inOrder == Sorted(starts, {})
             of(p) == CHOOSE x \in kept : x[1] = p
             all == [k \in DOMAIN inOrder |-> of(inOrder[k])[2]]
  <1>1. QueryActors(words) = FirstFew(all, 8)
    BY DEF QueryActors, MAX_GRAPH_QUERY_ACTORS, SeenIn, AllSpeakers, CellsOf
  <1>2. Len(words) \in Nat /\ DOMAIN words = 1 .. Len(words)
    BY DEF IsSequence
  <1>3. IsFiniteSet(seen) /\ \A e \in seen : NameLength(e) \in Nat
    <2>1. seen \subseteq DOMAIN entities
      BY SeenAre DEF AllSpeakers
    <2>2. \A e \in seen : IsSequence(Names[e])
      BY <2>1, RowsFit DEF Names
    <2> QED  BY <2>2, SeenAre DEF NameLength, IsSequence
  <1> HIDE DEF seen
  <1>4. \A p : IsFiniteSet(at(p))
    BY <1>3, FS_Subset
  <1>5. ASSUME NEW x \in spans
        PROVE  /\ x = <<x[1], x[2]>> /\ x[1] \in DOMAIN words /\ NamedAt(words, x)
               /\ \A y \in spans : y[1] = x[1] => y = x
    <2>1. x = <<x[1], x[2]>> /\ x[1] \in DOMAIN words /\ x[2] \in seen /\ x[2] \in here(x[1])
      OBVIOUS
    <2>2. /\ Longest(at(x[1])) \subseteq at(x[1])
          /\ \A u \in Longest(at(x[1])), v \in at(x[1]) :
               (\A z \in at(x[1]) : NameLength(z) <= NameLength(v)) => v = u
      <3> HIDE DEF at
      <3> QED  BY <1>4, LongestIsOne
    <2>3. x[2] \in at(x[1])
      BY <2>1, <2>2
    <2>4. \A u \in here(x[1]), z \in at(x[1]) : NameLength(z) <= NameLength(u)
      BY DEF Longest
    <2>5. ASSUME NEW e \in seen, At(words, Names[e]) = x[1], NameLength(e) = NameLength(x[2])
          PROVE  e = x[2]
      <3>1. e \in at(x[1])
        BY <2>5
      <3> HIDE DEF at
      <3>2. \A z \in at(x[1]) : NameLength(z) <= NameLength(e)
        BY <2>1, <2>4, <2>5
      <3> QED  BY <2>1, <2>2, <3>1, <3>2
    <2>6. ASSUME NEW y \in spans, y[1] = x[1] PROVE y = x
      <3>1. y = <<y[1], y[2]>> /\ y[2] \in here(x[1])
        BY <2>6
      <3> HIDE DEF at
      <3>2. y[2] = x[2]
        BY <2>1, <2>2, <2>4, <3>1
      <3> QED  BY <2>1, <2>6, <3>1, <3>2
    <2> HIDE DEF spans, here
    <2> QED  BY <2>1, <2>3, <2>5, <2>6 DEF NamedAt, seen
  <1>6. spans \in SUBSET ((1 .. Len(words)) \X seen)
    BY <1>2
  <1> HIDE DEF spans, at
  <1>7. \E T \in SUBSET spans : Keeps(T)
    <2> DEFINE cells == [x \in spans |-> CellsOf(x)]
    <2>1. \A x \in spans : cells[x] = CellsOf(x)
      OBVIOUS
    <2> HIDE DEF cells
    <2> DEFINE n == Len(words)
    <2>5. n \in Nat /\ spans \in SUBSET ((1 .. n) \X seen)
      BY <1>2, <1>6
    <2> HIDE DEF n
    <2>2. PICK T \in SUBSET spans : KeptOf(T, spans, cells)
      BY <2>5, KeptExists
    <2>3. \A y \in T : y \in spans
      OBVIOUS
    <2>4. Keeps(T)
      BY <2>1, <2>2, <2>3 DEF KeptOf
    <2> HIDE DEF Keeps
    <2> QED  BY <2>4
  <1>8. kept \in SUBSET spans /\ Keeps(kept)
    <2> HIDE DEF Keeps
    <2> QED  BY <1>7
  <1> HIDE DEF kept
  <1>9. ASSUME NEW x \in kept, NEW y \in kept, x[1] # y[1]
        PROVE  CellsOf(x) \cap CellsOf(y) = {}
    <2>1. x \in spans /\ y \in spans /\ x[1] \in 1 .. Len(words) /\ y[1] \in 1 .. Len(words)
      BY <1>2, <1>5, <1>8
    <2>2. y[1] < x[1] => CellsOf(x) \cap CellsOf(y) = {}
      BY <1>8, <2>1
    <2>3. x[1] < y[1] => CellsOf(y) \cap CellsOf(x) = {}
      BY <1>8, <2>1
    <2>4. x[1] < y[1] \/ y[1] < x[1]
      BY <1>2, <1>9, <2>1
    <2> QED  BY <2>2, <2>3, <2>4
  <1>10. starts \in SUBSET (1 .. Len(words))
    BY <1>2, <1>5, <1>8
  <1>11. \A p \in starts : of(p) \in kept /\ of(p)[1] = p
    OBVIOUS
  <1> HIDE DEF starts, of
  <1>12. starts \in SUBSET Nat /\ IsFiniteSet(starts)
    BY <1>2, <1>10, SomeAreFinite
  <1>13. /\ Cardinality(starts) \in Nat
         /\ inOrder \in [1 .. Cardinality(starts) -> starts]
         /\ \A i, j \in 1 .. Cardinality(starts) : i < j => Precedes({}, inOrder[i], inOrder[j])
    BY <1>12, ByNothing, SortedIs
  <1> HIDE DEF inOrder
  <1>14. \A i, j \in DOMAIN inOrder : i # j => inOrder[i] # inOrder[j]
    <2>1. \A i \in DOMAIN inOrder : i \in Nat /\ inOrder[i] \in Nat
      <3>1. \A x \in starts : x \in Nat
        BY <1>12
      <3>2. DOMAIN inOrder = 1 .. Cardinality(starts) /\ \A i \in DOMAIN inOrder : inOrder[i] \in starts
        BY <1>13
      <3> QED  BY <1>13, <3>1, <3>2
    <2>2. \A x, y \in Nat : Precedes({}, x, y) => x # y
      BY DEF Precedes
    <2>3. \A i, j \in DOMAIN inOrder : i < j => inOrder[i] # inOrder[j]
      BY <1>13, <2>1, <2>2
    <2>4. \A i, j \in DOMAIN inOrder : i # j => i < j \/ j < i
      BY <2>1
    <2> QED  BY <2>3, <2>4
  <1>15. all \in Seq({of(p)[2] : p \in starts})
    BY <1>13
  <1>16. DOMAIN all = DOMAIN inOrder /\ \A k \in DOMAIN inOrder : all[k] = of(inOrder[k])[2]
    OBVIOUS
  <1> HIDE DEF all
  <1>17. DOMAIN FirstFew(all, 8) \subseteq DOMAIN inOrder
         /\ \A k \in DOMAIN FirstFew(all, 8) : FirstFew(all, 8)[k] = all[k]
    BY <1>15, <1>16, FewOf
  <1> DEFINE a == [k \in DOMAIN inOrder |-> of(inOrder[k])]
  <1>18. \A k \in DOMAIN inOrder : a[k] \in kept /\ a[k][1] = inOrder[k] /\ a[k][2] = all[k]
    BY <1>11, <1>13, <1>16
  <1> HIDE DEF a
  <1>19. ASSUME NEW k \in DOMAIN QueryActors(words)
         PROVE  /\ NamedAt(words, a[k]) /\ a[k][2] = QueryActors(words)[k]
                /\ \A j \in DOMAIN QueryActors(words) : j # k => CellsOf(a[j]) \cap CellsOf(a[k]) = {}
    <2>1. k \in DOMAIN inOrder /\ QueryActors(words)[k] = all[k]
      BY <1>1, <1>17
    <2>2. NamedAt(words, a[k])
      BY <1>5, <1>8, <1>18, <2>1
    <2>3. \A j \in DOMAIN QueryActors(words) : j \in DOMAIN inOrder
      BY <1>1, <1>17
    <2>4. \A j \in DOMAIN QueryActors(words) : j # k => CellsOf(a[j]) \cap CellsOf(a[k]) = {}
      BY <1>9, <1>14, <1>18, <2>1, <2>3
    <2> QED  BY <1>18, <2>1, <2>2, <2>4
  <1> QED  BY <1>19

LEMMA ActorsFromInv == GInv => ActorsApart
  <1> SUFFICES ASSUME GInv, NEW q \in Queries,
                      NEW k \in DOMAIN QueryActors(q.words)
               PROVE  LET actors == QueryActors(q.words)
                          place(e) == LET p == At(q.words, Norm(entities[e].name))
                                      IN  p .. p + Len(Norm(entities[e].name)) - 1
                      IN  /\ place(actors[k]) \subseteq DOMAIN q.words
                          /\ \A j \in DOMAIN actors : j # k => place(actors[j]) \cap place(actors[k]) = {}
                          /\ \A e \in DOMAIN entities :
                               /\ Speaks(e) /\ Norm(entities[e].name) = Norm(entities[actors[k]].name)
                               /\ Cardinality({d \in DOMAIN entities : Speaks(d)}) <= SeedLimit
                               => e = actors[k]
    BY DEF ActorsApart
  <1> DEFINE words == q.words
             actors == QueryActors(words)
             name(e) == Norm(entities[e].name)
             place(e) == At(words, name(e)) .. At(words, name(e)) + Len(name(e)) - 1
  <1>1. IsSequence(words)
    BY QueriesAreTexts
  <1>2. PICK a : \A i \in DOMAIN actors :
          /\ NamedAt(words, a[i]) /\ a[i][2] = actors[i]
          /\ \A j \in DOMAIN actors : j # i => CellsOf(a[j]) \cap CellsOf(a[i]) = {}
    BY <1>1, ActorsAre
  <1>3. \A e \in SeenIn(words) : e \in DOMAIN entities /\ Names[e] = name(e) /\ IsSequence(name(e))
    BY SeenAre, RowsFit DEF AllSpeakers, Names
  <1>4. ASSUME NEW i \in DOMAIN actors
        PROVE  actors[i] \in SeenIn(words) /\ place(actors[i]) = CellsOf(a[i]) /\ a[i][1] \in DOMAIN words
               /\ At(words, name(actors[i])) = a[i][1]
    BY <1>2, <1>3 DEF NamedAt, CellsOf, NameLength
  <1>5. place(actors[k]) \subseteq DOMAIN words
    <2>1. At(words, name(actors[k])) # 0
      <3>1. a[k][1] \in 1 .. Len(words) /\ Len(words) \in Nat
        BY <1>1, <1>4 DEF IsSequence
      <3> QED  BY <1>4, <3>1
    <2> QED  BY <1>1, <1>3, <1>4, <2>1, AtIs
  <1>6. \A j \in DOMAIN actors : j # k => place(actors[j]) \cap place(actors[k]) = {}
    BY <1>2, <1>4
  <1>7. ASSUME NEW e \in DOMAIN entities, Speaks(e), name(e) = name(actors[k]),
               Cardinality({d \in DOMAIN entities : Speaks(d)}) <= SeedLimit
        PROVE  e = actors[k]
    <2>1. e \in AllSpeakers /\ Cardinality(AllSpeakers) <= SeedLimit
      BY <1>7 DEF AllSpeakers
    <2>2. Names[e] = Names[actors[k]]
      BY <1>3, <1>4, <1>7 DEF Names
    <2>3. e \in SeenIn(words)
      BY <1>4, <2>1, <2>2, SeenAre
    <2> QED  BY <1>2, <1>4, <2>2, <2>3 DEF NamedAt, NameLength
  <1> QED  BY <1>5, <1>6, <1>7

LEMMA AnswersFromInv == GInv => AnswersKeepToTheTarget
  BY ActorsFromInv, AnswerKeeps DEF AnswersKeepToTheTarget

(* The speakers found in a query have places of their own in it and no     *)
(* other speaker's name (resolve_query_source_actors); what it gets is     *)
(* about its targets, and of the speaker asked for or of the target itself *)
(* when they ever spoke (retrieve_context, load_evidence_records_for_fact, *)
(* load_direct_evidence_record_context_units).                             *)
THEOREM AnswersKeep == Spec => []AnswersKeepToTheTarget
  BY AnswersFromInv, GraphInvariance, PTL
=============================================================================
