--------------------------- MODULE PipelineProofs ---------------------------
(***************************************************************************)
(* The properties of the stations of a spec (MCPipeline).                  *)
(***************************************************************************)
EXTENDS MCPipeline, FiniteSetTheorems, WellFoundedInduction, TLAPS

-----------------------------------------------------------------------------
(* Rankings: the members of a finite set by a score s, and by number among *)
(* those that score alike.                                                 *)

Outranks(s, h, g) == s[h] > s[g] \/ (s[h] = s[g] /\ h < g)
Above(s, S, g) == {h \in S : Outranks(s, h, g)}
Best(s, S, n) == {g \in S : Cardinality(Above(s, S, g)) < n}
Rankable(s, S) == IsFiniteSet(S) /\ \A g \in S : g \in Int /\ s[g] \in Int

LEMMA AboveFinite ==
    ASSUME NEW s, NEW S, Rankable(s, S), NEW g, NEW T \in SUBSET S
    PROVE  /\ IsFiniteSet(Above(s, T, g)) /\ Cardinality(Above(s, T, g)) \in Nat
           /\ Cardinality(Above(s, T, g)) <= Cardinality(Above(s, S, g))
<1>1. Above(s, T, g) \in SUBSET S /\ Above(s, S, g) \in SUBSET S
      /\ Above(s, T, g) \in SUBSET Above(s, S, g)
  BY DEF Above
<1>2. IsFiniteSet(Above(s, S, g)) /\ IsFiniteSet(Above(s, T, g))
  BY <1>1, FS_Subset DEF Rankable
<1> QED  BY <1>1, <1>2, FS_Subset, FS_CardinalityType

LEMMA SubsetRankable ==
    ASSUME NEW s, NEW S, Rankable(s, S), NEW T \in SUBSET S
    PROVE  Rankable(s, T)
  BY FS_Subset DEF Rankable

LEMMA OutranksOrder ==
    ASSUME NEW s, NEW S, Rankable(s, S), NEW a \in S, NEW b \in S, NEW c \in S
    PROVE  /\ ~Outranks(s, a, a)
           /\ Outranks(s, a, b) /\ Outranks(s, b, c) => Outranks(s, a, c)
           /\ a # b => Outranks(s, a, b) \/ Outranks(s, b, a)
  BY DEF Rankable, Outranks

(* A set that is not empty has a first member.                             *)
LEMMA HasFirst ==
    ASSUME NEW s, NEW S, Rankable(s, S), S # {}
    PROVE  \E m \in S : Above(s, S, m) = {}
<1> DEFINE All == {Above(s, S, m) : m \in S}
<1>1. IsWellFoundedOn(StrictSubsetOrdering(S), FiniteSubsetsOf(S))
  BY FS_StrictSubsetOrderingWellFounded
<1>2. ASSUME NEW m \in S PROVE Above(s, S, m) \in FiniteSubsetsOf(S)
  <2>1. Above(s, S, m) \in SUBSET S  BY DEF Above
  <2> QED  BY <2>1, AboveFinite DEF FiniteSubsetsOf
<1>3. All \subseteq FiniteSubsetsOf(S) /\ All # {}  BY <1>2
<1>4. PICK U \in All : \A V \in All : <<V, U>> \notin StrictSubsetOrdering(S)
  <2> HIDE DEF All
  <2> QED  BY <1>1, <1>3, WFMin
<1>5. PICK m \in S : U = Above(s, S, m)  BY <1>4
<1>6. ASSUME NEW h \in U PROVE FALSE
  <2>1. h \in S /\ Outranks(s, h, m)  BY <1>5, <1>6 DEF Above
  <2>2. Above(s, S, h) \in All  BY <2>1
  <2>3. Above(s, S, h) \subseteq U  BY <1>5, <2>1, OutranksOrder DEF Above
  <2>4. h \notin Above(s, S, h)  BY <2>1, OutranksOrder DEF Above
  <2>5. <<Above(s, S, h), U>> \in StrictSubsetOrdering(S)
    BY <1>5, <1>6, <2>3, <2>4 DEF StrictSubsetOrdering, Above
  <2> QED  BY <1>4, <2>2, <2>5
<1> QED  BY <1>5, <1>6

(* What the n best leave out, n of them outrank.                           *)
LEMMA LeftOutIsOutranked ==
    ASSUME NEW s, NEW S, Rankable(s, S), NEW n \in Nat, NEW g \in S \ Best(s, S, n)
    PROVE  Cardinality(Above(s, Best(s, S, n), g)) >= n
<1> DEFINE B == Above(s, S, g)
           C == Above(s, Best(s, S, n), g)
<1>1. B \in SUBSET S /\ C \in SUBSET B /\ Best(s, S, n) \in SUBSET S
  BY DEF Above, Best
<1>2. /\ IsFiniteSet(B) /\ IsFiniteSet(C)
      /\ Cardinality(B) \in Nat /\ Cardinality(C) \in Nat
  BY <1>1, AboveFinite
<1>3. Cardinality(B) >= n  BY <1>2 DEF Best
<1> SUFFICES ASSUME Cardinality(C) < n PROVE FALSE  BY <1>2
<1>4. B \ C # {}
  <2>1. B \ C = {} => B = C  BY <1>1
  <2> QED  BY <1>2, <1>3, <2>1
<1>5. Rankable(s, B \ C)
  <2>1. B \ C \in SUBSET S  BY <1>1
  <2> QED  BY <2>1, SubsetRankable
<1>6. PICK m \in B \ C : Above(s, B \ C, m) = {}
  <2> HIDE DEF B, C
  <2> QED  BY <1>4, <1>5, HasFirst
<1>7. m \in S /\ Outranks(s, m, g)  BY <1>6 DEF Above
<1>8. Above(s, S, m) \subseteq B  BY <1>7, OutranksOrder DEF Above
<1>9. Above(s, S, m) \in SUBSET C
  <2>1. ASSUME NEW h \in Above(s, S, m) PROVE h \in C
    <3>1. h \in B /\ Outranks(s, h, m)  BY <1>8, <2>1 DEF Above
    <3>2. h \notin B \ C  
      <4> HIDE DEF B, C
      <4> QED BY <1>6, <3>1 DEF Above
    <3> QED  BY <3>1, <3>2
  <2> QED  BY <2>1
<1>10. /\ Cardinality(Above(s, S, m)) <= Cardinality(C)
       /\ Cardinality(Above(s, S, m)) \in Nat
  <2> HIDE DEF C
  <2> QED BY <1>2, <1>9, FS_Subset, FS_CardinalityType
<1>11. m \in Best(s, S, n)  BY <1>2, <1>7, <1>10 DEF Best
<1> QED  BY <1>6, <1>7, <1>11 DEF Above

(* A part of a set ranks like the set if n of it outrank all that is left  *)
(* out of it.                                                              *)
LEMMA SameBest ==
    ASSUME NEW s, NEW S, Rankable(s, S), NEW n \in Nat, NEW T \in SUBSET S,
           \A g \in S \ T : Cardinality(Above(s, T, g)) >= n
    PROVE  Best(s, T, n) = Best(s, S, n)
<1>1. ASSUME NEW g \in Best(s, S, n) PROVE g \in Best(s, T, n)
  <2>1. g \in S /\ Cardinality(Above(s, S, g)) < n  BY <1>1 DEF Best
  <2>2. /\ Cardinality(Above(s, T, g)) <= Cardinality(Above(s, S, g))
        /\ Cardinality(Above(s, T, g)) \in Nat /\ Cardinality(Above(s, S, g)) \in Nat
    BY AboveFinite
  <2>3. Cardinality(Above(s, T, g)) < n  BY <2>1, <2>2
  <2>4. g \in T  BY <2>1, <2>2, <2>3
  <2> QED  BY <2>3, <2>4 DEF Best
<1>2. ASSUME NEW g \in Best(s, T, n), g \notin Best(s, S, n) PROVE FALSE
  <2>1. g \in T /\ g \in S \ Best(s, S, n) /\ Cardinality(Above(s, T, g)) < n
    BY <1>2 DEF Best
  <2>2. Cardinality(Above(s, Best(s, S, n), g)) >= n  BY <2>1, LeftOutIsOutranked
  <2>3. Best(s, S, n) \in SUBSET T  BY <1>1 DEF Best
  <2>4. Rankable(s, T)  BY SubsetRankable
  <2>5. /\ Cardinality(Above(s, Best(s, S, n), g)) <= Cardinality(Above(s, T, g))
        /\ Cardinality(Above(s, Best(s, S, n), g)) \in Nat
        /\ Cardinality(Above(s, T, g)) \in Nat
    <3>1. T \in SUBSET T  OBVIOUS
    <3> QED  BY <2>3, <2>4, <3>1, AboveFinite
  <2> QED  BY <2>1, <2>2, <2>5
<1> QED  BY <1>1, <1>2

(* The best of a set that lie in its upper part are the best of that part. *)
LEMMA UpperPart ==
    ASSUME NEW s, NEW S, NEW n, NEW P \in SUBSET S,
           \A h \in S, g \in P : Outranks(s, h, g) => h \in P
    PROVE  Best(s, S, n) \cap P = Best(s, P, n)
<1>1. ASSUME NEW g \in P PROVE Above(s, S, g) = Above(s, P, g)  BY DEF Above
<1> QED  BY <1>1 DEF Best

(* What G has in P and F lacks, m that F has in P outrank.  A file of the  *)
(* m best of what was evaluated keeps this for all that was saved before.  *)
Kept(s, P, m, G, F) == \A g \in (G \cap P) \ F : Cardinality(Above(s, F \cap P, g)) >= m

LEMMA SavingKeeps ==
    ASSUME NEW s, NEW All, Rankable(s, All), NEW P \in SUBSET All, NEW m \in Nat,
           NEW G \in SUBSET All, NEW U \in SUBSET All, Kept(s, P, m, G, U)
    PROVE  Kept(s, P, m, G \union U, Best(s, U \cap P, m))
<1> DEFINE F == Best(s, U \cap P, m)
<1>1. F \in SUBSET (U \cap P) /\ F \cap P = F /\ F \in SUBSET All  BY DEF Best
<1>2. Rankable(s, U \cap P)
  <2>1. U \cap P \in SUBSET All  OBVIOUS
  <2> QED  BY <2>1, SubsetRankable
<1>3. ASSUME NEW g \in (U \cap P) \ F PROVE Cardinality(Above(s, F, g)) >= m
  BY <1>2, <1>3, LeftOutIsOutranked
<1>4. ASSUME NEW g \in (G \cap P) \ F, g \notin U
      PROVE Cardinality(Above(s, F, g)) >= m
  <2> DEFINE D == Above(s, U \cap P, g)
  <2>1. Cardinality(D) >= m  BY <1>4 DEF Kept
  <2>2. /\ D \in SUBSET All /\ IsFiniteSet(D) /\ Cardinality(D) \in Nat
        /\ IsFiniteSet(Above(s, F, g)) /\ Cardinality(Above(s, F, g)) \in Nat
    <3>1. U \cap P \in SUBSET All  OBVIOUS
    <3>2. IsFiniteSet(D) /\ Cardinality(D) \in Nat  BY <3>1, AboveFinite
    <3>3. IsFiniteSet(Above(s, F, g)) /\ Cardinality(Above(s, F, g)) \in Nat
      <4> HIDE DEF F
      <4> QED  BY <1>1, AboveFinite
    <3>4. D \in SUBSET All  BY DEF Above
    <3> QED  BY <3>2, <3>3, <3>4
  <2>3. CASE D \subseteq F
    <3>1. D \in SUBSET Above(s, F, g)  BY <2>3 DEF Above
    <3>2. Cardinality(D) <= Cardinality(Above(s, F, g))
      <4> HIDE DEF D, F
      <4> QED  BY <2>2, <3>1, FS_Subset
    <3> HIDE DEF D, F
    <3> QED  BY <2>1, <2>2, <3>2
  <2>4. ASSUME NEW d \in D, d \notin F PROVE Cardinality(Above(s, F, g)) >= m
    <3>1. d \in (U \cap P) \ F /\ Outranks(s, d, g)  BY <2>4 DEF Above
    <3>2. Cardinality(Above(s, F, d)) >= m  BY <1>3, <3>1
    <3>3. Above(s, F, d) \in SUBSET Above(s, F, g)
      BY <1>1, <3>1, OutranksOrder DEF Above
    <3>4. Cardinality(Above(s, F, d)) \in Nat  BY <1>1, AboveFinite
    <3>5. Cardinality(Above(s, F, d)) <= Cardinality(Above(s, F, g))
      <4> HIDE DEF D, F
      <4> QED  BY <2>2, <3>3, FS_Subset
    <3> HIDE DEF D, F
    <3> QED  BY <2>2, <3>2, <3>4, <3>5
  <2> QED  BY <2>3, <2>4
<1> QED  BY <1>1, <1>3, <1>4 DEF Kept

(* More is kept by more.                                                   *)
LEMMA KeptByMore ==
    ASSUME NEW s, NEW All, Rankable(s, All), NEW L, NEW n \in Nat, NEW G, NEW F,
           NEW U \in SUBSET All, F \subseteq U, Kept(s, L, n, G, F)
    PROVE  Kept(s, L, n, G, U)
<1> SUFFICES ASSUME NEW g \in (G \cap L) \ U
             PROVE  Cardinality(Above(s, U \cap L, g)) >= n
  BY DEF Kept
<1>1. Cardinality(Above(s, F \cap L, g)) >= n  BY DEF Kept
<1>2. F \cap L \in SUBSET (U \cap L) /\ U \cap L \in SUBSET All  OBVIOUS
<1>3. Rankable(s, U \cap L)  BY <1>2, SubsetRankable
<1>4. /\ Cardinality(Above(s, F \cap L, g)) <= Cardinality(Above(s, U \cap L, g))
      /\ Cardinality(Above(s, F \cap L, g)) \in Nat
      /\ Cardinality(Above(s, U \cap L, g)) \in Nat
  <2>1. U \cap L \in SUBSET (U \cap L)  OBVIOUS
  <2> QED  BY <1>2, <1>3, <2>1, AboveFinite
<1> QED  BY <1>1, <1>4

(* The best of a union are found among the best of its parts.              *)
LEMMA BestOfParts ==
    ASSUME NEW s, NEW All, Rankable(s, All), NEW I, NEW C \in [I -> SUBSET All], NEW n \in Nat
    PROVE  Best(s, UNION {Best(s, C[i], n) : i \in I}, n) = Best(s, UNION {C[i] : i \in I}, n)
<1> DEFINE S == UNION {C[i] : i \in I}
           T == UNION {Best(s, C[i], n) : i \in I}
<1>1. S \in SUBSET All  OBVIOUS
<1>2. T \in SUBSET S  BY DEF Best
<1>3. Rankable(s, S) /\ Rankable(s, T)
  <2>1. T \in SUBSET All  BY <1>1, <1>2
  <2> QED  BY <1>1, <2>1, SubsetRankable
<1>4. ASSUME NEW g \in S \ T PROVE Cardinality(Above(s, T, g)) >= n
  <2>1. PICK i \in I : g \in C[i]  BY <1>4
  <2>2. g \in C[i] \ Best(s, C[i], n)  BY <1>4, <2>1
  <2>3. Rankable(s, C[i])
    <3>1. C[i] \in SUBSET All  OBVIOUS
    <3> QED  BY <3>1, SubsetRankable
  <2>4. Cardinality(Above(s, Best(s, C[i], n), g)) >= n  BY <2>2, <2>3, LeftOutIsOutranked
  <2>5. Best(s, C[i], n) \in SUBSET T /\ T \in SUBSET T  OBVIOUS
  <2>6. /\ Cardinality(Above(s, Best(s, C[i], n), g)) <= Cardinality(Above(s, T, g))
        /\ Cardinality(Above(s, Best(s, C[i], n), g)) \in Nat
        /\ Cardinality(Above(s, T, g)) \in Nat
    <3> HIDE DEF T
    <3> QED  BY <1>3, <2>5, AboveFinite
  <2> QED  BY <2>4, <2>6
<1> HIDE DEF S, T
<1>5. Best(s, T, n) = Best(s, S, n)  BY <1>2, <1>3, <1>4, SameBest
<1> QED  BY <1>5 DEF S, T

(* What is listed: of the n best of those in E that were evaluated, the    *)
(* ones that score are the n best of all that can be listed, and the first *)
(* of the n best is the first of these.                                    *)
Scoring(s, S) == {g \in S : s[g] > 0}

ListedFrom(s, All, E, L, n, U, ranked, known) ==
    /\ Rankable(s, All) /\ E \in SUBSET All /\ L = Scoring(s, E) /\ n \in Nat \ {0}
    /\ U \in SUBSET All /\ ranked = Best(s, U \cap E, n) /\ known = U \cap L

LEMMA ListedIsBest ==
    ASSUME NEW s, NEW All, NEW E, NEW L, NEW n, NEW U, NEW ranked, NEW known,
           ListedFrom(s, All, E, L, n, U, ranked, known)
    PROVE  /\ Scoring(s, ranked) = Best(s, known, n)
           /\ known # {} =>
                  ranked # {} /\ \A w \in Best(s, ranked, 1) : w \in Best(s, known, 1)
<1>0. /\ Rankable(s, All) /\ E \in SUBSET All /\ L = Scoring(s, E) /\ n \in Nat \ {0}
      /\ U \in SUBSET All /\ ranked = Best(s, U \cap E, n) /\ known = U \cap L
  BY DEF ListedFrom
<1> USE <1>0
<1>1. U \cap E \in SUBSET All /\ U \cap L \in SUBSET (U \cap E) /\ known \in SUBSET All
  BY DEF Scoring
<1>2. Rankable(s, known) /\ Rankable(s, U \cap E)  BY <1>1, SubsetRankable
<1>3. Best(s, U \cap E, n) \cap (U \cap L) = Best(s, U \cap L, n)
  <2>1. ASSUME NEW h \in U \cap E, NEW g \in U \cap L, Outranks(s, h, g) PROVE h \in U \cap L
    BY <2>1 DEF Outranks, Rankable, Scoring
  <2> QED  BY <1>1, <2>1, UpperPart
<1>5. Scoring(s, ranked) = Best(s, U \cap E, n) \cap (U \cap L)  BY DEF Best, Scoring
<1>6. Scoring(s, ranked) = Best(s, known, n)  BY <1>3, <1>5
<1>7. ASSUME known # {}
      PROVE  ranked # {} /\ \A w \in Best(s, ranked, 1) : w \in Best(s, known, 1)
  <2>1. PICK m \in known : Above(s, known, m) = {}  BY <1>2, <1>7, HasFirst
  <2>2. Cardinality({}) = 0  BY FS_EmptySet
  <2>3. m \in Best(s, known, n) /\ m \in Best(s, known, 1)  BY <2>1, <2>2 DEF Best
  <2>4. m \in ranked /\ s[m] > 0  BY <1>6, <2>3 DEF Scoring
  <2>5. ASSUME NEW w \in Best(s, ranked, 1), w # m PROVE FALSE
    <3>1. w \in ranked /\ ranked \in SUBSET (U \cap E)  BY <2>5 DEF Best
    <3>2. /\ IsFiniteSet(Above(s, ranked, w)) /\ Cardinality(Above(s, ranked, w)) \in Nat
      BY <1>2, <3>1, AboveFinite
    <3>3. Cardinality(Above(s, ranked, w)) = 0  BY <3>2 DEF Best
    <3>4. Above(s, ranked, w) = {}  BY <3>2, <3>3, FS_EmptySet
    <3>5. ~Outranks(s, m, w)  BY <2>4, <3>4 DEF Above
    <3>6. w \in All /\ m \in All  BY <1>1, <2>1, <3>1
    <3>7. Outranks(s, w, m)  BY <2>5, <3>5, <3>6, OutranksOrder
    <3>8. s[w] > 0  BY <2>4, <3>6, <3>7 DEF Outranks, Rankable
    <3>9. w \in known  BY <1>6, <3>1, <3>8 DEF Best, Scoring
    <3> QED  BY <2>1, <3>7, <3>9 DEF Above
  <2> QED  BY <2>3, <2>4, <2>5
<1> QED  BY <1>6, <1>7

-----------------------------------------------------------------------------
(* The ranking of a run.                                                   *)

LEMMA SamePart == [Next]_vars => part' = part
  BY DEF Next, vars, Editing, Breeding, Evaluating, Ranking

LEMMA RankActs ==
    ASSUME [Next]_vars, part = "rank"
    PROVE  Res!Next \/ UNCHANGED ranking
  BY DEF Next, vars, Editing, Breeding, Evaluating, Ranking, Res!Next

LEMMA ResCardinality == \A S : Res!Cardinality(S) = Cardinality(S)
<1>1. \A S : Res!IsFiniteSet(S) <=> IsFiniteSet(S)
  BY DEF Res!IsFiniteSet, IsFiniteSet
<1> QED  BY <1>1 DEF Res!Cardinality, Cardinality

(* Every score is a number: what is divided by is positive.                *)
LEMMA Quotient == ASSUME NEW a \in Int, NEW b \in Nat \ {0} PROVE a \div b \in Int
  OBVIOUS
LEMMA Product == ASSUME NEW a \in Int, NEW b \in Int PROVE a * b \in Int
  OBVIOUS

LEMMA ScoreIsInt ==
    ASSUME NEW g \in Genes
    PROVE  Res!Score(g) \in Int
<1> DEFINE M == Metrics(g)
           w == Res!NormalizeWeights(Config.weights)
<1>1. /\ M.error \in BOOLEAN /\ M.positions \in Nat /\ M.trades \in Nat
      /\ M.pf \in Int /\ M.dd \in Int /\ M.ret \in Int /\ M.net \in Int
  BY MetricsAssumption
<1>2. /\ Config.capPf \in Nat \ {0} /\ Config.capRet \in Nat \ {0}
      /\ Config.minTradesPerWindow \in Nat /\ Config.frequencyTarget \in Int
      /\ Config.weights.pf \in Int /\ Config.weights.dd \in Int /\ Config.weights.ret \in Int
      /\ MinTrades \in Nat /\ MaxDd \in Nat \ {0}
  BY ConfigAssumption
<1> HIDE DEF M
<1>3. /\ w.pf \in Int /\ w.dd \in Int /\ w.ret \in Int /\ w.pf + w.dd + w.ret \in Nat \ {0}
  BY <1>2 DEF Res!NormalizeWeights
<1> HIDE DEF w
<1>4. /\ Res!NormalizePf(M.pf, Config.capPf) \in Int /\ Res!NormalizeDd(M.dd) \in Int
      /\ Res!NormalizeRet(M.ret, Config.capRet) \in Int
  <2>1. /\ 1000 * Res!Least(M.pf, Config.capPf) \in Int
        /\ 1000 * Res!Least(M.ret, Config.capRet) \in Int
    BY <1>1, <1>2 DEF Res!Least
  <2> QED  BY <1>1, <1>2, <2>1, Quotient DEF Res!NormalizePf, Res!NormalizeDd, Res!NormalizeRet
<1>5. Res!Composite(M, Config) \in Int
  <2> DEFINE sum == w.pf * Res!NormalizePf(M.pf, Config.capPf) + w.dd * Res!NormalizeDd(M.dd)
                    + w.ret * Res!NormalizeRet(M.ret, Config.capRet)
             raw == sum \div (w.pf + w.dd + w.ret)
             bound == Res!Least(M.positions, Config.frequencyTarget)
  <2>1. sum \in Int
    <3>1. w.pf * Res!NormalizePf(M.pf, Config.capPf) \in Int  BY <1>3, <1>4, Product
    <3>2. w.dd * Res!NormalizeDd(M.dd) \in Int  BY <1>3, <1>4, Product
    <3>3. w.ret * Res!NormalizeRet(M.ret, Config.capRet) \in Int  BY <1>3, <1>4, Product
    <3> QED  BY <3>1, <3>2, <3>3
  <2>2. raw \in Int
    <3> HIDE DEF sum
    <3> QED  BY <1>3, <2>1, Quotient
  <2>3. bound \in Int  BY <1>1, <1>2 DEF Res!Least
  <2>4. Config.frequencyTarget > 0 => (raw * bound) \div Config.frequencyTarget \in Int
    <3> HIDE DEF raw, bound
    <3>1. raw * bound \in Int  BY <2>2, <2>3, Product
    <3>2. Config.frequencyTarget > 0 => Config.frequencyTarget \in Nat \ {0}  BY <1>2
    <3> QED  BY <3>1, <3>2, Quotient
  <2>5. Res!Composite(M, Config)
            = IF Config.frequencyTarget > 0
              THEN (raw * bound) \div Config.frequencyTarget ELSE raw
    BY DEF Res!Composite, w
  <2> HIDE DEF raw, bound
  <2> QED  BY <2>2, <2>4, <2>5
<1>6. Res!LegacyScore(M, MinTrades, MaxDd) \in Int
  <2> DEFINE ratio == Res!Least((1000 * M.dd) \div MaxDd, 1000)
             penalty == (3 * ratio * ratio) \div 10000
  <2>1. ratio \in Int
    <3>1. 1000 * M.dd \in Int  BY <1>1
    <3>2. (1000 * M.dd) \div MaxDd \in Int  BY <1>2, <3>1, Quotient
    <3> QED  BY <3>2 DEF Res!Least
  <2>2. penalty \in Int
    <3> HIDE DEF ratio
    <3>1. 3 * ratio * ratio \in Int  BY <2>1, Product
    <3> QED  BY <3>1, Quotient
  <2>3. (M.net * (1000 - penalty)) \div 1000 \in Int
    <3> HIDE DEF penalty
    <3>1. M.net * (1000 - penalty) \in Int  BY <1>1, <2>2, Product
    <3> QED  BY <3>1, Quotient
  <2>4. Res!LegacyScore(M, MinTrades, MaxDd)
            = CASE M.error              -> Res!Eliminated
                [] M.trades < 3         -> -5000
                [] M.trades < MinTrades -> -1000 + M.trades * 10
                [] OTHER                -> (M.net * (1000 - penalty)) \div 1000
    BY DEF Res!LegacyScore
  <2> HIDE DEF penalty
  <2> QED  BY <1>1, <2>3, <2>4 DEF Res!Eliminated
<1> QED  BY <1>5, <1>6 DEF Res!Score, Res!SpecScore, Res!Eliminated, M

(* The inductive invariant.  The scores, the genes that score above zero   *)
(* and those that can be listed do not change during a series of runs.     *)
Scores == [g \in Genes |-> Res!Score(g)]
Scored == {g \in Genes : Res!Score(g) > 0}
Enough == {g \in Genes : Res!Eligible(g)}
Listable == {g \in Enough : Res!Score(g) > 0}
Evaluated == UNION {cache[i] : i \in Islands}

RankTypes ==
    /\ cache \in [Islands -> SUBSET Genes] /\ top \in [Islands -> SUBSET Genes]
    /\ file \in SUBSET Genes /\ tmp \in SUBSET Genes /\ saved \in SUBSET Genes

(* What the parts of a run hold, given the scores s, the genes P that      *)
(* score and E that have enough trades.                                    *)
RankFits(s, P, E) ==
    /\ Kept(s, P, MaxEntries, saved, file)
    /\ phase # "idle" => /\ Kept(s, P, MaxEntries, saved, Evaluated)
                         /\ \A i \in Islands : preload \subseteq cache[i]
    /\ phase = "running" => reported = {}
    /\ phase \in {"running", "collecting", "saving", "renaming", "ranking"} =>
           \A i \in Islands : WorkerOf(i) \in reported => top[i] = Best(s, cache[i] \cap E, TopK)
    /\ phase \in {"running", "collecting", "saving"} /\ mode = "spec" =>
           /\ deltas \subseteq Evaluated
           /\ \A i \in Islands : WorkerOf(i) \in reported => cache[i] \ preload \subseteq deltas
    /\ phase \in {"saving", "renaming", "ranking"} => Res!Workers \subseteq reported
    /\ phase \in {"saving", "renaming"} => mode = "spec"
    /\ phase = "renaming" => tmp = Best(s, Evaluated \cap P, MaxEntries)

RankInv == RankTypes /\ RankFits(Scores, Scored, Enough) /\ Res!RankingIsComplete

LEMMA ScoresStay ==
    ASSUME mode' = mode
    PROVE  /\ Scores' = Scores /\ Scored' = Scored /\ Listable' = Listable /\ Enough' = Enough
           /\ \A g : Res!Score(g)' = Res!Score(g)
<1>1. \A g : Res!Score(g)' = Res!Score(g)  BY DEF Res!Score
<1>2. Scores' = Scores  BY <1>1 DEF Scores
<1>3. Scored' = Scored  BY <1>1 DEF Scored
<1>4. Enough' = Enough  BY DEF Enough, Res!Eligible
<1>5. Listable' = Listable  BY <1>1, <1>4 DEF Listable
<1> QED  BY <1>1, <1>2, <1>3, <1>4, <1>5

LEMMA ScoresRank ==
    /\ Rankable(Scores, Genes) /\ Listable \in SUBSET Scored /\ Scored \in SUBSET Genes
    /\ Listable \in SUBSET Enough /\ Enough \in SUBSET Genes
    /\ Listable = {g \in Enough : Scores[g] > 0} /\ Scored = {g \in Genes : Scores[g] > 0}
<1>1. \A g \in Genes : Scores[g] = Res!Score(g) /\ Scores[g] \in Int
  BY ScoreIsInt DEF Scores
<1>2. Rankable(Scores, Genes)  BY <1>1, GenesAssumption DEF Rankable
<1> QED  BY <1>1, <1>2 DEF Listable, Scored, Enough

LEMMA TopOfIsBest ==
    ASSUME NEW S \in SUBSET Genes, NEW n
    PROVE  Res!TopOf(S, n) = Best(Scores, S, n)
<1>1. ASSUME NEW g \in S
      PROVE  {h \in S : Res!Before(h, g)} = Above(Scores, S, g)
  BY DEF Res!Before, Above, Outranks, Scores
<1> QED  BY <1>1, ResCardinality DEF Res!TopOf, Best

LEMMA RankInit == Init /\ part = "rank" => RankInv
<1> SUFFICES ASSUME Init, part = "rank" PROVE RankInv  OBVIOUS
<1>1. Res!Init  BY DEF Init
<1>2. RankTypes  BY <1>1 DEF Res!Init, RankTypes
<1>3. \A s, P, F : Kept(s, P, MaxEntries, saved, F)  BY <1>1 DEF Res!Init, Kept
<1>4. RankFits(Scores, Scored, Enough)  BY <1>1, <1>3 DEF Res!Init, RankFits
<1>5. Res!RankingIsComplete  BY <1>1 DEF Res!Init, Res!RankingIsComplete
<1> QED  BY <1>2, <1>4, <1>5 DEF RankInv

(* Each step keeps what the parts hold.                                    *)
LEMMA RankStep ==
    ASSUME NEW s, NEW P, NEW E, s = Scores, P = Scored, E = Enough,
           RankTypes, RankFits(s, P, E), Res!Next
    PROVE  RankTypes' /\ RankFits(s, P, E)'
<1>0. /\ Rankable(s, Genes) /\ P \in SUBSET Genes /\ E \in SUBSET Genes
      /\ TopK \in Nat \ {0} /\ MaxEntries \in Nat
  BY ScoresRank, CapsAssumption
<1>1. CASE Res!Start
  <2>1. PICK read \in {file, {}} :
            /\ preload' = read /\ cache' = [i \in Islands |-> read]
            /\ saved' = IF read = file THEN saved ELSE {}
    BY <1>1 DEF Res!Start
  <2>2. /\ phase' = "running" /\ reported' = {} /\ deltas' = {}
        /\ top' = [i \in Islands |-> {}] /\ file' = file /\ tmp' = tmp
    BY <1>1 DEF Res!Start
  <2>3. RankTypes'  BY <2>1, <2>2 DEF RankTypes
  <2>4. Evaluated' = read  BY <2>1, GenesAssumption DEF Evaluated
  <2>5. Kept(s, P, MaxEntries, saved', file) /\ Kept(s, P, MaxEntries, saved', read)
    <3>1. CASE read = file  BY <2>1, <3>1 DEF RankFits
    <3>2. CASE read # file
      <4>1. saved' = {}  BY <2>1, <3>2
      <4> QED  BY <4>1 DEF Kept
    <3> QED  BY <3>1, <3>2
  <2>6. Kept(s, P, MaxEntries, saved, file)' /\ Kept(s, P, MaxEntries, saved, Evaluated)'
    BY <2>2, <2>4, <2>5
  <2> QED  BY <2>1, <2>2, <2>3, <2>6 DEF RankFits
<1>2. ASSUME NEW i \in Islands, Res!Evaluate(i) PROVE RankTypes' /\ RankFits(s, P, E)'
  <2>1. PICK g \in Genes \ cache[i] : cache' = [cache EXCEPT ![i] = @ \union {g}]
    BY <1>2 DEF Res!Evaluate
  <2>2. phase = "running"
        /\ UNCHANGED <<mode, phase, preload, reported, top, deltas, file, tmp, saved>>
    BY <1>2 DEF Res!Evaluate
  <2>3. RankTypes'  BY <2>1, <2>2 DEF RankTypes
  <2>4. \A j \in Islands : cache[j] \subseteq cache'[j] /\ cache'[j] \subseteq Genes
    BY <2>1, <2>3 DEF RankTypes
  <2>5. PICK u : u = Evaluated  OBVIOUS
  <2>6. PICK v : v = Evaluated'  OBVIOUS
  <2>7. u \subseteq v /\ v \in SUBSET Genes  BY <2>4, <2>5, <2>6 DEF Evaluated
  <2>8. PICK G : G = saved  OBVIOUS
  <2>9. Kept(s, P, MaxEntries, G, v)
    <3>1. Kept(s, P, MaxEntries, G, u)  BY <2>2, <2>5, <2>8 DEF RankFits
    <3> QED  BY <1>0, <2>7, <3>1, KeptByMore
  <2>10. Kept(s, P, MaxEntries, saved, file)' /\ Kept(s, P, MaxEntries, saved, Evaluated)'
    <3>1. Kept(s, P, MaxEntries, saved, file)  BY DEF RankFits
    <3> QED  BY <2>2, <2>6, <2>8, <2>9, <3>1
  <2>11. u = Evaluated /\ v = Evaluated' /\ u \subseteq v  BY <2>5, <2>6, <2>7
  <2> QED  BY <2>2, <2>3, <2>4, <2>10, <2>11 DEF RankFits
<1>3. CASE Res!GetResults
  <2>1. /\ phase = "running" /\ phase' = "collecting"
        /\ UNCHANGED <<mode, cache, preload, reported, top, deltas, file, tmp, saved>>
    BY <1>3 DEF Res!GetResults
  <2>2. Evaluated' = Evaluated  BY <2>1 DEF Evaluated
  <2> QED  BY <2>1, <2>2 DEF RankTypes, RankFits
<1>4. ASSUME NEW w \in Res!Workers, Res!Report(w) PROVE RankTypes' /\ RankFits(s, P, E)'
  <2>1. /\ phase = "collecting" /\ reported' = reported \union {w}
        /\ top' = [i \in Islands |-> IF WorkerOf(i) = w THEN Res!TopFromCache(cache[i]) ELSE top[i]]
        /\ deltas' = IF mode = "spec" THEN deltas \union Res!Delta(w) ELSE deltas
        /\ phase' = IF reported' # Res!Workers THEN phase
                    ELSE IF mode = "spec" THEN "saving" ELSE "ranking"
        /\ UNCHANGED <<mode, cache, preload, file, tmp, saved>>
    BY <1>4 DEF Res!Report
  <2>2. \A i \in Islands : Res!TopFromCache(cache[i]) = Best(s, cache[i] \cap E, TopK)
    <3> SUFFICES ASSUME NEW i \in Islands
                 PROVE  Res!TopFromCache(cache[i]) = Best(s, cache[i] \cap E, TopK)
      OBVIOUS
    <3>1. PICK c : c = cache[i]  OBVIOUS
    <3>2. c \cap E \in SUBSET Genes /\ c \in SUBSET Genes  BY <1>0, <3>1 DEF RankTypes
    <3>3. {g \in c : Res!Eligible(g)} = c \cap E  BY <3>2 DEF Enough
    <3>4. Res!TopOf(c \cap E, TopK) = Best(s, c \cap E, TopK)  BY <3>2, TopOfIsBest
    <3> QED  BY <3>1, <3>3, <3>4 DEF Res!TopFromCache
  <2>3. top' \in [Islands -> SUBSET Genes]
    <3>1. \A i \in Islands : Best(s, cache[i] \cap E, TopK) \in SUBSET Genes
      BY <1>0 DEF Best
    <3> QED  BY <2>1, <2>2, <3>1 DEF RankTypes
  <2>4. RankTypes'  BY <2>1, <2>3 DEF RankTypes
  <2>5. Evaluated' = Evaluated  BY <2>1 DEF Evaluated
  <2>6. \A i \in Islands : WorkerOf(i) \in reported' => top'[i] = Best(s, cache[i] \cap E, TopK)
    BY <2>1, <2>2 DEF RankFits
  <2>7. mode = "spec" =>
            /\ deltas' \subseteq Evaluated
            /\ \A i \in Islands : WorkerOf(i) \in reported' => cache[i] \ preload \subseteq deltas'
    <3> SUFFICES ASSUME mode = "spec"
                 PROVE  /\ deltas' \subseteq Evaluated
                        /\ \A i \in Islands : WorkerOf(i) \in reported' =>
                               cache[i] \ preload \subseteq deltas'
      OBVIOUS
    <3>1. Res!Delta(w) \subseteq Evaluated
          /\ \A i \in Islands : WorkerOf(i) = w => cache[i] \ preload \subseteq Res!Delta(w)
      BY DEF Res!Delta, Evaluated
    <3> QED  BY <2>1, <3>1 DEF RankFits
  <2>8. /\ phase' \in {"collecting", "saving", "ranking"} /\ phase # "idle"
        /\ phase' \in {"saving", "ranking"} => Res!Workers \subseteq reported'
        /\ phase' = "saving" => mode' = "spec"
    BY <2>1
  <2>9. Res!Workers' = Res!Workers  BY DEF Res!Workers
  <2>10. Kept(s, P, MaxEntries, saved, file)' /\ Kept(s, P, MaxEntries, saved, Evaluated)'
         /\ \A i \in Islands : preload' \subseteq cache'[i]
    BY <2>1, <2>5, <2>8 DEF RankFits
  <2> QED  BY <2>1, <2>4, <2>5, <2>6, <2>7, <2>8, <2>9, <2>10 DEF RankFits
<1>5. CASE Res!WriteTmp
  <2>1. /\ phase = "saving" /\ phase' = "renaming" /\ tmp' = Res!FilterAndCap(Res!MergeCaches)
        /\ UNCHANGED <<mode, cache, preload, reported, top, deltas, file, saved>>
    BY <1>5 DEF Res!WriteTmp
  <2>2. Evaluated' = Evaluated  BY <2>1 DEF Evaluated
  <2>3. preload \union deltas = Evaluated
    <3>1. mode = "spec" /\ Res!Workers \subseteq reported  BY <2>1 DEF RankFits
    <3>2. preload \subseteq Evaluated  BY <2>1, GenesAssumption DEF RankFits, Evaluated
    <3>3. deltas \subseteq Evaluated  BY <2>1, <3>1 DEF RankFits
    <3>4. ASSUME NEW i \in Islands PROVE cache[i] \ preload \subseteq deltas
      <4>1. WorkerOf(i) \in reported  BY <3>1 DEF Res!Workers
      <4> QED  BY <2>1, <3>1, <4>1 DEF RankFits
    <3> QED  BY <3>2, <3>3, <3>4 DEF Evaluated
  <2>4. PICK u : u = Evaluated  OBVIOUS
  <2>5. u \in SUBSET Genes /\ u \cap P \in SUBSET Genes  BY <2>4 DEF Evaluated, RankTypes
  <2>6. {g \in u : Res!Score(g) > 0} = u \cap P  BY <2>5 DEF Scored
  <2>7. tmp' = Best(s, u \cap P, MaxEntries)
    <3>1. Res!TopOf(u \cap P, MaxEntries) = Best(s, u \cap P, MaxEntries)
      BY <2>5, TopOfIsBest
    <3> QED  BY <2>1, <2>3, <2>4, <2>6, <3>1 DEF Res!FilterAndCap, Res!MergeCaches
  <2>8. tmp' \in SUBSET Genes  BY <2>5, <2>7 DEF Best
  <2>9. RankTypes'  BY <2>1, <2>8 DEF RankTypes
  <2>10. Res!Workers' = Res!Workers /\ mode = "spec" /\ Res!Workers \subseteq reported
    BY <2>1 DEF Res!Workers, RankFits
  <2>11. Kept(s, P, MaxEntries, saved, file)' /\ Kept(s, P, MaxEntries, saved, Evaluated)'
         /\ \A i \in Islands : preload' \subseteq cache'[i]
    BY <2>1, <2>2 DEF RankFits
  <2>12. \A i \in Islands : WorkerOf(i) \in reported' => top'[i] = Best(s, cache'[i] \cap E, TopK)
    BY <2>1 DEF RankFits
  <2>13. tmp' = Best(s, Evaluated' \cap P, MaxEntries)  BY <2>2, <2>4, <2>7
  <2> QED  BY <2>1, <2>9, <2>10, <2>11, <2>12, <2>13 DEF RankFits
<1>6. CASE Res!Rename
  <2>1. /\ phase = "renaming" /\ phase' = "ranking" /\ file' = tmp
        /\ saved' = saved \union Evaluated
        /\ UNCHANGED <<mode, cache, preload, reported, top, deltas, tmp>>
    BY <1>6 DEF Res!Rename, Evaluated
  <2>2. Evaluated' = Evaluated  BY <2>1 DEF Evaluated
  <2>3. PICK u : u = Evaluated  OBVIOUS
  <2>4. PICK G : G = saved  OBVIOUS
  <2>5. u \in SUBSET Genes /\ G \in SUBSET Genes  BY <2>3, <2>4 DEF Evaluated, RankTypes
  <2>6. RankTypes'  BY <2>1, <2>3, <2>4, <2>5 DEF RankTypes
  <2>7. file' = Best(s, u \cap P, MaxEntries)  BY <2>1, <2>3 DEF RankFits
  <2>8. Kept(s, P, MaxEntries, G, u)  BY <2>1, <2>3, <2>4 DEF RankFits
  <2>10. Kept(s, P, MaxEntries, G \union u, Best(s, u \cap P, MaxEntries))
    BY <1>0, <2>5, <2>8, SavingKeeps
  <2>11. Kept(s, P, MaxEntries, G \union u, u)
    BY <2>8 DEF Kept
  <2>12. Kept(s, P, MaxEntries, saved, file)' /\ Kept(s, P, MaxEntries, saved, Evaluated)'
    BY <2>1, <2>2, <2>3, <2>4, <2>7, <2>10, <2>11
  <2>13. Res!Workers' = Res!Workers  BY DEF Res!Workers
  <2> QED  BY <2>1, <2>6, <2>12, <2>13 DEF RankFits
<1>7. CASE Res!SaveFails
  <2>1. /\ phase \in {"saving", "renaming"} /\ phase' = "ranking"
        /\ UNCHANGED <<mode, cache, preload, reported, top, deltas, file, tmp, saved>>
    BY <1>7 DEF Res!SaveFails
  <2>2. Evaluated' = Evaluated /\ Res!Workers' = Res!Workers  BY <2>1 DEF Evaluated, Res!Workers
  <2> QED  BY <2>1, <2>2 DEF RankTypes, RankFits
<1>8. CASE Res!Rank
  <2>1. /\ phase = "ranking" /\ phase' = "ranked"
        /\ UNCHANGED <<mode, cache, preload, reported, top, deltas, file, tmp, saved>>
    BY <1>8 DEF Res!Rank
  <2>2. Evaluated' = Evaluated  BY <2>1 DEF Evaluated
  <2> QED  BY <2>1, <2>2 DEF RankTypes, RankFits
<1>9. CASE Res!Crash
  <2>1. /\ phase' = "idle" /\ cache' = [i \in Islands |-> {}] /\ top' = [i \in Islands |-> {}]
        /\ UNCHANGED <<mode, file, tmp, saved>>
    BY <1>9 DEF Res!Crash
  <2> QED  BY <2>1 DEF RankTypes, RankFits
<1> QED  BY <1>1, <1>2, <1>3, <1>4, <1>5, <1>6, <1>7, <1>8, <1>9 DEF Res!Next

(* The step that draws the ranking.                                        *)
LEMMA RankCompletes ==
    ASSUME RankInv, Res!Rank
    PROVE  Res!RankingIsComplete'
<1>1. /\ phase = "ranking" /\ table' = Res!TopOf(UNION {top[i] : i \in Islands}, TopK)
      /\ UNCHANGED <<mode, cache, saved>>
  BY DEF Res!Rank
<1>2. PICK s : s = Scores  OBVIOUS
<1>3. PICK P : P = Scored  OBVIOUS
<1>4. PICK E : E = Enough  OBVIOUS
<1>5. PICK L : L = Listable  OBVIOUS
<1>6. PICK u : u = Evaluated  OBVIOUS
<1>7. PICK G : G = saved  OBVIOUS
<1>8. PICK ranked : ranked = table'  OBVIOUS
<1>9. /\ Rankable(s, Genes) /\ L \in SUBSET P /\ P \in SUBSET Genes /\ E \in SUBSET Genes
      /\ L = Scoring(s, E) /\ TopK \in Nat \ {0}
  BY <1>2, <1>3, <1>4, <1>5, ScoresRank, CapsAssumption DEF Scoring
<1>10. /\ RankTypes /\ RankFits(s, P, E)  BY <1>2, <1>3, <1>4, <1>5 DEF RankInv
<1>11. u \in SUBSET Genes /\ G \in SUBSET Genes  BY <1>6, <1>7, <1>10 DEF RankTypes, Evaluated
<1>12. ranked = Best(s, u \cap E, TopK)
  <2>1. PICK C : C = [i \in Islands |-> cache[i] \cap E]  OBVIOUS
  <2>2. C \in [Islands -> SUBSET Genes]  BY <1>9, <2>1
  <2>3. \A i \in Islands : top[i] = Best(s, C[i], TopK)
    BY <1>1, <1>10, <2>1 DEF RankFits, Res!Workers
  <2>4. PICK T : T = UNION {top[i] : i \in Islands}  OBVIOUS
  <2>5. T = UNION {Best(s, C[i], TopK) : i \in Islands}  BY <2>3, <2>4
  <2>6. UNION {C[i] : i \in Islands} = u \cap E  BY <1>6, <2>1 DEF Evaluated
  <2>7. TopK \in Nat  BY <1>9
  <2>8. Best(s, T, TopK) = Best(s, u \cap E, TopK)
    BY <1>9, <2>2, <2>5, <2>6, <2>7, BestOfParts
  <2>9. T \in SUBSET Genes  BY <2>4, <1>10 DEF RankTypes
  <2>10. Res!TopOf(T, TopK) = Best(s, T, TopK)  BY <1>2, <2>9, TopOfIsBest
  <2> QED  BY <1>1, <1>8, <2>4, <2>8, <2>10
<1>13. ranked \in SUBSET Genes  BY <1>9, <1>11, <1>12 DEF Best
<1>14. ranked # {} => winner' \in Best(s, ranked, 1)
  <2>1. ranked # {} => winner' \in Res!TopOf(ranked, 1)  BY <1>8 DEF Res!Rank
  <2>2. Res!TopOf(ranked, 1) = Best(s, ranked, 1)  BY <1>2, <1>13, TopOfIsBest
  <2> QED  BY <2>1, <2>2
<1>15. \A g \in Genes : Res!Score(g)' = s[g]  BY <1>1, <1>2, ScoresStay DEF Scores
<1>16. \A g \in (G \cap L) \ u : Res!PushedOut(g)'
  <2> SUFFICES ASSUME NEW g \in (G \cap L) \ u PROVE Res!PushedOut(g)'  OBVIOUS
  <2>1. Kept(s, P, MaxEntries, G, u)  BY <1>1, <1>6, <1>7, <1>10 DEF RankFits
  <2>2. Cardinality(Above(s, u \cap P, g)) >= MaxEntries  BY <1>9, <2>1 DEF Kept
  <2>3. PICK H : H = {h \in Res!Known' : Res!Score(h)' > 0 /\ Res!Before(h, g)'}  OBVIOUS
  <2>4. Res!Known' = G \union u  BY <1>1, <1>6, <1>7 DEF Res!Known, Evaluated
  <2>5. g \in Genes  BY <1>11
  <2>6. \A h \in Genes : Res!Before(h, g)' <=> Outranks(s, h, g)
    BY <1>15, <2>5 DEF Res!Before, Outranks
  <2>7. \A h \in Genes : h \in P <=> Res!Score(h)' > 0
    BY <1>1, <1>3, ScoresStay DEF Scored
  <2>8. Above(s, u \cap P, g) \in SUBSET H /\ H \in SUBSET Genes
    BY <1>11, <2>3, <2>4, <2>6, <2>7 DEF Above
  <2>9. IsFiniteSet(H)  BY <2>8, FS_Subset, GenesAssumption
  <2>10. /\ Cardinality(Above(s, u \cap P, g)) <= Cardinality(H) /\ Cardinality(H) \in Nat
         /\ Cardinality(Above(s, u \cap P, g)) \in Nat
    BY <2>8, <2>9, FS_Subset, FS_CardinalityType
  <2>11. Cardinality(H) >= MaxEntries  BY <2>2, <2>10, CapsAssumption
  <2> QED  BY <2>3, <2>11, ResCardinality DEF Res!PushedOut
<1>17. PICK reached : reached = {g \in Res!Known' : Res!PushedOut(g)' => \E i \in Islands : g \in cache'[i]}
  OBVIOUS
<1>23. PICK known : known = u \cap L  OBVIOUS
<1>18. /\ Scoring(s, ranked) = Best(s, known, TopK)
       /\ known # {} =>
              ranked # {} /\ \A w \in Best(s, ranked, 1) : w \in Best(s, known, 1)
  <2>1. ListedFrom(s, Genes, E, L, TopK, u, ranked, known)
    BY <1>9, <1>11, <1>12, <1>23 DEF ListedFrom
  <2> QED  BY <2>1, ListedIsBest
<1>19. {g \in reached : Res!Eligible(g) /\ Res!Score(g)' > 0} = known
  <2>1. Res!Known' = G \union u  BY <1>1, <1>6, <1>7 DEF Res!Known, Evaluated
  <2>2. \A g \in Genes : g \in L <=> Res!Eligible(g) /\ Res!Score(g)' > 0
    BY <1>4, <1>9, <1>15 DEF Enough, Scoring
  <2>3. \A g : g \in u <=> \E i \in Islands : g \in cache'[i]  BY <1>1, <1>6 DEF Evaluated
  <2>4. u \subseteq reached  BY <1>17, <2>1, <2>3
  <2>5. reached \cap L \subseteq u  BY <1>16, <1>17, <2>1, <2>3
  <2>6. reached \in SUBSET Genes  BY <1>11, <1>17, <2>1
  <2> QED  BY <1>11, <1>23, <2>2, <2>4, <2>5, <2>6
<1>20. {g \in ranked : Res!Score(g)' > 0} = Scoring(s, ranked)  BY <1>13, <1>15 DEF Scoring
<1>21. \A n : Res!TopOf(known, n)' = Best(s, known, n)
  <2> SUFFICES ASSUME NEW n PROVE Res!TopOf(known, n)' = Best(s, known, n)  OBVIOUS
  <2>1. known \in SUBSET Genes  BY <1>11, <1>23
  <2>2. Res!TopOf(known, n)' = Res!TopOf(known, n)
    BY <1>1, ScoresStay DEF Res!TopOf, Res!Before
  <2> QED  BY <1>2, <2>1, <2>2, TopOfIsBest
<1>22. /\ {g \in table' : Res!Score(g)' > 0} = Res!TopOf(known, TopK)'
       /\ known # {} => winner' \in Res!TopOf(known, 1)'
  BY <1>8, <1>14, <1>18, <1>20, <1>21
<1>24. Res!ListsTheBestOf(reached)'
  BY <1>19, <1>22 DEF Res!ListsTheBestOf, Res!Eligible
<1> QED  BY <1>17, <1>24 DEF Res!RankingIsComplete

(* The ranking of a run lists the best of all genes that it or an earlier  *)
(* run whose cache was saved evaluated, and ships the first of them, but   *)
(* for genes of earlier runs that MaxEntries better ones push out of the   *)
(* file, whatever the islands, the threads, the genes, their metrics, the  *)
(* gates and the weights are, and whichever saves fail or are cut short    *)
(* (the collection of optimizer/runner.js and the cache file of            *)
(* fitness-cache.js).                                                      *)
THEOREM RankingIsCompleteHolds == Spec => []RankingIsComplete
<1> DEFINE Ranked == part = "rank" => RankInv
<1>1. Init => Ranked  BY RankInit
<1>2. Ranked /\ [Next]_vars => Ranked'
  <2> SUFFICES ASSUME Ranked, [Next]_vars, part' = "rank" PROVE RankInv'  OBVIOUS
  <2>1. part = "rank" /\ RankInv  BY SamePart
  <2>2. CASE UNCHANGED ranking
    <3>1. /\ RankTypes' = RankTypes /\ Res!RankingIsComplete' = Res!RankingIsComplete
      BY <2>2 DEF ranking, RankTypes, Res!RankingIsComplete, Res!ListsTheBestOf, Res!PushedOut,
                  Res!Known, Res!TopOf, Res!Before, Res!Score
    <3>2. RankFits(Scores, Scored, Enough)'
      <4>1. Scores' = Scores /\ Scored' = Scored /\ Enough' = Enough /\ Listable' = Listable
        BY <2>2, ScoresStay DEF ranking
      <4> QED  BY <2>1, <2>2, <4>1 DEF ranking, RankInv, RankFits, Evaluated, Res!Workers
    <3> QED  BY <2>1, <3>1, <3>2 DEF RankInv
  <2>3. CASE Res!Next
    <3>1. mode' = mode
      BY <2>3 DEF Res!Next, Res!Start, Res!Evaluate, Res!GetResults, Res!Report, Res!WriteTmp,
                  Res!Rename, Res!SaveFails, Res!Rank, Res!Crash
    <3>2. PICK s : s = Scores  OBVIOUS
    <3>3. PICK P : P = Scored  OBVIOUS
    <3>4. PICK E : E = Enough  OBVIOUS
    <3>6. RankTypes /\ RankFits(s, P, E)  BY <2>1, <3>2, <3>3, <3>4 DEF RankInv
    <3>7. RankTypes' /\ RankFits(s, P, E)'
      BY <2>3, <3>2, <3>3, <3>4, <3>6, RankStep
    <3>8. /\ s = Scores' /\ P = Scored' /\ E = Enough'
      BY <3>1, <3>2, <3>3, <3>4, ScoresStay
    <3>9. RankFits(Scores, Scored, Enough)'  BY <3>7, <3>8 DEF RankFits
    <3>10. Res!RankingIsComplete'
      <4>1. CASE Res!Rank  BY <2>1, <4>1, RankCompletes
      <4>2. CASE ~Res!Rank
        <5>1. phase' # "ranked"
          BY <2>3, <4>2 DEF Res!Next, Res!Start, Res!Evaluate, Res!GetResults, Res!Report,
                            Res!WriteTmp, Res!Rename, Res!SaveFails, Res!Crash
        <5> QED  BY <5>1 DEF Res!RankingIsComplete
      <4> QED  BY <4>1, <4>2
    <3> QED  BY <3>7, <3>9, <3>10 DEF RankInv
  <2> QED  BY <2>1, <2>2, <2>3, RankActs
<1>3. Ranked => RankingIsComplete  BY DEF RankInv, RankingIsComplete
<1> QED  BY <1>1, <1>2, <1>3, PTL DEF Spec

-----------------------------------------------------------------------------
(* The walk-forward windows.                                               *)

LEMMA RoundedDown ==
    ASSUME NEW a \in Nat, NEW n \in Nat \ {0}
    PROVE  a \div n \in Nat /\ n * (a \div n) \in Nat /\ n * (a \div n) <= a
           /\ a - n * (a \div n) < n
<1>1. a = n * (a \div n) + (a % n) /\ a % n \in 0 .. n - 1 /\ a \div n \in Nat
  OBVIOUS
<1>2. n * (a \div n) \in Nat  BY <1>1
<1> QED  BY <1>1, <1>2

LEMMA LowerOfTwo ==
    ASSUME NEW a \in Int, NEW b \in Int
    PROVE  Eval!Min({a, b}) = IF a < b THEN a ELSE b
<1> DEFINE m == IF a < b THEN a ELSE b
<1>1. m \in {a, b} /\ \A y \in {a, b} : m <= y  OBVIOUS
<1>2. \A x \in {a, b} : (\A y \in {a, b} : x <= y) => x = m  OBVIOUS
<1> QED  BY <1>1, <1>2 DEF Eval!Min

(* Between any two bounds and for any number of windows.                   *)
Tiles(W, total, start, n) ==
    /\ DOMAIN W = 0 .. n - 1
    /\ \A w \in 0 .. n - 1 :
           /\ start <= W[w].isStart
           /\ W[w].isStart < W[w].isEnd
           /\ W[w].isEnd < W[w].oosEnd
           /\ w > 0 => W[w].isEnd = W[w - 1].oosEnd
           /\ W[w].oosEnd - W[w].isEnd = W[0].oosEnd - W[0].isEnd
    /\ W[n - 1].oosEnd <= total
    /\ total - W[n - 1].oosEnd < n

LEMMA WindowsLaidOut ==
    ASSUME NEW total \in Nat, NEW start \in Int, NEW n \in Nat \ {0}, NEW scheme,
           Eval!HasWindows(total, start, n),
           NEW W, W = Eval!ComputeWindows(total, start, scheme, n)
    PROVE  Tiles(W, total, start, n)
<1>1. PICK usable : usable = total - start  OBVIOUS
<1>2. PICK region : region = Eval!OosRegion(usable)  OBVIOUS
<1>3. PICK step : step = region \div n  OBVIOUS
<1>4. usable \in Nat /\ usable >= 2 * n  BY <1>1 DEF Eval!HasWindows
<1>5. region \in Nat /\ region < usable
  <2>1. usable * OosShare[1] \in Nat  BY <1>4, WindowsAssumption
  <2>2. region \in Nat
    <3>1. PICK x : x = usable * OosShare[1]  OBVIOUS
    <3>2. x \in Nat /\ OosShare[2] \in Nat \ {0}  BY <2>1, <3>1, WindowsAssumption
    <3>3. x \div OosShare[2] \in Nat  BY <3>2, RoundedDown
    <3> QED  BY <1>2, <3>1, <3>3 DEF Eval!OosRegion
  <2> QED  BY <1>1, <1>2, <2>2 DEF Eval!HasWindows
<1>6. /\ step \in Nat \ {0} /\ n * step \in Nat /\ n * step <= region /\ region - n * step < n
  <2>1. step >= 1  BY <1>1, <1>2, <1>3 DEF Eval!HasWindows, Eval!OosStep
  <2> QED  BY <1>3, <1>5, <2>1, RoundedDown
<1> DEFINE isEnd(w) == start + (usable - region) + w * step
           isStart(w) == IF scheme = "anchored" THEN start ELSE start + w * step
<1>7. W = [w \in 0 .. n - 1 |->
              [isStart |-> isStart(w), isEnd |-> isEnd(w),
               oosEnd |-> Eval!Min({isEnd(w) + step, total})]]
  BY <1>1, <1>2, <1>3 DEF Eval!ComputeWindows, Eval!OosStep
<1>8. ASSUME NEW w \in 0 .. n - 1
      PROVE  /\ w * step \in Nat /\ w * step + step = (w + 1) * step /\ w * step + step <= n * step
  <2>1. w * step \in Nat /\ w * step + step = (w + 1) * step  BY <1>6
  <2>2. (w + 1) * step <= n * step
    <3>1. PICK d \in Nat : n = (w + 1) + d  
      <4>1. n - (w + 1) \in Nat /\ n = (w + 1) + (n - (w + 1))  OBVIOUS
      <4> QED  BY <4>1
    <3>2. n * step = (w + 1) * step + d * step /\ d * step \in Nat /\ (w + 1) * step \in Nat
      BY <1>6, <3>1
    <3> QED  BY <3>2
  <2> QED  BY <2>1, <2>2
<1>9. ASSUME NEW w \in 0 .. n - 1
      PROVE  /\ W[w].isEnd = start + (usable - region) + w * step
             /\ W[w].oosEnd = start + (usable - region) + w * step + step
             /\ W[w].isStart = isStart(w)
  <2>1. isEnd(w) + step \in Int /\ isEnd(w) + step <= total  BY <1>1, <1>4, <1>5, <1>6, <1>8
  <2>2. Eval!Min({isEnd(w) + step, total}) = isEnd(w) + step
    <3> HIDE DEF isEnd
    <3>1. Eval!Min({isEnd(w) + step, total})
              = IF isEnd(w) + step < total THEN isEnd(w) + step ELSE total
      BY <2>1, LowerOfTwo
    <3> QED  BY <2>1, <3>1
  <2> QED  BY <1>7, <2>2
<1>10. n - 1 \in 0 .. n - 1 /\ 0 \in 0 .. n - 1 /\ (n - 1) * step + step = n * step
  BY <1>6
<1>11. ASSUME NEW w \in 0 .. n - 1
       PROVE  /\ start <= W[w].isStart
              /\ W[w].isStart < W[w].isEnd
              /\ W[w].isEnd < W[w].oosEnd
              /\ w > 0 => W[w].isEnd = W[w - 1].oosEnd
              /\ W[w].oosEnd - W[w].isEnd = W[0].oosEnd - W[0].isEnd
  <2>1. w * step \in Nat  BY <1>8
  <2>2. start <= W[w].isStart /\ W[w].isStart < W[w].isEnd  BY <1>5, <1>4, <1>9, <2>1
  <2>3. W[w].isEnd < W[w].oosEnd  BY <1>4, <1>5, <1>6, <1>9, <2>1
  <2>4. ASSUME w > 0 PROVE W[w].isEnd = W[w - 1].oosEnd
    <3>1. w - 1 \in 0 .. n - 1  BY <2>4
    <3>2. (w - 1) * step + step = w * step /\ (w - 1) * step \in Nat  BY <1>6, <2>4
    <3> QED  BY <1>4, <1>5, <1>6, <1>9, <2>1, <3>1, <3>2
  <2>5. W[w].oosEnd - W[w].isEnd = step  BY <1>4, <1>5, <1>6, <1>9, <2>1
  <2>6. W[0].oosEnd - W[0].isEnd = step
    <3>1. 0 * step \in Nat  BY <1>6
    <3> QED  BY <1>4, <1>5, <1>6, <1>9, <1>10, <3>1
  <2> QED  BY <2>2, <2>3, <2>4, <2>5, <2>6
<1>12. W[n - 1].oosEnd = start + (usable - region) + n * step
  <2>1. (n - 1) * step \in Nat  BY <1>8, <1>10
  <2> QED  BY <1>4, <1>5, <1>6, <1>9, <1>10, <2>1
<1>13. W[n - 1].oosEnd <= total /\ total - W[n - 1].oosEnd < n
  BY <1>1, <1>4, <1>5, <1>6, <1>12
<1>14. DOMAIN W = 0 .. n - 1  BY <1>7
<1> QED  BY <1>11, <1>13, <1>14 DEF Tiles

(* The loaded bars are numbered, and a run starts at one of them.          *)
LEMMA BarsAreNumbered ==
    ASSUME NEW bars, NEW f \in Eval!Fields
    PROVE  DOMAIN Eval!Columns(bars)[f] = 0 .. Len(bars) - 1
  BY DEF Eval!Columns

LEMMA ResFinite == \A S : Eval!Cardinality(S) = Cardinality(S)
<1>1. \A S : Eval!IsFiniteSet(S) <=> IsFiniteSet(S)
  BY DEF Eval!IsFiniteSet, IsFiniteSet
<1> QED  BY <1>1 DEF Eval!Cardinality, Cardinality

LEMMA LoadedRun ==
    ASSUME NEW bars, NEW deps, NEW from, NEW to,
           NEW bundle, bundle = Eval!Load(bars, deps, from, to)
    PROVE  Eval!Size(bundle) \in Nat /\ bundle.start \in Int
<1>1. PICK seq : seq = Eval!Between(bars, from - WarmupBars, to)  OBVIOUS
<1>2. PICK base : base = Eval!Columns(seq)  OBVIOUS
<1>3. bundle.base = base /\ bundle.start = Eval!StartBar(base.ts, from)
  BY <1>1, <1>2 DEF Eval!Load
<1>4. PICK n \in Int : n = Len(seq) - 1
  <2>1. Len(seq) \in Nat  BY <1>1 DEF Eval!Between
  <2> QED  BY <2>1
<1>5. DOMAIN base["close"] = 0 .. n /\ DOMAIN base["ts"] = 0 .. n
  <2>1. "close" \in Eval!Fields /\ "ts" \in Eval!Fields  BY DEF Eval!Fields
  <2> QED  BY <1>2, <1>4, <2>1, BarsAreNumbered
<1>6. IsFiniteSet(0 .. n) /\ Cardinality(0 .. n) \in Nat
  <2>1. IsFiniteSet(0 .. n)  BY FS_Interval
  <2> QED  BY <2>1, FS_CardinalityType
<1>7. Eval!Size(bundle) \in Nat  BY <1>3, <1>5, <1>6, ResFinite DEF Eval!Size
<1>8. bundle.start \in Int
  <2> DEFINE traded == {i \in DOMAIN base["ts"] : base["ts"][i] >= from}
  <2>1. CASE traded = {}  BY <1>3, <2>1 DEF Eval!StartBar
  <2>2. CASE traded # {}
    <3>1. PICK s : s = [i \in 0 .. n |-> 0]  OBVIOUS
    <3>2. PICK T : T = traded  OBVIOUS
    <3>3. T \in SUBSET (0 .. n) /\ T # {}  BY <1>5, <2>2, <3>2
    <3>4. Rankable(s, T)
      <4>1. IsFiniteSet(T)  BY <1>6, <3>3, FS_Subset
      <4>2. \A i \in T : i \in Int /\ s[i] \in Int  BY <3>1, <3>3
      <4> QED  BY <4>1, <4>2 DEF Rankable
    <3>5. PICK m \in T : Above(s, T, m) = {}  BY <3>3, <3>4, HasFirst
    <3>6. \A y \in T : m <= y  BY <3>1, <3>3, <3>5 DEF Above, Outranks
    <3>7. Eval!Min(T) \in T  BY <3>5, <3>6 DEF Eval!Min
    <3> QED  BY <1>3, <2>2, <3>2, <3>3, <3>7 DEF Eval!StartBar
  <2> QED  BY <2>1, <2>2
<1> QED  BY <1>7, <1>8

LEMMA EvaluateActs ==
    ASSUME [Next]_vars, part = "evaluate"
    PROVE  Eval!Arrive \/ UNCHANGED evaluating
  BY DEF Next, vars, Editing, Breeding, Evaluating, Ranking

(* The walk-forward windows of a run lie in its data, each fits a past     *)
(* before a future, and the futures follow each other without gap or       *)
(* overlap, whatever the market, the warm-up, the start, the share out of  *)
(* sample and the number of windows are (computeWindows of                 *)
(* optimizer/walk-forward.js).                                             *)
THEOREM WindowsTileHolds == Spec => []WindowsTile
<1> DEFINE Running == part = "evaluate" => gene \in RunSetups
<1>1. Init => Running  BY DEF Init, Eval!Init
<1>2. Running /\ [Next]_vars => Running'
  BY SamePart, EvaluateActs DEF Eval!Arrive, evaluating
<1>3. Running => WindowsTile
  <2> SUFFICES ASSUME gene \in RunSetups PROVE Eval!WindowsTile
    BY DEF WindowsTile
  <2>1. PICK bundle : bundle = Eval!Run(market)  OBVIOUS
  <2>2. PICK windows : windows = Eval!Windows(bundle)  OBVIOUS
  <2>3. PICK n \in Nat \ {0} : n = gene.nWindows  BY WindowsAssumption
  <2>4. PICK scheme : scheme = gene.scheme  OBVIOUS
  <2>5. Eval!Size(bundle) \in Nat /\ bundle.start \in Int
    <3>1. PICK bars : bars = market  OBVIOUS
    <3>2. PICK deps : deps = Eval!CollectDeps(gene.worst)  OBVIOUS
    <3>3. PICK from : from = gene.from  OBVIOUS
    <3>4. PICK to : to = gene.to  OBVIOUS
    <3>5. bundle = Eval!Load(bars, deps, from, to)
      BY <2>1, <3>1, <3>2, <3>3, <3>4 DEF Eval!Run
    <3> QED  BY <3>5, LoadedRun
  <2>6. PICK total \in Nat : total = Eval!Size(bundle)  BY <2>5
  <2>7. PICK start \in Int : start = bundle.start  BY <2>5
  <2>8. ASSUME windows # << >>
        PROVE  Tiles(windows, total, start, n)
    <3>1. /\ Eval!HasWindows(total, start, n)
          /\ windows = Eval!ComputeWindows(total, start, scheme, n)
      BY <2>2, <2>3, <2>4, <2>6, <2>7, <2>8 DEF Eval!Windows
    <3> QED  BY <3>1, WindowsLaidOut
  <2> QED  BY <2>1, <2>2, <2>3, <2>6, <2>7, <2>8 DEF Eval!WindowsTile, Tiles
<1> QED  BY <1>1, <1>2, <1>3, PTL DEF Spec

-----------------------------------------------------------------------------
(* The genes of an island.                                                 *)

LEMMA RoundedDownOrder ==
    ASSUME NEW a \in Nat, NEW b \in Nat, a <= b, NEW n \in Nat \ {0}
    PROVE  a \div n <= b \div n
<1> DEFINE q == a \div n
           r == b \div n
<1>1. /\ q \in Nat /\ n * q \in Nat /\ n * q <= a
      /\ r \in Nat /\ n * r \in Nat /\ b - n * r < n
  BY RoundedDown
<1> SUFFICES ASSUME q >= r + 1 PROVE FALSE  BY <1>1
<1>2. q - r - 1 \in Nat  BY <1>1
<1>3. n * (q - r - 1) \in Nat  
  <2> HIDE DEF q, r
  <2> QED BY <1>2
<1>4. n * (q - r - 1) = n * q - n * r - n  
  <2> HIDE DEF q, r
  <2> QED BY <1>1
<1> HIDE DEF q, r
<1> QED  BY <1>1, <1>3, <1>4

LEMMA MultipleRoundedDown ==
    ASSUME NEW k \in Nat, NEW n \in Nat \ {0}
    PROVE  k * n \in Nat /\ (k * n) \div n = k
<1>1. k * n \in Nat  OBVIOUS
<1> DEFINE q == (k * n) \div n
<1>2. q \in Nat /\ n * q \in Nat /\ n * q <= k * n /\ k * n - n * q < n
  BY <1>1, RoundedDown
<1> HIDE DEF q
<1>3. ~(q > k)
  <2> SUFFICES ASSUME q > k PROVE FALSE  OBVIOUS
  <2>1. q - k - 1 \in Nat  BY <1>2
  <2>2. n * (q - k - 1) \in Nat  BY <2>1
  <2>3. n * (q - k - 1) = n * q - k * n - n  BY <1>2
  <2> QED  BY <1>1, <1>2, <2>2, <2>3
<1>4. ~(q < k)
  <2> SUFFICES ASSUME q < k PROVE FALSE  OBVIOUS
  <2>1. k - q - 1 \in Nat  BY <1>2
  <2>2. n * (k - q - 1) \in Nat  BY <2>1
  <2>3. n * (k - q - 1) = k * n - n * q - n  BY <1>2
  <2> QED  BY <1>1, <1>2, <2>2, <2>3
<1>5. q = k  BY <1>2, <1>3, <1>4
<1> QED  BY <1>1, <1>5 DEF q

LEMMA RoundToIsInt ==
    ASSUME NEW v \in Int, NEW u \in Nat \ {0}
    PROVE  Island!RoundTo(v, u) \in Int
<1>1. 2 * v + u \in Int /\ 2 * u \in Nat \ {0}  OBVIOUS
<1>2. (2 * v + u) \div (2 * u) \in Int  BY <1>1, Quotient
<1> QED  BY <1>2, Product DEF Island!RoundTo

(* roundToStep of a clamped value is a value that randomParam may draw.    *)
LEMMA ClampOnGrid ==
    ASSUME NEW p, Island!IsParam(p), NEW v \in Int
    PROVE  Island!Clamp(v, p) \in Island!RandomParam(p)
<1> DEFINE c == IF v < p.min THEN p.min ELSE IF v > p.max THEN p.max ELSE v
           k == (2 * (c - p.min) + p.step) \div (2 * p.step)
           last == (2 * (p.max - p.min) + p.step) \div (2 * p.step)
<1>1. p.min \in Int /\ p.max \in Int /\ p.min <= p.max /\ p.step \in Nat \ {0} /\ p.unit \in Nat \ {0}
  BY DEF Island!IsParam
<1>2. c \in Int /\ p.min <= c /\ c <= p.max  BY <1>1
<1>3. k \in Nat /\ last \in Nat /\ k <= last
  <2> HIDE DEF c
  <2>1. /\ 2 * (c - p.min) + p.step \in Nat /\ 2 * (p.max - p.min) + p.step \in Nat
        /\ 2 * (c - p.min) + p.step <= 2 * (p.max - p.min) + p.step
        /\ 2 * p.step \in Nat \ {0}
    BY <1>1, <1>2
  <2> QED  BY <2>1, RoundedDown, RoundedDownOrder
<1>4. /\ Island!RoundTo(c - p.min, p.step) = k * p.step
      /\ Island!RoundTo(p.max - p.min, p.step) = last * p.step
  <2> HIDE DEF c
  <2> QED  BY DEF Island!RoundTo
<1>5. Island!Clamp(v, p) = Island!RoundTo(k * p.step + p.min, p.unit)
  BY <1>4 DEF Island!Clamp
<1> HIDE DEF c, k, last
<1>6. Island!RoundTo(p.max - p.min, p.step) \div p.step = last
  BY <1>1, <1>3, <1>4, MultipleRoundedDown
<1>7. k * p.step + p.min = p.min + k * p.step
  <2>1. k * p.step \in Int  BY <1>1, <1>3
  <2> QED  BY <1>1, <2>1
<1> QED  BY <1>3, <1>5, <1>6, <1>7 DEF Island!RandomParam

LEMMA GridIsInt ==
    ASSUME NEW p, Island!IsParam(p)
    PROVE  Island!RandomParam(p) \subseteq Int
<1>1. p.min \in Int /\ p.max \in Int /\ p.step \in Nat \ {0} /\ p.unit \in Nat \ {0}
  BY DEF Island!IsParam
<1>2. ASSUME NEW k \in Int PROVE Island!RoundTo(p.min + k * p.step, p.unit) \in Int
  <2>1. k * p.step \in Int  BY <1>1, <1>2
  <2> QED  BY <1>1, <2>1, RoundToIsInt
<1> QED  BY <1>2 DEF Island!RandomParam

(* A space with its constraints and masks.                                 *)
IsSpace(ps, cs, masks) ==
    /\ \A x \in DOMAIN ps : Island!IsParam(ps[x])
    /\ Len(cs) \in Nat /\ DOMAIN cs = 1 .. Len(cs)
    /\ \A n \in DOMAIN cs : Island!IsConstraint(ps, cs[n])
    /\ \A m \in masks : DOMAIN m \subseteq DOMAIN ps /\ \A x \in DOMAIN m : m[x] \in Int

Allowed(ps, masks, x) ==
    Island!RandomParam(ps[x]) \union {m[x] : m \in {n \in masks : x \in DOMAIN n}}

LEMMA GenesAreAllowed ==
    ASSUME NEW ps, NEW masks
    PROVE  \A g : g \in Island!GenesOf(ps, masks)
                    <=> /\ g = [x \in DOMAIN ps |-> g[x]]
                        /\ \A x \in DOMAIN ps : g[x] \in Allowed(ps, masks, x)
<1> DEFINE all == UNION {Allowed(ps, masks, x) : x \in DOMAIN ps}
<1>1. Island!GenesOf(ps, masks) = {g \in [DOMAIN ps -> all] : \A x \in DOMAIN ps : g[x] \in Allowed(ps, masks, x)}
  BY DEF Island!GenesOf, Allowed
<1>2. \A x \in DOMAIN ps : Allowed(ps, masks, x) \subseteq all  OBVIOUS
<1> HIDE DEF all
<1> QED  BY <1>1, <1>2

LEMMA AllowedIsInt ==
    ASSUME NEW ps, NEW cs, NEW masks, IsSpace(ps, cs, masks), NEW x \in DOMAIN ps
    PROVE  Allowed(ps, masks, x) \subseteq Int
  BY GridIsInt DEF Allowed, IsSpace

LEMMA ClampedGene ==
    ASSUME NEW ps, NEW cs, NEW masks, IsSpace(ps, cs, masks),
           NEW g \in Island!GenesOf(ps, masks), NEW x \in DOMAIN ps, NEW v \in Int
    PROVE  [g EXCEPT ![x] = Island!Clamp(v, ps[x])] \in Island!GenesOf(ps, masks)
<1> DEFINE h == [g EXCEPT ![x] = Island!Clamp(v, ps[x])]
<1>1. g = [y \in DOMAIN ps |-> g[y]] /\ \A y \in DOMAIN ps : g[y] \in Allowed(ps, masks, y)
  BY GenesAreAllowed
<1>2. Island!Clamp(v, ps[x]) \in Allowed(ps, masks, x)
  <2>1. Island!IsParam(ps[x])  BY DEF IsSpace
  <2> QED  BY <2>1, ClampOnGrid DEF Allowed
<1>3. h = [y \in DOMAIN ps |-> h[y]]  BY <1>1
<1>4. \A y \in DOMAIN ps : h[y] \in Allowed(ps, masks, y)  BY <1>1, <1>2
<1> HIDE DEF h
<1>5. h \in Island!GenesOf(ps, masks)  BY <1>3, <1>4, GenesAreAllowed
<1> QED  BY <1>5 DEF h

LEMMA ShiftsAreInt ==
    ASSUME NEW a \in Int, NEW b \in Int, NEW step \in Int,
           NEW op \in {"<", "<=", ">", ">=", "!="}
    PROVE  Island!ShiftLhs(a, b, op, step) \in Int /\ Island!ShiftRhs(a, b, op, step) \in Int
  BY DEF Island!ShiftLhs, Island!ShiftRhs, Island!Lower, Island!Higher

LEMMA RepairFits ==
    ASSUME NEW ps, NEW cs, NEW masks, IsSpace(ps, cs, masks),
           NEW n \in 1 .. Len(cs), NEW g \in Island!GenesOf(ps, masks)
    PROVE  Island!Repair(ps, g, cs[n]) \in Island!GenesOf(ps, masks)
<1> DEFINE c == cs[n]
<1>1. Island!IsConstraint(ps, c)  BY DEF IsSpace
<1> HIDE DEF c
<1>2. \A x \in DOMAIN ps : g[x] \in Int /\ ps[x].step \in Int
  <2> TAKE x \in DOMAIN ps
  <2>1. g[x] \in Allowed(ps, masks, x)  BY GenesAreAllowed
  <2>2. Allowed(ps, masks, x) \subseteq Int  BY AllowedIsInt
  <2>3. ps[x].step \in Int  BY DEF IsSpace, Island!IsParam
  <2> QED  BY <2>1, <2>2, <2>3
<1>3. DOMAIN g = DOMAIN ps  BY GenesAreAllowed
<1>4. ASSUME c.form = "spec", Island!Sides(c) \subseteq DOMAIN g
      PROVE  Island!RepairSpec(ps, g, c) \in Island!GenesOf(ps, masks)
  <2>0. c.lhs \in DOMAIN ps  BY <1>3, <1>4 DEF Island!Sides
  <2>1. c.op \in {"<", "<=", ">", ">=", "!="} /\ c.literal \in BOOLEAN
        /\ IF c.literal THEN c.rhs \in Int ELSE c.rhs \in DOMAIN ps
    BY <1>1, <1>3, <1>4 DEF Island!IsConstraint, Island!Sides
  <2>2. Island!Rhs(g, c) \in Int  BY <1>2, <2>1 DEF Island!Rhs
  <2>3. Island!ShiftLhs(g[c.lhs], Island!Rhs(g, c), c.op, ps[c.lhs].step) \in Int
    BY <1>2, <2>0, <2>1, <2>2, ShiftsAreInt
  <2>4. [g EXCEPT ![c.lhs] = Island!Clamp(Island!ShiftLhs(g[c.lhs], Island!Rhs(g, c), c.op, ps[c.lhs].step), ps[c.lhs])]
           \in Island!GenesOf(ps, masks)
    BY <2>0, <2>3, ClampedGene
  <2>5. ASSUME ~c.literal
        PROVE  [g EXCEPT ![c.rhs] = Island!Clamp(Island!ShiftRhs(g[c.rhs], g[c.lhs], c.op, ps[c.rhs].step), ps[c.rhs])]
                  \in Island!GenesOf(ps, masks)
    <3>1. c.rhs \in DOMAIN ps  BY <2>1, <2>5
    <3>2. Island!ShiftRhs(g[c.rhs], g[c.lhs], c.op, ps[c.rhs].step) \in Int
      BY <1>2, <2>0, <2>1, <3>1, ShiftsAreInt
    <3> QED  BY <3>1, <3>2, ClampedGene
  <2> QED  BY <2>4, <2>5 DEF Island!RepairSpec
<1>5. CASE c.form = "order"
  <2>1. c.lhs \in DOMAIN ps /\ c.rhs \in DOMAIN ps /\ c.margin \in Int
    BY <1>1, <1>5 DEF Island!IsConstraint
  <2>2. g[c.lhs] + c.margin \in Int  BY <1>2, <2>1
  <2>3. [g EXCEPT ![c.rhs] = Island!Clamp(g[c.lhs] + c.margin, ps[c.rhs])] \in Island!GenesOf(ps, masks)
    BY <2>1, <2>2, ClampedGene
  <2>4. Island!RepairOrder(ps, g, c) \in Island!GenesOf(ps, masks)
    BY <2>3 DEF Island!RepairOrder
  <2> QED  BY <1>5, <2>4 DEF Island!Repair, c
<1>6. CASE c.form = "sum"
  <2>1. c.lhs \in DOMAIN ps /\ c.rhs \in DOMAIN ps /\ c.limit \in Int
    BY <1>1, <1>6 DEF Island!IsConstraint
  <2>2. c.limit - g[c.lhs] \in Int  BY <1>2, <2>1
  <2>3. [g EXCEPT ![c.rhs] = Island!Clamp(c.limit - g[c.lhs], ps[c.rhs])] \in Island!GenesOf(ps, masks)
    BY <2>1, <2>2, ClampedGene
  <2>4. Island!RepairSum(ps, g, c) \in Island!GenesOf(ps, masks)
    BY <2>3 DEF Island!RepairSum
  <2> QED  BY <1>6, <2>4 DEF Island!Repair, c
<1>7. CASE c.form = "spec"
  <2>1. Island!RepairSpec(ps, g, c) \in Island!GenesOf(ps, masks)
    BY <1>4, <1>7 DEF Island!RepairSpec
  <2> QED  BY <1>7, <2>1 DEF Island!Repair, c
<1> QED  BY <1>1, <1>5, <1>6, <1>7 DEF Island!IsConstraint

(* The smallest of some natural numbers.                                   *)
LEMMA HasSmallest ==
    ASSUME NEW n \in Nat, NEW S \in SUBSET (0 .. n), S # {}
    PROVE  \E k \in S : \A h \in S : k <= h
<1> DEFINE s == [k \in S |-> 0]
<1>1. IsFiniteSet(S)  
  <2>1. IsFiniteSet(0 .. n)  BY FS_Interval
  <2> QED  BY <2>1, FS_Subset
<1>2. Rankable(s, S)  BY <1>1 DEF Rankable
<1>3. PICK k \in S : Above(s, S, k) = {}
  <2> HIDE DEF s
  <2> QED  BY <1>2, HasFirst
<1>4. ASSUME NEW h \in S PROVE k <= h
  <2>1. ~Outranks(s, h, k)  BY <1>3, <1>4 DEF Above
  <2> QED  BY <2>1, <1>4 DEF Outranks
<1> QED  BY <1>4

(* enforceConstraints is defined for every list of constraints, and what   *)
(* it makes of a gene of the space is one.                                 *)
PassTo(ps, cs, g, k, f) ==
    f = [n \in 0 .. k |-> IF n = 0 THEN g ELSE Island!Repair(ps, f[n - 1], cs[n])]

LEMMA PassExists ==
    ASSUME NEW ps, NEW cs, NEW g, Len(cs) \in Nat
    PROVE  \E f : PassTo(ps, cs, g, Len(cs), f)
<1> DEFINE Bad == {k \in 0 .. Len(cs) : ~ \E f : PassTo(ps, cs, g, k, f)}
<1> SUFFICES ASSUME Bad # {} PROVE FALSE  OBVIOUS
<1>1. PICK k \in Bad : \A h \in Bad : k <= h
  <2>1. Bad \in SUBSET (0 .. Len(cs))  OBVIOUS
  <2> HIDE DEF Bad
  <2> QED  BY <2>1, HasSmallest
<1>2. k \in 0 .. Len(cs) /\ ~ \E f : PassTo(ps, cs, g, k, f)  OBVIOUS
<1>3. CASE k = 0
  <2> DEFINE f == [n \in 0 .. 0 |-> g]
  <2>1. f = [n \in 0 .. 0 |-> IF n = 0 THEN g ELSE Island!Repair(ps, f[n - 1], cs[n])]  OBVIOUS
  <2>2. PassTo(ps, cs, g, 0, f)  BY <2>1 DEF PassTo
  <2> HIDE DEF f
  <2> QED  BY <1>2, <1>3, <2>2
<1>4. CASE k # 0
  <2>1. k - 1 \in 0 .. Len(cs)  BY <1>2, <1>4
  <2>2. PICK f : PassTo(ps, cs, g, k - 1, f)
    <3>1. k - 1 \notin Bad
      <4> HIDE DEF Bad
      <4> QED  BY <1>1, <1>2, <2>1
    <3> QED  BY <2>1, <3>1
  <2> DEFINE r == Island!Repair(ps, f[k - 1], cs[k])
             h == [n \in 0 .. k |-> IF n = k THEN r ELSE f[n]]
  <2>3. ASSUME NEW n \in 0 .. k
        PROVE  h[n] = IF n = 0 THEN g ELSE Island!Repair(ps, h[n - 1], cs[n])
    <3>1. n # 0 => h[n - 1] = f[n - 1]  BY <2>1, <2>3
    <3>2. n # k => h[n] = f[n] /\ f[n] = IF n = 0 THEN g ELSE Island!Repair(ps, f[n - 1], cs[n])
      BY <2>1, <2>2, <2>3 DEF PassTo
    <3>3. n = k => h[n] = r /\ n # 0  BY <2>1, <2>3
    <3> QED  BY <3>1, <3>2, <3>3
  <2>4. h = [n \in 0 .. k |-> h[n]]  OBVIOUS
  <2> HIDE DEF h, r
  <2>5. PassTo(ps, cs, g, k, h)  BY <2>3, <2>4 DEF PassTo
  <2> QED  BY <1>2, <2>5
<1> QED  BY <1>3, <1>4

LEMMA EnforceIsAPass ==
    ASSUME NEW ps, NEW cs, NEW g, Len(cs) \in Nat
    PROVE  \E f : PassTo(ps, cs, g, Len(cs), f) /\ Island!Enforce(ps, cs, g) = f[Len(cs)]
<1> DEFINE pass == CHOOSE f : PassTo(ps, cs, g, Len(cs), f)
<1>1. PICK f : PassTo(ps, cs, g, Len(cs), f)
  BY PassExists
<1>2. PassTo(ps, cs, g, Len(cs), pass)  BY <1>1
<1>3. Island!Enforce(ps, cs, g) = pass[Len(cs)]  BY DEF Island!Enforce, PassTo
<1> QED  BY <1>2, <1>3

LEMMA StagesFit ==
    ASSUME NEW ps, NEW cs, NEW masks, IsSpace(ps, cs, masks), NEW g \in Island!GenesOf(ps, masks),
           NEW pass, PassTo(ps, cs, g, Len(cs), pass)
    PROVE  \A n \in 0 .. Len(cs) : pass[n] \in Island!GenesOf(ps, masks)
<1>0. Len(cs) \in Nat  BY DEF IsSpace
<1> DEFINE Bad == {n \in 0 .. Len(cs) : pass[n] \notin Island!GenesOf(ps, masks)}
<1>4. ASSUME Bad # {} PROVE FALSE
  <2>1. PICK k \in Bad : \A h \in Bad : k <= h
    <3>1. Bad \in SUBSET (0 .. Len(cs))  OBVIOUS
    <3> HIDE DEF Bad
    <3> QED  BY <1>0, <1>4, <3>1, HasSmallest
  <2>2. k \in 0 .. Len(cs) /\ pass[k] \notin Island!GenesOf(ps, masks)  OBVIOUS
  <2>3. pass[k] = IF k = 0 THEN g ELSE Island!Repair(ps, pass[k - 1], cs[k])
    BY <2>2 DEF PassTo
  <2>4. k # 0  BY <2>2, <2>3
  <2>5. k - 1 \in 0 .. Len(cs) /\ k \in 1 .. Len(cs)  BY <1>0, <2>2, <2>4
  <2>6. pass[k - 1] \in Island!GenesOf(ps, masks)
    <3>1. k - 1 \notin Bad
      <4> HIDE DEF Bad
      <4> QED  BY <1>0, <2>1, <2>2, <2>5
    <3> QED  BY <2>5, <3>1
  <2>7. Island!Repair(ps, pass[k - 1], cs[k]) \in Island!GenesOf(ps, masks)
    BY <2>5, <2>6, RepairFits
  <2> QED  BY <2>2, <2>3, <2>4, <2>7
<1> QED  BY <1>4

LEMMA EnforceFits ==
    ASSUME NEW ps, NEW cs, NEW masks, IsSpace(ps, cs, masks), NEW g \in Island!GenesOf(ps, masks)
    PROVE  Island!Enforce(ps, cs, g) \in Island!GenesOf(ps, masks)
<1>1. Len(cs) \in Nat  BY DEF IsSpace
<1>2. PICK f : PassTo(ps, cs, g, Len(cs), f) /\ Island!Enforce(ps, cs, g) = f[Len(cs)]
  BY <1>1, EnforceIsAPass
<1>3. \A n \in 0 .. Len(cs) : f[n] \in Island!GenesOf(ps, masks)  BY <1>2, StagesFit
<1> QED  BY <1>1, <1>2, <1>3

(* A constraint that one pass settles is satisfied by its own repair and   *)
(* stays so while the later ones are repaired.                             *)
LEMMA EnforceSettles ==
    ASSUME NEW ps, NEW cs, IsSpace(ps, cs, {Island!NoMask}),
           NEW g \in Island!GenesOf(ps, {Island!NoMask}), NEW n \in Island!SettledOf(ps, cs)
    PROVE  Island!Satisfied(Island!Enforce(ps, cs, g), cs[n])
<1> DEFINE genes == Island!GenesOf(ps, {Island!NoMask})
<1>0. Len(cs) \in Nat /\ DOMAIN cs = 1 .. Len(cs)  BY DEF IsSpace
<1>1. n \in 1 .. Len(cs) /\ Island!Settled(ps, cs, n)  BY <1>0 DEF Island!SettledOf
<1>2. /\ \A h \in genes : Island!Satisfied(Island!Repair(ps, h, cs[n]), cs[n])
      /\ \A m \in n + 1 .. Len(cs) : \A h \in genes :
             Island!Satisfied(h, cs[n]) => Island!Satisfied(Island!Repair(ps, h, cs[m]), cs[n])
  BY <1>1 DEF Island!Settled, Island!NoMask
<1>3. PICK f : PassTo(ps, cs, g, Len(cs), f) /\ Island!Enforce(ps, cs, g) = f[Len(cs)]
  BY <1>0, EnforceIsAPass
<1>4. \A k \in 0 .. Len(cs) : f[k] \in genes  BY <1>3, StagesFit
<1> HIDE DEF genes
<1>5. \A k \in 1 .. Len(cs) : f[k] = Island!Repair(ps, f[k - 1], cs[k]) /\ k - 1 \in 0 .. Len(cs)
  BY <1>0, <1>3 DEF PassTo
<1> DEFINE Bad == {k \in n .. Len(cs) : ~Island!Satisfied(f[k], cs[n])}
<1>6. ASSUME Bad # {} PROVE FALSE
  <2>1. PICK k \in Bad : \A h \in Bad : k <= h
    <3>1. Bad \in SUBSET (0 .. Len(cs))  BY <1>1
    <3> HIDE DEF Bad
    <3> QED  BY <1>0, <1>6, <3>1, HasSmallest
  <2>2. k \in n .. Len(cs) /\ k \in 1 .. Len(cs) /\ ~Island!Satisfied(f[k], cs[n])  BY <1>1
  <2>3. f[k - 1] \in genes /\ f[k] = Island!Repair(ps, f[k - 1], cs[k])  BY <1>4, <1>5, <2>2
  <2>4. k # n  BY <1>2, <2>2, <2>3
  <2>5. k \in n + 1 .. Len(cs) /\ k - 1 \in n .. Len(cs)  BY <1>0, <1>1, <2>2, <2>4
  <2>6. Island!Satisfied(f[k - 1], cs[n])
    <3>1. k - 1 \notin Bad
      <4>1. k \in Int /\ ~(k <= k - 1)  BY <2>5
      <4> HIDE DEF Bad
      <4> QED  BY <2>1, <4>1
    <3> QED  BY <2>5, <3>1
  <2> QED  BY <1>2, <2>2, <2>3, <2>5, <2>6
<1>7. Len(cs) \in n .. Len(cs)  BY <1>0, <1>1
<1> QED  BY <1>3, <1>6, <1>7

(* A grid whose values are not rounded once more: the unit divides them.   *)
OnUnit(p) ==
    /\ p.min \in Nat
    /\ \E a \in Nat, b \in Nat : p.min = a * p.unit /\ p.step = b * p.unit

LEMMA MultipleIsRound ==
    ASSUME NEW a \in Nat, NEW u \in Nat \ {0}
    PROVE  Island!RoundTo(a * u, u) = a * u
<1> DEFINE v == a * u
           q == (2 * v + u) \div (2 * u)
<1>1. v \in Nat /\ 2 * v + u \in Nat /\ 2 * u \in Nat \ {0}  OBVIOUS
<1>2. /\ q \in Nat /\ (2 * u) * q \in Nat /\ (2 * u) * q <= 2 * v + u
      /\ 2 * v + u - (2 * u) * q < 2 * u
  <2> HIDE DEF v
  <2>1. PICK x \in Nat : x = 2 * v + u  BY <1>1
  <2>2. PICK y \in Nat \ {0} : y = 2 * u  BY <1>1
  <2>3. q = x \div y  BY <2>1, <2>2
  <2>4. x \div y \in Nat /\ y * (x \div y) \in Nat /\ y * (x \div y) <= x /\ x - y * (x \div y) < y
    BY RoundedDown
  <2> HIDE DEF q
  <2>5. q \in Nat /\ y * q \in Nat /\ y * q <= x /\ x - y * q < y  BY <2>3, <2>4
  <2>6. PICK z : z = y * q  OBVIOUS
  <2>7. z = (2 * u) * q  BY <2>2, <2>6
  <2>8. q \in Nat /\ z \in Nat /\ z <= x /\ x - z < y  BY <2>5, <2>6
  <2>9. z <= 2 * v + u /\ 2 * v + u - z < 2 * u  BY <1>1, <2>1, <2>2, <2>8
  <2> QED  BY <2>7, <2>8, <2>9
<1> HIDE DEF q
<1>3. PICK w \in Nat : w = u * q
  <2>1. q \in Nat  BY <1>2
  <2> QED  BY <2>1
<1>4. (2 * u) * q = 2 * w  BY <1>2, <1>3
<1>5. ~(q >= a + 1)
  <2> SUFFICES ASSUME q >= a + 1 PROVE FALSE  OBVIOUS
  <2>1. u * (q - a - 1) \in Nat  BY <1>2
  <2>2. u * (q - a - 1) = w - v - u  BY <1>2, <1>3
  <2> HIDE DEF v
  <2> QED  BY <1>1, <1>2, <1>4, <2>1, <2>2
<1>6. ~(a >= q + 1)
  <2> SUFFICES ASSUME a >= q + 1 PROVE FALSE  OBVIOUS
  <2>1. u * (a - q - 1) \in Nat  BY <1>2
  <2>2. u * (a - q - 1) = v - w - u  BY <1>2, <1>3
  <2> HIDE DEF v
  <2> QED  BY <1>1, <1>2, <1>4, <2>1, <2>2
<1>7. q = a  BY <1>2, <1>5, <1>6
<1> QED  BY <1>7 DEF q, Island!RoundTo

(* A value of the grid is not rounded, and none is below the minimum.      *)
LEMMA GridIsExact ==
    ASSUME NEW p, Island!IsParam(p), OnUnit(p), NEW k \in Nat
    PROVE  /\ k * p.step \in Nat
           /\ Island!RoundTo(p.min + k * p.step, p.unit) = p.min + k * p.step
<1>1. p.step \in Nat \ {0} /\ p.unit \in Nat \ {0} /\ p.min \in Nat  BY DEF Island!IsParam, OnUnit
<1>2. PICK a \in Nat, b \in Nat : p.min = a * p.unit /\ p.step = b * p.unit  BY DEF OnUnit
<1>3. p.min + k * p.step = (a + k * b) * p.unit /\ a + k * b \in Nat
  BY <1>1, <1>2
<1>4. k * p.step \in Nat  BY <1>1
<1> QED  BY <1>1, <1>3, <1>4, MultipleIsRound

(* Clamp moves a value in the range down by at most half a step.           *)
LEMMA ClampIsNear ==
    ASSUME NEW p, Island!IsParam(p), OnUnit(p), NEW v \in p.min .. p.max
    PROVE  Island!Clamp(v, p) \in Int /\ 2 * Island!Clamp(v, p) > 2 * v - p.step
<1> DEFINE d == v - p.min
           k == (2 * d + p.step) \div (2 * p.step)
<1>1. /\ p.min \in Nat /\ p.max \in Int /\ p.step \in Nat \ {0} /\ v \in Int /\ d \in Nat
      /\ p.min <= v /\ v <= p.max
  BY DEF Island!IsParam, OnUnit
<1>2. /\ k \in Nat /\ (2 * p.step) * k \in Nat
      /\ 2 * d + p.step - (2 * p.step) * k < 2 * p.step
  <2> HIDE DEF d
  <2>2. PICK x \in Nat : x = 2 * d + p.step  BY <1>1
  <2>3. PICK y \in Nat \ {0} : y = 2 * p.step  BY <1>1
  <2>4. k = x \div y  BY <2>2, <2>3
  <2>5. x \div y \in Nat /\ y * (x \div y) \in Nat /\ x - y * (x \div y) < y
    BY RoundedDown
  <2> HIDE DEF k
  <2>6. k \in Nat /\ y * k \in Nat /\ x - y * k < y  BY <2>4, <2>5
  <2>7. PICK z : z = y * k  OBVIOUS
  <2>8. z = (2 * p.step) * k  BY <2>3, <2>7
  <2>9. k \in Nat /\ z \in Nat /\ x - z < y  BY <2>6, <2>7
  <2>10. 2 * d + p.step - z < 2 * p.step  BY <1>1, <2>2, <2>3, <2>9
  <2> QED  BY <2>8, <2>9, <2>10
<1>3. Island!Clamp(v, p) = Island!RoundTo(k * p.step + p.min, p.unit)
  BY <1>1 DEF Island!Clamp, Island!RoundTo
<1> HIDE DEF k
<1>4. k * p.step \in Nat /\ Island!RoundTo(p.min + k * p.step, p.unit) = p.min + k * p.step
  BY <1>2, GridIsExact
<1>5. Island!Clamp(v, p) = p.min + k * p.step
  BY <1>1, <1>3, <1>4
<1>6. PICK w \in Nat : w = k * p.step  BY <1>4
<1>7. (2 * p.step) * k = 2 * w  BY <1>1, <1>2, <1>6
<1> QED  BY <1>1, <1>2, <1>5, <1>6, <1>7

(* Where repair is certain: an ordering of two parameters that moves the   *)
(* larger one is satisfied after its repair, whatever the gene, if the     *)
(* larger one has room for a step above every value of the smaller         *)
(* (enforceConstraints, whose comment calls one pass enough).              *)
THEOREM OrderingMends ==
    ASSUME NEW ps, NEW c, NEW masks, IsSpace(ps, <<c>>, masks), masks = {Island!NoMask},
           c.form = "spec", c.literal = FALSE, c.op = "<", c.repair = "clamp-rhs",
           c.lhs \in DOMAIN ps, c.rhs \in DOMAIN ps, c.lhs # c.rhs, OnUnit(ps[c.rhs]),
           \A v \in Island!RandomParam(ps[c.lhs]) :
               /\ v + ps[c.rhs].step >= ps[c.rhs].min
               /\ v + ps[c.rhs].step <= ps[c.rhs].max
    PROVE  1 \in Island!SettledOf(ps, <<c>>)
<1> DEFINE p == ps[c.rhs]
           genes == Island!GenesOf(ps, masks)
<1>1. Island!IsParam(p) /\ Island!IsParam(ps[c.lhs])  BY DEF IsSpace
<1>2. p.step \in Nat \ {0} /\ p.min \in Int /\ p.max \in Int  BY <1>1 DEF Island!IsParam
<1>3. ASSUME NEW g \in genes PROVE Island!Satisfied(Island!Repair(ps, g, c), c)
  <2>1. /\ g = [x \in DOMAIN ps |-> g[x]]
        /\ \A x \in DOMAIN ps : g[x] \in Allowed(ps, masks, x)
    BY GenesAreAllowed
  <2>2. g[c.lhs] \in Island!RandomParam(ps[c.lhs])
    <3>1. DOMAIN Island!NoMask = {}  BY DEF Island!NoMask
    <3> QED  BY <2>1, <3>1 DEF Allowed
  <2>3. g[c.lhs] \in Int /\ g[c.rhs] \in Int
    BY <2>1, AllowedIsInt
  <2>4. g[c.lhs] + p.step \in p.min .. p.max  BY <1>2, <2>2, <2>3
  <2>5. CASE g[c.lhs] < g[c.rhs]
    <3>1. Island!Repair(ps, g, c) = g
      BY <2>5 DEF Island!Repair, Island!RepairSpec, Island!Holds, Island!Rhs
    <3> QED  BY <2>5, <3>1 DEF Island!Satisfied, Island!Holds, Island!Rhs
  <2>6. CASE ~(g[c.lhs] < g[c.rhs])
    <3> DEFINE new == Island!Clamp(g[c.lhs] + p.step, p)
    <3>0. ~Island!Holds(g[c.lhs], "<", g[c.rhs])  BY <2>6 DEF Island!Holds
    <3>1. Island!ShiftRhs(g[c.rhs], g[c.lhs], "<", p.step) = g[c.lhs] + p.step
      BY <1>2, <2>3, <2>6 DEF Island!ShiftRhs, Island!Higher
    <3>2. Island!Repair(ps, g, c) = [g EXCEPT ![c.rhs] = new]
      <4> HIDE DEF new
      <4>1. Island!Sides(c) \subseteq DOMAIN g  BY <2>1 DEF Island!Sides
      <4>2. Island!Rhs(g, c) = g[c.rhs]  BY DEF Island!Rhs
      <4>3. Island!RepairSpec(ps, g, c) = [g EXCEPT ![c.rhs] = new]
        BY <3>0, <3>1, <4>1, <4>2 DEF Island!RepairSpec, new
      <4> QED  BY <4>3 DEF Island!Repair
    <3>3. new \in Int /\ 2 * new > 2 * (g[c.lhs] + p.step) - p.step
      BY <1>1, <2>4, ClampIsNear
    <3> HIDE DEF new
    <3>4. g[c.lhs] < new  BY <1>2, <2>3, <3>3
    <3> QED  BY <2>1, <3>2, <3>4 DEF Island!Satisfied, Island!Holds, Island!Rhs
  <2> QED  BY <2>5, <2>6
<1>4. /\ Len(<<c>>) = 1 /\ DOMAIN <<c>> = 1 .. 1 /\ <<c>>[1] = c
      /\ ~ \E m : m \in 1 + 1 .. Len(<<c>>)
  OBVIOUS
<1>5. Island!Sides(c) \subseteq DOMAIN ps  BY DEF Island!Sides
<1>6. genes = Island!GenesOf(ps, {<< >>})  BY DEF Island!NoMask
<1> HIDE DEF genes, p
<1>7. Island!Settled(ps, <<c>>, 1)  BY <1>3, <1>4, <1>5, <1>6 DEF Island!Settled
<1> QED  BY <1>4, <1>7 DEF Island!SettledOf

LEMMA SetupIsSpace ==
    ASSUME NEW s \in GeneSetups
    PROVE  IsSpace(s.params, s.constraints, s.masks)
  BY SetupsAssumption DEF IsSpace

(* What an island of a planet holds: a gene of the space, with the frozen  *)
(* values of the planet; and one that satisfies what one pass settles, if  *)
(* the run knocks nothing out.                                             *)
Bred(s, m, g) ==
    /\ g \in Island!GenesOf(s.params, s.masks)
    /\ \A x \in DOMAIN m : g[x] = m[x]
    /\ s.masks = {Island!NoMask} =>
          \A n \in Island!SettledOf(s.params, s.constraints) : Island!Satisfied(g, s.constraints[n])

LEMMA FrozenGene ==
    ASSUME NEW s \in GeneSetups, NEW m \in s.masks, NEW g \in Island!GenesOf(s.params, s.masks)
    PROVE  /\ Island!ApplyFrozen(g, m) \in Island!GenesOf(s.params, s.masks)
           /\ \A x \in DOMAIN m : Island!ApplyFrozen(g, m)[x] = m[x]
           /\ s.masks = {Island!NoMask} => Island!ApplyFrozen(g, m) = g
<1> DEFINE h == [x \in DOMAIN g |-> IF x \in DOMAIN m THEN m[x] ELSE g[x]]
<1>1. g = [x \in DOMAIN s.params |-> g[x]] /\ \A x \in DOMAIN s.params : g[x] \in Allowed(s.params, s.masks, x)
  BY GenesAreAllowed
<1>2. DOMAIN m \subseteq DOMAIN s.params  BY SetupsAssumption
<1>3. DOMAIN g = DOMAIN s.params  BY <1>1
<1>4. \A x \in DOMAIN s.params : h[x] \in Allowed(s.params, s.masks, x)  BY <1>1, <1>3 DEF Allowed
<1>5. h = [x \in DOMAIN s.params |-> h[x]]  BY <1>3
<1>6. h \in Island!GenesOf(s.params, s.masks)
  <2> HIDE DEF h
  <2> QED  BY <1>4, <1>5, GenesAreAllowed
<1>7. s.masks = {Island!NoMask} => h = g
  <2>1. DOMAIN Island!NoMask = {}  BY DEF Island!NoMask
  <2> QED  BY <1>1, <2>1
<1> QED  BY <1>2, <1>3, <1>6, <1>7 DEF Island!ApplyFrozen

LEMMA RepairedIsBred ==
    ASSUME NEW s \in GeneSetups, NEW m \in s.masks, NEW g \in Island!GenesOf(s.params, s.masks)
    PROVE  Bred(s, m, Island!ApplyFrozen(Island!Enforce(s.params, s.constraints, g), m))
<1>1. Island!Enforce(s.params, s.constraints, g) \in Island!GenesOf(s.params, s.masks)
  BY SetupIsSpace, EnforceFits
<1>2. s.masks = {Island!NoMask} =>
          \A n \in Island!SettledOf(s.params, s.constraints) :
              Island!Satisfied(Island!Enforce(s.params, s.constraints, g), s.constraints[n])
  BY SetupIsSpace, EnforceSettles
<1> QED  BY <1>1, <1>2, FrozenGene DEF Bred

LEMMA MigrantIsBred ==
    ASSUME NEW s \in GeneSetups, NEW o \in s.masks, NEW m \in s.masks, NEW g, Bred(s, o, g)
    PROVE  Bred(s, m, Island!ApplyFrozen(g, m))
  BY FrozenGene DEF Bred

LEMMA RawGenesFit ==
    ASSUME NEW ps, NEW masks
    PROVE  Island!RawGenes(ps) \subseteq Island!GenesOf(ps, masks)
<1> SUFFICES ASSUME NEW g \in Island!RawGenes(ps) PROVE g \in Island!GenesOf(ps, masks)  OBVIOUS
<1>1. g = [x \in DOMAIN ps |-> g[x]] /\ \A x \in DOMAIN ps : g[x] \in Island!RandomParam(ps[x])
  BY DEF Island!RawGenes
<1> QED  BY <1>1, GenesAreAllowed DEF Allowed

LEMMA RandomIsBred ==
    ASSUME NEW s \in GeneSetups, NEW m \in s.masks,
           NEW g \in Island!RandomIndividual(s.params, s.constraints)
    PROVE  Bred(s, m, Island!ApplyFrozen(g, m))
<1>1. PICK h \in Island!RawGenes(s.params) : g = Island!Enforce(s.params, s.constraints, h)
  BY DEF Island!RandomIndividual
<1>2. h \in Island!GenesOf(s.params, s.masks)  BY RawGenesFit
<1> QED  BY <1>1, <1>2, RepairedIsBred

LEMMA FrozenIndividualIsBred ==
    ASSUME NEW s \in GeneSetups, NEW m \in s.masks,
           NEW g \in Island!FrozenIndividuals(s.params, s.constraints, m)
    PROVE  Bred(s, m, g)
<1>1. PICK h \in Island!RandomIndividual(s.params, s.constraints) :
          g = Island!ApplyFrozen(Island!Enforce(s.params, s.constraints, Island!ApplyFrozen(h, m)), m)
  BY DEF Island!FrozenIndividuals
<1>2. Bred(s, m, Island!ApplyFrozen(h, m))  BY RandomIsBred
<1> QED  BY <1>1, <1>2, RepairedIsBred DEF Bred

LEMMA MutantIsBred ==
    ASSUME NEW s \in GeneSetups, NEW m \in s.masks, NEW g \in Island!GenesOf(s.params, s.masks),
           NEW c \in Island!Mutated(s.params, s.constraints, m, g)
    PROVE  Bred(s, m, c)
<1>1. PICK shift \in [DOMAIN s.params -> -3 .. 3] :
          c = Island!ApplyFrozen(Island!Enforce(s.params, s.constraints, Island!MutateRaw(s.params, g, shift)), m)
  BY DEF Island!Mutated
<1> DEFINE h == [x \in DOMAIN s.params |->
                    IF shift[x] = 0 THEN g[x]
                    ELSE Island!Clamp(g[x] + shift[x] * s.params[x].step, s.params[x])]
<1>2. ASSUME NEW x \in DOMAIN s.params PROVE h[x] \in Allowed(s.params, s.masks, x)
  <2>1. g[x] \in Allowed(s.params, s.masks, x)  BY GenesAreAllowed
  <2>2. Allowed(s.params, s.masks, x) \subseteq Int  BY SetupIsSpace, AllowedIsInt
  <2>3. Island!IsParam(s.params[x]) /\ s.params[x].step \in Int
    BY SetupsAssumption DEF Island!IsParam
  <2>4. shift[x] * s.params[x].step \in Int  BY <2>3, Product
  <2>5. g[x] + shift[x] * s.params[x].step \in Int  BY <2>1, <2>2, <2>4
  <2>6. Island!Clamp(g[x] + shift[x] * s.params[x].step, s.params[x]) \in Allowed(s.params, s.masks, x)
    BY <2>3, <2>5, ClampOnGrid DEF Allowed
  <2> QED  BY <2>1, <2>6
<1>3. h = [x \in DOMAIN s.params |-> h[x]]  OBVIOUS
<1>4. Island!MutateRaw(s.params, g, shift) = h  BY DEF Island!MutateRaw
<1> HIDE DEF h
<1>5. h \in Island!GenesOf(s.params, s.masks)  BY <1>2, <1>3, GenesAreAllowed
<1> QED  BY <1>1, <1>4, <1>5, RepairedIsBred

LEMMA CrossedIsBred ==
    ASSUME NEW s \in GeneSetups, NEW m \in s.masks,
           NEW a \in Island!GenesOf(s.params, s.masks), NEW b \in Island!GenesOf(s.params, s.masks),
           NEW c \in Island!FrozenCrossed(s.params, s.constraints, m, a, b)
    PROVE  Bred(s, m, c)
<1>1. PICK d \in Island!Crossed(s.params, s.constraints, a, b) : c = Island!ApplyFrozen(d, m)
  BY DEF Island!FrozenCrossed
<1>2. PICK fromA \in SUBSET DOMAIN s.params :
          d = Island!Enforce(s.params, s.constraints, [x \in DOMAIN s.params |-> IF x \in fromA THEN a[x] ELSE b[x]])
  BY DEF Island!Crossed
<1> DEFINE h == [x \in DOMAIN s.params |-> IF x \in fromA THEN a[x] ELSE b[x]]
<1>3. ASSUME NEW x \in DOMAIN s.params PROVE h[x] \in Allowed(s.params, s.masks, x)
  BY GenesAreAllowed
<1>4. h = [x \in DOMAIN s.params |-> h[x]]  OBVIOUS
<1> HIDE DEF h
<1>5. h \in Island!GenesOf(s.params, s.masks)  BY <1>3, <1>4, GenesAreAllowed
<1> QED  BY <1>1, <1>2, <1>5, RepairedIsBred DEF h

LEMMA IslandCardinality == \A S : Island!Cardinality(S) = Cardinality(S)
<1>1. \A S : Island!IsFiniteSet(S) <=> IsFiniteSet(S)  BY DEF Island!IsFiniteSet, IsFiniteSet
<1> QED  BY <1>1 DEF Island!Cardinality, Cardinality

(* The ranks of the slots are numbers from 1, and the slot that no other   *)
(* beats has the highest.                                                  *)
LEMMA RankOfSlot ==
    ASSUME setup \in GeneSetups, NEW k \in 1 .. setup.size
    PROVE  /\ Island!Ranks[k] \in Nat \ {0}
           /\ (\A o \in 1 .. setup.size \ {k} : Island!Worse(o, k)) /\ ~Island!Worse(k, k)
                => Island!Ranks[k] = setup.size
<1> DEFINE W == {o \in 1 .. setup.size : Island!Worse(o, k)}
           All == 1 .. setup.size
<1>0. setup.size \in Nat \ {0}  BY SetupsAssumption
<1>1. Island!Ranks[k] = 1 + Cardinality(W)  BY IslandCardinality DEF Island!Ranks, Island!Slots
<1>2. IsFiniteSet(All) /\ Cardinality(All) = setup.size
  <2>1. PICK n \in Nat \ {0} : n = setup.size  BY <1>0
  <2>2. IsFiniteSet(1 .. n) /\ Cardinality(1 .. n) = n  BY FS_Interval
  <2> QED  BY <2>1, <2>2
<1>3. W \in SUBSET All  OBVIOUS
<1>4. Cardinality(W) \in Nat
  <2> HIDE DEF W, All
  <2> QED  BY <1>2, <1>3, FS_Subset, FS_CardinalityType
<1>5. ASSUME \A o \in 1 .. setup.size \ {k} : Island!Worse(o, k), ~Island!Worse(k, k)
      PROVE  Island!Ranks[k] = setup.size
  <2>1. W = All \ {k}  BY <1>5
  <2>2. k \in All  OBVIOUS
  <2>3. Cardinality(All \ {k}) = Cardinality(All) - 1
    <3> HIDE DEF All
    <3> QED  BY <1>2, <2>2, FS_RemoveElement
  <2>4. Cardinality(W) = setup.size - 1  BY <1>2, <2>1, <2>3
  <2> HIDE DEF W, All
  <2> QED  BY <1>0, <1>1, <2>4
<1> QED  BY <1>1, <1>4, <1>5

BreedInv ==
    /\ setup \in GeneSetups /\ mask \in setup.masks
    /\ pop = [k \in 1 .. setup.size |-> pop[k]]
    /\ \A k \in 1 .. setup.size : Bred(setup, mask, pop[k])

LEMMA BreedActs ==
    part = "breed" /\ [Next]_vars =>
        \/ Island!Mutation \/ Island!Crossover \/ Island!Migrate \/ Island!Hypermutate
        \/ UNCHANGED <<setup, mask, pop>>
  BY DEF Next, vars, breeding, Editing, Breeding, Evaluating, Ranking

LEMMA BreedInit == Init /\ part = "breed" => BreedInv
<1> SUFFICES ASSUME Init, part = "breed" PROVE BreedInv  OBVIOUS
<1>1. /\ setup \in GeneSetups /\ mask \in setup.masks
      /\ pop \in [1 .. setup.size -> Island!FrozenIndividuals(setup.params, setup.constraints, mask)]
  BY DEF Init, Island!Init
<1>2. PICK s \in GeneSetups : s = setup  BY <1>1
<1>3. PICK m \in s.masks : m = mask  BY <1>1, <1>2
<1>4. ASSUME NEW k \in 1 .. s.size PROVE Bred(s, m, pop[k])
  <2>1. PICK g \in Island!FrozenIndividuals(s.params, s.constraints, m) : g = pop[k]
    BY <1>1, <1>2, <1>3
  <2> QED  BY <2>1, FrozenIndividualIsBred
<1> QED  BY <1>1, <1>2, <1>3, <1>4 DEF BreedInv

(* An individual that takes a slot.                                        *)
LEMMA SlotTaken ==
    ASSUME BreedInv, NEW k \in 1 .. setup.size, NEW c, Bred(setup, mask, c),
           pop' = [pop EXCEPT ![k] = c], UNCHANGED <<setup, mask>>
    PROVE  BreedInv'
<1>1. pop' = [j \in 1 .. setup.size |-> IF j = k THEN c ELSE pop[j]]  BY DEF BreedInv
<1>2. \A j \in 1 .. setup.size : Bred(setup, mask, pop'[j])  BY <1>1 DEF BreedInv
<1> QED  BY <1>1, <1>2 DEF BreedInv, Bred

LEMMA BreedStep ==
    BreedInv /\ (Island!Mutation \/ Island!Crossover \/ Island!Migrate \/ Island!Hypermutate)
        => BreedInv'
<1> SUFFICES ASSUME BreedInv,
                    Island!Mutation \/ Island!Crossover \/ Island!Migrate \/ Island!Hypermutate
             PROVE  BreedInv'
  OBVIOUS
<1>1. PICK s \in GeneSetups : s = setup  BY DEF BreedInv
<1>2. PICK m \in s.masks : m = mask  BY <1>1 DEF BreedInv
<1>3. \A k \in 1 .. s.size : Bred(s, m, pop[k])  BY <1>1, <1>2 DEF BreedInv
<1>4. Island!Slots = 1 .. s.size  BY <1>1 DEF Island!Slots
<1>5. s' = s /\ m' = m /\ UNCHANGED <<setup, mask>>
  BY DEF Island!Mutation, Island!Crossover, Island!Migrate, Island!Hypermutate
<1>6. CASE Island!Mutation
  <2>1. PICK k \in 1 .. s.size, parent \in 1 .. s.size :
            \E c \in Island!Mutated(s.params, s.constraints, m, pop[parent]) : pop' = [pop EXCEPT ![k] = c]
    BY <1>1, <1>2, <1>4, <1>6 DEF Island!Mutation, Island!Replaceable
  <2>2. PICK g : g = pop[parent]  OBVIOUS
  <2>3. PICK c \in Island!Mutated(s.params, s.constraints, m, g) : pop' = [pop EXCEPT ![k] = c]
    BY <2>1, <2>2
  <2>4. g \in Island!GenesOf(s.params, s.masks)  BY <1>3, <2>2 DEF Bred
  <2>5. Bred(s, m, c)  BY <2>3, <2>4, MutantIsBred
  <2> QED  BY <1>1, <1>2, <1>5, <2>3, <2>5, SlotTaken
<1>7. CASE Island!Crossover
  <2>0. PICK k \in Island!Replaceable, i \in Island!Slots, j \in Island!Slots :
            \E c \in Island!FrozenCrossed(setup.params, setup.constraints, mask, pop[i], pop[j]) :
                pop' = [pop EXCEPT ![k] = c]
    BY <1>7 DEF Island!Crossover
  <2>1. /\ k \in 1 .. s.size /\ i \in 1 .. s.size /\ j \in 1 .. s.size
        /\ \E c \in Island!FrozenCrossed(s.params, s.constraints, m, pop[i], pop[j]) :
               pop' = [pop EXCEPT ![k] = c]
    BY <1>1, <1>2, <1>4, <2>0 DEF Island!Replaceable
  <2>2. PICK a : a = pop[i]  OBVIOUS
  <2>3. PICK b : b = pop[j]  OBVIOUS
  <2>4. PICK c \in Island!FrozenCrossed(s.params, s.constraints, m, a, b) : pop' = [pop EXCEPT ![k] = c]
    BY <2>1, <2>2, <2>3
  <2>5. a \in Island!GenesOf(s.params, s.masks) /\ b \in Island!GenesOf(s.params, s.masks)
    BY <1>3, <2>1, <2>2, <2>3 DEF Bred
  <2>6. Bred(s, m, c)  BY <2>4, <2>5, CrossedIsBred
  <2> QED  BY <1>1, <1>2, <1>5, <2>1, <2>4, <2>6, SlotTaken
<1>8. CASE Island!Migrate
  <2>1. PICK batch \in Island!Batches :
            pop' = [k \in 1 .. s.size |-> IF Island!Enters(Island!Ranks, batch, k)
                                          THEN Island!ApplyFrozen(batch[Island!Ranks[k]], m) ELSE pop[k]]
    BY <1>1, <1>2, <1>4, <1>8 DEF Island!Migrate
  <2>2. PICK o \in s.masks :
            batch \in [1 .. s.migrants -> Island!FrozenIndividuals(s.params, s.constraints, o)]
    BY <1>1 DEF Island!Batches, Island!Sendable
  <2>3. ASSUME NEW k \in 1 .. s.size PROVE Bred(s, m, pop'[k])
    <3>1. CASE ~Island!Enters(Island!Ranks, batch, k)  BY <1>3, <2>1, <3>1
    <3>2. CASE Island!Enters(Island!Ranks, batch, k)
      <4>1. Island!Ranks[k] \in 1 .. s.migrants  
        <5>1. Island!Ranks[k] <= s.migrants  BY <1>1, <3>2 DEF Island!Enters
        <5> QED  BY <5>1, RankOfSlot, <1>1 
      <4>2. PICK g \in Island!FrozenIndividuals(s.params, s.constraints, o) : g = batch[Island!Ranks[k]]
        BY <2>2, <4>1
      <4>3. Bred(s, o, g)  BY FrozenIndividualIsBred
      <4>4. Bred(s, m, Island!ApplyFrozen(g, m))  BY <4>3, MigrantIsBred
      <4> QED  BY <2>1, <3>2, <4>2, <4>4
    <3> QED  BY <3>1, <3>2
  <2> QED  BY <1>1, <1>2, <1>5, <2>1, <2>3 DEF BreedInv
<1>9. CASE Island!Hypermutate
  <2> DEFINE weakest == {k \in Island!Slots : Island!Ranks[k] <= Island!Immigrants}
  <2>1. CASE weakest = {}
    <3>1. pop' = pop  BY <1>9, <2>1 DEF Island!Hypermutate
    <3> QED  BY <1>5, <3>1 DEF BreedInv
  <2>2. CASE weakest # {}
    <3>1. PICK fresh \in [weakest -> Island!Fresh] :
              pop' = [k \in Island!Slots |-> IF k \in weakest THEN fresh[k] ELSE pop[k]]
      BY <1>9, <2>2 DEF Island!Hypermutate
    <3> HIDE DEF weakest
    <3>a. pop' = [k \in 1 .. s.size |-> IF k \in weakest THEN fresh[k] ELSE pop[k]]
      BY <1>4, <3>1
    <3>2. ASSUME NEW k \in 1 .. s.size PROVE Bred(s, m, pop'[k])
      <4>1. CASE k \notin weakest  BY <1>3, <3>a, <4>1
      <4>2. CASE k \in weakest
        <5>1. fresh[k] \in Island!Fresh  BY <3>1, <4>2
        <5>2. PICK g \in Island!RandomIndividual(s.params, s.constraints) : fresh[k] = Island!ApplyFrozen(g, m)
          BY <1>1, <1>2, <5>1 DEF Island!Fresh
        <5>3. Bred(s, m, Island!ApplyFrozen(g, m))  BY RandomIsBred
        <5> QED  BY <3>a, <4>2, <5>2, <5>3
      <4> QED  BY <4>1, <4>2
    <3> QED  BY <1>1, <1>2, <1>5, <3>a, <3>2 DEF BreedInv
  <2> QED  BY <2>1, <2>2
<1> QED  BY <1>6, <1>7, <1>8, <1>9

(* Every individual carries the frozen values of its planet, and without   *)
(* knockouts it satisfies the constraints that one pass settles, whatever  *)
(* the islands exchange, for every space, list of constraints, population  *)
(* and score (GenesFit).                                                   *)
THEOREM GenesFitHolds == Spec => []GenesFit
<1> DEFINE Inv == part = "breed" => BreedInv
<1>1. Init => Inv  BY BreedInit
<1>2. Inv /\ [Next]_vars => Inv'
  <2> SUFFICES ASSUME BreedInv, [Next]_vars, part = "breed" PROVE BreedInv'  BY SamePart
  <2>1. CASE UNCHANGED <<setup, mask, pop>>  BY <2>1 DEF BreedInv
  <2> QED  BY <2>1, BreedActs, BreedStep
<1>3. Inv => GenesFit
  <2> SUFFICES ASSUME part = "breed", BreedInv
               PROVE  Island!FrozenGenesHold /\ Island!UnfrozenIsFeasible(SettledIn[setup])
    BY DEF GenesFit
  <2>1. SettledIn[setup] = Island!SettledOf(setup.params, setup.constraints)
    BY DEF BreedInv, SettledIn
  <2> QED  BY <2>1 DEF BreedInv, Bred, Island!FrozenGenesHold, Island!UnfrozenIsFeasible, Island!Slots
<1> QED  BY <1>1, <1>2, <1>3, PTL DEF Spec

LEMMA BestOfSlots ==
    ASSUME NEW n \in Nat \ {0}, NEW p, DOMAIN p = 1 .. n, \A k \in 1 .. n : GeneScore(p[k]) \in Int
    PROVE  /\ Island!Best(p) \in Int
           /\ \A k \in 1 .. n : GeneScore(p[k]) <= Island!Best(p)
<1> DEFINE s == [k \in 1 .. n |-> GeneScore(p[k])]
           S == 1 .. n
<1>1. Rankable(s, S)
  <2>1. IsFiniteSet(S)  BY FS_Interval
  <2> QED  BY <2>1 DEF Rankable
<1>2. PICK t \in S : Above(s, S, t) = {}
  <2>1. S # {}  OBVIOUS
  <2> HIDE DEF s, S
  <2> QED  BY <1>1, <2>1, HasFirst
<1>3. ASSUME NEW k \in 1 .. n PROVE GeneScore(p[k]) <= GeneScore(p[t])
  <2>1. ~Outranks(s, k, t)  BY <1>2 DEF Above
  <2> QED  BY <2>1 DEF Outranks
<1> DEFINE all == {GeneScore(p[k]) : k \in DOMAIN p}
<1>4. GeneScore(p[t]) \in all /\ \A k \in DOMAIN p : GeneScore(p[t]) >= GeneScore(p[k])  BY <1>3
<1>5. Island!Best(p) \in all /\ \A k \in DOMAIN p : Island!Best(p) >= GeneScore(p[k])
  <2> HIDE DEF all
  <2> QED  BY <1>4 DEF Island!Best, all
<1> QED  BY <1>5

(* The slot that every other is worse than.                                *)
LEMMA TopSlot ==
    ASSUME BreedInv
    PROVE  \E t \in 1 .. setup.size :
               /\ \A o \in 1 .. setup.size \ {t} : Island!Worse(o, t)
               /\ ~Island!Worse(t, t)
               /\ GeneScore(pop[t]) = Island!Best(pop)
<1>1. PICK n \in Nat \ {0} : n = setup.size  BY SetupsAssumption DEF BreedInv
<1>2. \A k \in 1 .. n : GeneScore(pop[k]) \in Int
  BY <1>1, SetupsAssumption DEF BreedInv, Bred
<1>3. PICK p : p = pop  OBVIOUS
<1> DEFINE S == {0 - k : k \in 1 .. n}
           s == [h \in S |-> GeneScore(p[0 - h])]
<1>4. Rankable(s, S)
  <2>1. IsFiniteSet(1 .. n)  BY FS_Interval
  <2>2. IsFiniteSet(S)
    <3>1. S \in SUBSET ((0 - n) .. 0)  OBVIOUS
    <3>2. IsFiniteSet((0 - n) .. 0)  BY FS_Interval
    <3> QED  BY <3>1, <3>2, FS_Subset
  <2> QED  BY <1>2, <1>3, <2>2 DEF Rankable
<1>5. PICK h \in S : Above(s, S, h) = {}
  <2>1. 0 - 1 \in S  OBVIOUS
  <2> HIDE DEF s, S
  <2> QED  BY <1>4, <2>1, HasFirst
<1>6. PICK t \in 1 .. n : h = 0 - t  OBVIOUS
<1>7. ASSUME NEW o \in 1 .. n, o # t PROVE Island!Worse(o, t)
  <2>1. 0 - o \in S /\ s[0 - o] = GeneScore(pop[o]) /\ s[h] = GeneScore(pop[t])  BY <1>3, <1>6
  <2>2. ~Outranks(s, 0 - o, h)  
    <3> HIDE DEF s, S
    <3> QED  BY <1>5, <2>1 DEF Above
  <2>3. ~(GeneScore(pop[o]) > GeneScore(pop[t])) /\ ~(GeneScore(pop[o]) = GeneScore(pop[t]) /\ 0 - o < h)
    <3> HIDE DEF s, S
    <3> QED  BY <2>1, <2>2 DEF Outranks
  <2> QED  BY <1>2, <1>6, <1>7, <2>3 DEF Island!Worse
<1>8. ~Island!Worse(t, t)  BY <1>2 DEF Island!Worse
<1>9. \A k \in 1 .. n : GeneScore(pop[t]) >= GeneScore(pop[k])
  BY <1>2, <1>7 DEF Island!Worse
<1>10. DOMAIN p = 1 .. n  BY <1>1, <1>3 DEF BreedInv
<1>11. Island!Best(p) \in {GeneScore(p[k]) : k \in DOMAIN p} /\ \A k \in DOMAIN p : Island!Best(p) >= GeneScore(p[k])
  <2> DEFINE all == {GeneScore(p[k]) : k \in DOMAIN p}
  <2>1. GeneScore(p[t]) \in all /\ \A k \in DOMAIN p : GeneScore(p[t]) >= GeneScore(p[k])
    BY <1>3, <1>9, <1>10
  <2> HIDE DEF all
  <2> QED  BY <2>1 DEF Island!Best, all
<1>12. GeneScore(pop[t]) = Island!Best(pop)  BY <1>2, <1>3, <1>9, <1>10, <1>11
<1> QED  BY <1>1, <1>7, <1>8, <1>12

LEMMA BestSurvivesStep ==
    BreedInv /\ BreedInv' /\ (Island!Mutation \/ Island!Crossover \/ Island!Migrate \/ Island!Hypermutate)
        => Island!Best(pop') >= Island!Best(pop)
<1> SUFFICES ASSUME BreedInv, BreedInv',
                    Island!Mutation \/ Island!Crossover \/ Island!Migrate \/ Island!Hypermutate
             PROVE  Island!Best(pop') >= Island!Best(pop)
  OBVIOUS
<1>1. PICK n \in Nat \ {0} : n = setup.size  BY SetupsAssumption DEF BreedInv
<1>2. setup' = setup
  BY DEF Island!Mutation, Island!Crossover, Island!Migrate, Island!Hypermutate
<1>3. Island!Slots = 1 .. n  BY <1>1 DEF Island!Slots
<1>4. /\ \A k \in 1 .. n : GeneScore(pop[k]) \in Int
      /\ \A k \in 1 .. n : GeneScore(pop'[k]) \in Int
      /\ DOMAIN pop = 1 .. n /\ DOMAIN pop' = 1 .. n
  BY <1>1, <1>2, SetupsAssumption DEF BreedInv, Bred
<1>5. PICK t \in 1 .. n :
          /\ \A o \in 1 .. n \ {t} : Island!Worse(o, t)
          /\ ~Island!Worse(t, t)
          /\ GeneScore(pop[t]) = Island!Best(pop)
  BY <1>1, TopSlot
<1>6. SUFFICES \E k \in 1 .. n : GeneScore(pop'[k]) >= Island!Best(pop)
  <2>1. PICK p : p = pop'  OBVIOUS
  <2>2. Island!Best(p) \in Int /\ \A k \in 1 .. n : GeneScore(p[k]) <= Island!Best(p)
    BY <1>4, <2>1, BestOfSlots
  <2> QED  BY <1>4, <1>5, <1>6, <2>1, <2>2
<1>7. Island!Ranks[t] = n
  <2>1. setup \in GeneSetups  BY DEF BreedInv
  <2> QED  BY <1>1, <1>5, <2>1, RankOfSlot
(* A child takes a slot that another one beats.                            *)
<1>8. ASSUME NEW k \in Island!Replaceable, NEW c, pop' = [pop EXCEPT ![k] = c]
      PROVE  \E j \in 1 .. n : GeneScore(pop'[j]) >= Island!Best(pop)
  <2>1. CASE k = t
    <3>1. PICK o \in 1 .. n \ {t} : GeneScore(pop[o]) >= GeneScore(pop[t])
      BY <1>3, <1>8, <2>1 DEF Island!Replaceable
    <3>2. pop'[o] = pop[o]  BY <1>4, <1>8, <2>1, <3>1
    <3> QED  BY <1>5, <3>1, <3>2
  <2>2. CASE k # t
    <3>1. pop'[t] = pop[t]  BY <1>4, <1>8, <2>2
    <3> QED  BY <1>4, <1>5, <3>1
  <2> QED  BY <2>1, <2>2
<1>9. CASE Island!Mutation
  <2>1. PICK k \in Island!Replaceable : \E c : pop' = [pop EXCEPT ![k] = c]
    BY <1>9 DEF Island!Mutation
  <2> QED  BY <1>8, <2>1
<1>10. CASE Island!Crossover
  <2>1. PICK k \in Island!Replaceable : \E c : pop' = [pop EXCEPT ![k] = c]
    BY <1>10 DEF Island!Crossover
  <2> QED  BY <1>8, <2>1
(* Migrants and immigrants never reach the top slot.                       *)
<1>11. CASE Island!Migrate
  <2>1. setup.migrants \in Nat /\ setup.migrants < n  BY <1>1, SetupsAssumption DEF BreedInv
  <2>2. PICK batch \in Island!Batches :
            pop' = [k \in 1 .. n |-> IF Island!Enters(Island!Ranks, batch, k)
                                     THEN Island!ApplyFrozen(batch[Island!Ranks[k]], mask) ELSE pop[k]]
    BY <1>3, <1>11 DEF Island!Migrate
  <2>3. ~Island!Enters(Island!Ranks, batch, t)  BY <1>7, <2>1 DEF Island!Enters
  <2>4. pop'[t] = pop[t]  BY <2>2, <2>3
  <2> QED  BY <1>4, <1>5, <2>4
<1>12. CASE Island!Hypermutate
  <2> DEFINE weakest == {k \in Island!Slots : Island!Ranks[k] <= Island!Immigrants}
  <2>1. Island!Immigrants < n
    <3>1. setup.elite \in Int  BY SetupsAssumption DEF BreedInv
    <3>2. n \div 4 \in Int /\ n \div 4 < n  OBVIOUS
    <3>3. Island!Higher(0, n - setup.elite) \in Int  BY <3>1 DEF Island!Higher
    <3> QED  BY <1>1, <3>2, <3>3 DEF Island!Immigrants, Island!Lower
  <2>2. t \notin weakest
    <3>1. Island!Immigrants \in Int
      <4>1. setup.elite \in Int  BY SetupsAssumption DEF BreedInv
      <4>2. n \div 4 \in Int  OBVIOUS
      <4> QED  BY <1>1, <4>1, <4>2 DEF Island!Immigrants, Island!Lower, Island!Higher
    <3> QED  BY <1>7, <2>1, <3>1
  <2>3. CASE weakest = {}
    <3>1. pop' = pop  BY <1>12, <2>3 DEF Island!Hypermutate
    <3> QED  BY <1>4, <1>5, <3>1
  <2>4. CASE weakest # {}
    <3>1. PICK fresh \in [weakest -> Island!Fresh] :
              pop' = [k \in Island!Slots |-> IF k \in weakest THEN fresh[k] ELSE pop[k]]
      BY <1>12, <2>4 DEF Island!Hypermutate
    <3> HIDE DEF weakest
    <3>2. pop'[t] = pop[t]  BY <1>3, <2>2, <3>1
    <3> QED  BY <1>4, <1>5, <3>2
  <2> QED  BY <2>3, <2>4
<1> QED  BY <1>9, <1>10, <1>11, <1>12

(* No step of an island, migration and hypermutation included, costs it    *)
(* its best individual, for every population that is larger than a batch   *)
(* of migrants (BestSurvives).                                             *)
THEOREM BestSurvivesHolds == Spec => BestSurvives
<1> DEFINE Inv == part = "breed" => BreedInv
<1>1. Init => Inv  BY BreedInit
<1>2. Inv /\ [Next]_vars => Inv'
  <2> SUFFICES ASSUME BreedInv, [Next]_vars, part = "breed" PROVE BreedInv'  BY SamePart
  <2>1. CASE UNCHANGED <<setup, mask, pop>>  BY <2>1 DEF BreedInv
  <2> QED  BY <2>1, BreedActs, BreedStep
<1>3. Inv /\ Inv' /\ [Next]_vars => [part = "breed" => Island!Best(pop') >= Island!Best(pop)]_vars
  <2> SUFFICES ASSUME BreedInv, BreedInv', [Next]_vars, part = "breed"
               PROVE  Island!Best(pop') >= Island!Best(pop)
    BY SamePart
  <2>1. CASE UNCHANGED <<setup, mask, pop>>
    <3>1. PICK n \in Nat \ {0} : n = setup.size  BY SetupsAssumption DEF BreedInv
    <3>2. DOMAIN pop = 1 .. n /\ \A k \in 1 .. n : GeneScore(pop[k]) \in Int
      BY <3>1, SetupsAssumption DEF BreedInv, Bred
    <3>3. PICK p : p = pop  OBVIOUS
    <3>4. Island!Best(p) \in Int  BY <3>1, <3>2, <3>3, BestOfSlots
    <3> QED  BY <2>1, <3>3, <3>4
  <2> QED  BY <2>1, BreedActs, BestSurvivesStep
<1> QED  BY <1>1, <1>2, <1>3, PTL DEF Spec, BestSurvives

-----------------------------------------------------------------------------
(* The rows of controls of a form.                                         *)
IsSpan(p) == p.min \in Nat /\ p.max \in Nat /\ p.step \in Nat \ {0} /\ p.min <= p.max
Controls == [pin : BOOLEAN, min : Int, max : Int, step : Int, value : Int]

LEMMA RowIsControls ==
    ASSUME NEW p, IsSpan(p), NEW entry, entry = << >> \/ Editor!IsEntry(entry)
    PROVE  Editor!RowOf(p, entry) \in Controls
<1>1. Editor!Midpoint(p) \in Int  BY DEF Editor!Midpoint, IsSpan
<1>2. CASE entry = << >>
  <2>1. ~Editor!IsPinned(entry)  BY <1>2 DEF Editor!IsPinned
  <2> QED  BY <1>1, <1>2, <2>1 DEF Editor!RowOf, IsSpan, Controls
<1>3. CASE Editor!IsEntry(entry) /\ Len(entry) = 1
  <2>1. Editor!IsPinned(entry) /\ entry # << >> /\ entry[1] \in Int
    BY <1>3 DEF Editor!IsPinned, Editor!IsEntry
  <2> QED  BY <1>1, <2>1 DEF Editor!RowOf, IsSpan, Controls
<1>4. CASE Editor!IsEntry(entry) /\ Len(entry) = 3
  <2>0. ~Editor!IsPinned(entry) /\ entry # << >>  BY <1>4 DEF Editor!IsPinned
  <2>1. entry[1] \in Int /\ entry[2] \in Int /\ entry[3] \in Int
    <3>0. entry \in Seq(Int)  BY <1>4 DEF Editor!IsEntry
    <3>1. \A k \in 1 .. Len(entry) : entry[k] \in Int  BY <3>0
    <3> QED  BY <1>4, <3>1
  <2> QED  BY <1>1, <2>0, <2>1 DEF Editor!RowOf, IsSpan, Controls
<1> QED  BY <1>2, <1>3, <1>4 DEF Editor!IsEntry

LEMMA ClampIsInt ==
    ASSUME NEW p, IsSpan(p), NEW v \in Int
    PROVE  Editor!Clamp(v, p) \in Int
  BY DEF Editor!Clamp, Editor!Blank, IsSpan

LEMMA ReadIsEntry ==
    ASSUME NEW p, IsSpan(p), NEW row \in Controls
    PROVE  Editor!IsEntry(Editor!ReadRow(p, row))
<1> DEFINE mn == Editor!Clamp(row.min, p)
           mx == Editor!Clamp(row.max, p)
           val == Editor!Clamp(row.value, p)
<1>1. mn \in Int /\ mx \in Int /\ val \in Int /\ row.step \in Int
  BY ClampIsInt DEF Controls
<1>2. Editor!ReadRow(p, row) =
          IF row.pin THEN <<Editor!Or(val, p.min)>>
          ELSE IF mn # Editor!Blank /\ mn = mx THEN <<mn>>
          ELSE <<Editor!Or(mn, p.min), Editor!Or(mx, p.max), IF row.step > 0 THEN row.step ELSE p.step>>
  BY DEF Editor!ReadRow
<1> HIDE DEF mn, mx, val
<1>3. Editor!Or(val, p.min) \in Int /\ Editor!Or(mn, p.min) \in Int /\ Editor!Or(mx, p.max) \in Int
      /\ p.step \in Int
  BY <1>1 DEF Editor!Or, IsSpan
<1>4. ASSUME NEW a \in Int PROVE Editor!IsEntry(<<a>>)
  BY DEF Editor!IsEntry
<1>5. ASSUME NEW a \in Int, NEW b \in Int, NEW c \in Int PROVE Editor!IsEntry(<<a, b, c>>)
  BY DEF Editor!IsEntry
<1>6. CASE row.pin  BY <1>2, <1>3, <1>4, <1>6
<1>7. CASE ~row.pin /\ mn # Editor!Blank /\ mn = mx  BY <1>1, <1>2, <1>4, <1>7
<1>8. CASE ~row.pin /\ ~(mn # Editor!Blank /\ mn = mx)
  <2>1. (IF row.step > 0 THEN row.step ELSE p.step) \in Int  BY <1>1, <1>3
  <2> QED  BY <1>2, <1>3, <1>5, <1>8, <2>1
<1> QED  BY <1>6, <1>7, <1>8

LEMMA EntryIsInt ==
    ASSUME NEW t \in Seq(Int), NEW k \in 1 .. Len(t)
    PROVE  t[k] \in Int
OBVIOUS

LEMMA TripleIs ==
    ASSUME NEW t \in Seq(Int), Len(t) = 3
    PROVE  t = <<t[1], t[2], t[3]>> /\ t[1] \in Int /\ t[2] \in Int /\ t[3] \in Int
<1>1. t = <<t[1], t[2], t[3]>>  OBVIOUS
<1>2. 1 \in 1 .. Len(t) /\ 2 \in 1 .. Len(t) /\ 3 \in 1 .. Len(t)  OBVIOUS
<1> QED  BY <1>1, <1>2, EntryIsInt

LEMMA TripleIsLong ==
    ASSUME NEW t, Len(t) = 3
    PROVE  t # << >> /\ ~Editor!IsPinned(t)
<1>1. t # << >>  OBVIOUS
<1>2. ~Editor!IsPinned(t)  BY DEF Editor!IsPinned
<1> QED  BY <1>1, <1>2

(* What is shown of an entry is read back.                                 *)
LEMMA ReadsBack ==
    ASSUME NEW p, IsSpan(p), NEW entry,
           entry = << >> \/ (Editor!IsEntry(entry) /\ Editor!FitsRange(entry, p))
    PROVE  Editor!ReadRow(p, Editor!RowOf(p, entry)) = IF entry = << >> THEN Editor!Declared(p) ELSE entry
<1>0. p.min \in Nat /\ p.max \in Nat /\ p.step \in Nat /\ p.step > 0 /\ p.min <= p.max  BY DEF IsSpan
<1>1. CASE entry = << >>
  <2>1. ~Editor!IsPinned(entry)  BY <1>1 DEF Editor!IsPinned
  <2>2. PICK row : row = Editor!RowOf(p, entry)  OBVIOUS
  <2>3. row.pin = FALSE /\ row.min = p.min /\ row.max = p.max /\ row.step = p.step
    BY <1>1, <2>1, <2>2 DEF Editor!RowOf
  <2>4. Editor!Clamp(row.min, p) = p.min /\ Editor!Clamp(row.max, p) = p.max
        /\ p.min # Editor!Blank /\ p.max # Editor!Blank
    BY <1>0, <2>3 DEF Editor!Clamp, Editor!Blank
  <2> QED  BY <1>0, <1>1, <2>2, <2>3, <2>4 DEF Editor!ReadRow, Editor!Or, Editor!Declared
<1>2. CASE Editor!IsEntry(entry) /\ Len(entry) = 1
  <2>1. Editor!IsPinned(entry) /\ entry # << >> /\ entry[1] \in Int /\ entry = <<entry[1]>>
    BY <1>2 DEF Editor!IsPinned, Editor!IsEntry
  <2>2. PICK row : row = Editor!RowOf(p, entry)  OBVIOUS
  <2>3. row.pin = TRUE /\ row.value = entry[1]
    BY <2>1, <2>2 DEF Editor!RowOf
  <2>4. entry[1] \in p.min .. p.max  BY <1>2, <2>1 DEF Editor!FitsRange
  <2>5. Editor!Clamp(row.value, p) = entry[1] /\ entry[1] # Editor!Blank
    BY <1>0, <2>3, <2>4 DEF Editor!Clamp, Editor!Blank
  <2> QED  BY <2>1, <2>2, <2>3, <2>5 DEF Editor!ReadRow, Editor!Or
<1>3. CASE Editor!IsEntry(entry) /\ Len(entry) = 3
  <2>1. ~Editor!IsPinned(entry) /\ entry # << >> /\ {entry[1], entry[2], entry[3]} \subseteq Int
        /\ entry = <<entry[1], entry[2], entry[3]>>
    <3>1. entry \in Seq(Int) /\ Len(entry) = 3  BY <1>3 DEF Editor!IsEntry
    <3>2. entry[1] \in Int /\ entry[2] \in Int /\ entry[3] \in Int  BY <3>1, TripleIs
    <3>3. ~Editor!IsPinned(entry) /\ entry # << >>  BY <3>1, TripleIsLong
    <3> QED  BY <3>1, <3>2, <3>3, TripleIs
  <2>2. PICK row : row = Editor!RowOf(p, entry)  OBVIOUS
  <2>3. row.pin = FALSE /\ row.min = entry[1] /\ row.max = entry[2] /\ row.step = entry[3]
    BY <2>1, <2>2 DEF Editor!RowOf
  <2>4. p.min <= entry[1] /\ entry[1] < entry[2] /\ entry[2] <= p.max /\ entry[3] > 0
    BY <1>3, <2>1 DEF Editor!FitsRange
  <2>5. Editor!Clamp(row.min, p) = entry[1] /\ Editor!Clamp(row.max, p) = entry[2]
        /\ entry[1] # Editor!Blank /\ entry[2] # Editor!Blank /\ entry[1] # entry[2]
    BY <1>0, <2>1, <2>3, <2>4 DEF Editor!Clamp, Editor!Blank
  <2> QED  BY <2>1, <2>2, <2>3, <2>4, <2>5 DEF Editor!ReadRow, Editor!Or
<1> QED  BY <1>1, <1>2, <1>3 DEF Editor!IsEntry

LEMMA SpansOfBlocks ==
    ASSUME NEW b \in DOMAIN Registry, NEW x \in DOMAIN Registry[b].params
    PROVE  IsSpan(Registry[b].params[x])
  BY RegistryAssumption DEF IsSpan

(* The declared range is a valid one.                                      *)
LEMMA DeclaredFits ==
    ASSUME NEW p, IsSpan(p)
    PROVE  Editor!FitsRange(Editor!Declared(p), p) /\ Editor!Declared(p) # << >>
<1>0. p.min \in Nat /\ p.max \in Nat /\ p.step \in Nat /\ p.step > 0 /\ p.min <= p.max  BY DEF IsSpan
<1>1. CASE p.min = p.max
  <2>1. Editor!Declared(p) = <<p.min>>  BY <1>1 DEF Editor!Declared
  <2>2. (p.min - p.min) % p.step = 0  BY <1>0
  <2> QED  BY <1>0, <1>1, <2>1, <2>2 DEF Editor!FitsRange, Editor!IsPinned
<1>2. CASE p.min # p.max
  <2>1. Editor!Declared(p) = <<p.min, p.max, p.step>>  BY <1>2 DEF Editor!Declared
  <2>2. p.step % p.step = 0  BY <1>0
  <2> QED  BY <1>0, <1>2, <2>1, <2>2 DEF Editor!FitsRange
<1> QED  BY <1>1, <1>2

-----------------------------------------------------------------------------
(* References to blocks, and the controls that show them.                  *)
ParamsIn(known, b) == IF b \in known THEN Registry[b].params ELSE Editor!NoParams
IsPick(p, known) ==
    /\ p = [block |-> p.block, rows |-> p.rows]
    /\ DOMAIN p.rows \subseteq DOMAIN ParamsIn(known, p.block)
    /\ \A x \in DOMAIN p.rows : p.rows[x] \in Controls
Shown(ref) ==
    LET ps == ParamsIn(DOMAIN Registry, ref.block)
    IN [block |-> ref.block,
        rows |-> [x \in DOMAIN ps |-> Editor!RowOf(ps[x], Editor!Entry(ref.params, x))]]

LEMMA NoParam == DOMAIN Editor!NoParams = {}
  BY DEF Editor!NoParams

LEMMA RefIsSome ==
    ASSUME NEW ref, Editor!IsRef(ref)
    PROVE  ref # Editor!NoRef
<1>1. ref.block \in DOMAIN Registry  BY DEF Editor!IsRef
<1>2. Editor!NoRef.block = Editor!None  BY DEF Editor!NoRef
<1> QED  BY <1>1, <1>2, RegistryAssumption

LEMMA RefIsRead ==
    ASSUME blocks \subseteq DOMAIN Registry, NEW p, IsPick(p, blocks)
    PROVE  IF p.block \in blocks THEN Editor!IsRef(Editor!BlockRef(p))
           ELSE Editor!BlockRef(p) = Editor!NoRef
<1>1. CASE p.block \notin blocks  BY <1>1 DEF Editor!BlockRef
<1>2. CASE p.block \in blocks
  <2>1. PICK ps : ps = Registry[p.block].params  OBVIOUS
  <2>2. Editor!Params(p.block) = ps  BY <1>2, <2>1 DEF Editor!Params
  <2>3. PICK ref : ref = Editor!BlockRef(p)  OBVIOUS
  <2>4. ref = [block |-> p.block, instance |-> Editor!Main,
               params |-> [x \in DOMAIN ps |->
                              Editor!ReadRow(ps[x], IF x \in DOMAIN p.rows THEN p.rows[x]
                                                    ELSE Editor!RowOf(ps[x], << >>))]]
    BY <1>2, <2>2, <2>3 DEF Editor!BlockRef
  <2>5. ref = [block |-> ref.block, instance |-> ref.instance, params |-> ref.params]
        /\ ref.block \in DOMAIN Registry
    BY <1>2, <2>4
  <2>6. ASSUME NEW x \in DOMAIN ref.params PROVE Editor!IsEntry(ref.params[x])
    <3>1. x \in DOMAIN ps  BY <2>4, <2>6
    <3>2. IsSpan(ps[x])  BY <1>2, <2>1, <3>1, SpansOfBlocks
    <3>3. PICK row : row = IF x \in DOMAIN p.rows THEN p.rows[x] ELSE Editor!RowOf(ps[x], << >>)
      OBVIOUS
    <3>4. row \in Controls  BY <3>2, <3>3, RowIsControls DEF IsPick
    <3>5. ref.params[x] = Editor!ReadRow(ps[x], row)  BY <2>4, <3>1, <3>3
    <3> QED  BY <3>2, <3>4, <3>5, ReadIsEntry
  <2>7. Editor!IsRef(ref)  BY <2>5, <2>6 DEF Editor!IsRef
  <2> QED  BY <1>2, <2>3, <2>7
<1> QED  BY <1>1, <1>2

LEMMA RenderedIsPick ==
    ASSUME blocks \subseteq DOMAIN Registry, NEW b, NEW params,
           \A x \in DOMAIN params : Editor!IsEntry(params[x])
    PROVE  IsPick(Editor!Rendered(b, params), blocks)
<1>1. PICK ps : ps = ParamsIn(blocks, b)  OBVIOUS
<1>2. Editor!Params(b) = ps  BY <1>1 DEF Editor!Params, ParamsIn
<1>3. PICK p : p = Editor!Rendered(b, params)  OBVIOUS
<1>4. p = [block |-> b, rows |-> [x \in DOMAIN ps |-> Editor!RowOf(ps[x], Editor!Entry(params, x))]]
  BY <1>2, <1>3 DEF Editor!Rendered
<1>5. ASSUME NEW x \in DOMAIN ps PROVE p.rows[x] \in Controls
  <2>1. b \in blocks /\ ps = Registry[b].params  BY <1>1, <1>5, NoParam DEF ParamsIn
  <2>2. IsSpan(ps[x])  BY <1>5, <2>1, SpansOfBlocks
  <2>3. Editor!Entry(params, x) = << >> \/ Editor!IsEntry(Editor!Entry(params, x))
    BY DEF Editor!Entry
  <2>4. p.rows[x] = Editor!RowOf(ps[x], Editor!Entry(params, x))  BY <1>4, <1>5
  <2> QED  BY <2>2, <2>3, <2>4, RowIsControls
<1>6. p = [block |-> p.block, rows |-> p.rows] /\ p.block = b /\ DOMAIN p.rows = DOMAIN ps  BY <1>4
<1>7. IsPick(p, blocks)  BY <1>1, <1>5, <1>6 DEF IsPick
<1> QED  BY <1>3, <1>7

(* What is shown of a valid reference to a main instance is read as what   *)
(* it means.                                                               *)
LEMMA ShownIsRead ==
    ASSUME blocks = DOMAIN Registry, NEW kind, NEW ref,
           \/ ref = Editor!NoRef
           \/ Editor!IsRef(ref) /\ Editor!ValidRef(ref, kind) /\ ref.instance = Editor!Main
    PROVE  Editor!BlockRef(Shown(ref)) = Editor!MeaningOf(ref)
<1>1. CASE ref = Editor!NoRef
  <2>1. ref.block \notin blocks  BY <1>1, RegistryAssumption DEF Editor!NoRef
  <2>2. Shown(ref).block = ref.block  BY DEF Shown
  <2> QED  BY <1>1, <2>1, <2>2 DEF Editor!BlockRef, Editor!MeaningOf
<1>2. CASE Editor!IsRef(ref) /\ Editor!ValidRef(ref, kind) /\ ref.instance = Editor!Main
  <2>1. PICK ps : ps = Registry[ref.block].params  OBVIOUS
  <2>2. ref.block \in blocks  BY <1>2 DEF Editor!IsRef
  <2>3. Editor!Params(ref.block) = ps /\ ParamsIn(DOMAIN Registry, ref.block) = ps
    BY <2>1, <2>2 DEF Editor!Params, ParamsIn
  <2>4. PICK p : p = Shown(ref)  OBVIOUS
  <2>5. p.block = ref.block
        /\ p.rows = [x \in DOMAIN ps |-> Editor!RowOf(ps[x], Editor!Entry(ref.params, x))]
    BY <2>3, <2>4 DEF Shown
  <2>6. Editor!BlockRef(p) =
            [block |-> ref.block, instance |-> Editor!Main,
             params |-> [x \in DOMAIN ps |->
                            Editor!ReadRow(ps[x], IF x \in DOMAIN p.rows THEN p.rows[x]
                                                  ELSE Editor!RowOf(ps[x], << >>))]]
    BY <2>2, <2>3, <2>5 DEF Editor!BlockRef
  <2>7. ASSUME NEW x \in DOMAIN ps
        PROVE  Editor!ReadRow(ps[x], IF x \in DOMAIN p.rows THEN p.rows[x]
                                     ELSE Editor!RowOf(ps[x], << >>))
                   = IF x \in DOMAIN ref.params THEN ref.params[x] ELSE Editor!Declared(ps[x])
    <3>1. IsSpan(ps[x])  BY <2>1, <2>2, <2>7, SpansOfBlocks
    <3>2. PICK entry : entry = Editor!Entry(ref.params, x)  OBVIOUS
    <3>3. x \in DOMAIN p.rows /\ p.rows[x] = Editor!RowOf(ps[x], entry)  BY <2>5, <2>7, <3>2
    <3>4. CASE x \in DOMAIN ref.params
      <4>1. entry = ref.params[x] /\ Editor!IsEntry(entry) /\ Editor!FitsRange(entry, ps[x])
        BY <1>2, <2>1, <3>2, <3>4 DEF Editor!Entry, Editor!IsRef, Editor!ValidRef
      <4>2. entry # << >>  BY <4>1 DEF Editor!IsEntry
      <4>3. Editor!ReadRow(ps[x], Editor!RowOf(ps[x], entry)) = entry
        BY <3>1, <4>1, <4>2, ReadsBack
      <4> QED  BY <3>3, <3>4, <4>1, <4>3
    <3>5. CASE x \notin DOMAIN ref.params
      <4>1. entry = << >>  BY <3>2, <3>5 DEF Editor!Entry
      <4>2. Editor!ReadRow(ps[x], Editor!RowOf(ps[x], entry)) = Editor!Declared(ps[x])
        BY <3>1, <4>1, ReadsBack
      <4> QED  BY <3>3, <3>5, <4>2
    <3> QED  BY <3>4, <3>5
  <2>8. ref # Editor!NoRef  BY <1>2, RefIsSome
  <2>9. Editor!MeaningOf(ref) =
            [ref EXCEPT !.params = [x \in DOMAIN ps |->
                IF x \in DOMAIN ref.params THEN ref.params[x] ELSE Editor!Declared(ps[x])]]
    BY <2>1, <2>8 DEF Editor!MeaningOf
  <2>10. ref = [block |-> ref.block, instance |-> Editor!Main, params |-> ref.params]
    BY <1>2 DEF Editor!IsRef
  <2>11. PICK f : f = [x \in DOMAIN ps |->
                IF x \in DOMAIN ref.params THEN ref.params[x] ELSE Editor!Declared(ps[x])]  OBVIOUS
  <2>12. Editor!BlockRef(p) = [block |-> ref.block, instance |-> Editor!Main, params |-> f]
    BY <2>6, <2>7, <2>11
  <2>13. Editor!MeaningOf(ref) = [block |-> ref.block, instance |-> Editor!Main, params |-> f]
    BY <2>9, <2>10, <2>11
  <2> QED  BY <2>4, <2>12, <2>13
<1> QED  BY <1>1, <1>2

LEMMA MeaningStays ==
    ASSUME NEW kind, NEW ref, Editor!IsRef(ref), Editor!ValidRef(ref, kind)
    PROVE  /\ Editor!MeaningOf(Editor!MeaningOf(ref)) = Editor!MeaningOf(ref)
           /\ Editor!ValidRef(Editor!MeaningOf(ref), kind)
           /\ Editor!MeaningOf(ref) # Editor!NoRef
           /\ Editor!MeaningOf(ref).block = ref.block
<1>1. PICK ps : ps = Registry[ref.block].params  OBVIOUS
<1>2. /\ ref.block \in DOMAIN Registry
      /\ ref = [block |-> ref.block, instance |-> ref.instance, params |-> ref.params]
  BY DEF Editor!IsRef
<1>3. PICK f : f = [x \in DOMAIN ps |->
              IF x \in DOMAIN ref.params THEN ref.params[x] ELSE Editor!Declared(ps[x])]  OBVIOUS
<1>4. ref # Editor!NoRef  BY RefIsSome
<1>5. PICK m : m = Editor!MeaningOf(ref)  OBVIOUS
<1>6. m = [block |-> ref.block, instance |-> ref.instance, params |-> f]
  <2>1. m = [ref EXCEPT !.params = f]  BY <1>1, <1>3, <1>4, <1>5 DEF Editor!MeaningOf
  <2> QED  BY <1>2, <2>1
<1>7. m.block = ref.block /\ m.params = f  BY <1>6
<1>8. m # Editor!NoRef
  <2>1. Editor!NoRef.block = Editor!None  BY DEF Editor!NoRef
  <2> QED  BY <1>2, <1>7, <2>1, RegistryAssumption
<1>9. Editor!MeaningOf(m) = m
  <2>1. [x \in DOMAIN ps |-> IF x \in DOMAIN m.params THEN m.params[x] ELSE Editor!Declared(ps[x])] = f
    BY <1>3, <1>7
  <2>2. Editor!MeaningOf(m) = [m EXCEPT !.params = f]
    BY <1>1, <1>7, <1>8, <2>1 DEF Editor!MeaningOf
  <2> QED  BY <1>6, <2>2
<1>10. Editor!ValidRef(m, kind)
  <2>1. Registry[m.block].kind = kind  BY <1>7 DEF Editor!ValidRef
  <2>2. ASSUME NEW x \in DOMAIN m.params
        PROVE  x \in DOMAIN ps /\ Editor!FitsRange(m.params[x], ps[x])
    <3>1. x \in DOMAIN ps  BY <1>3, <1>7, <2>2
    <3>2. IsSpan(ps[x])  BY <1>1, <1>2, <3>1, SpansOfBlocks
    <3>3. CASE x \in DOMAIN ref.params
      BY <1>1, <1>3, <1>7, <3>1, <3>3 DEF Editor!ValidRef
    <3>4. CASE x \notin DOMAIN ref.params
      BY <1>3, <1>7, <3>1, <3>2, <3>4, DeclaredFits
    <3> QED  BY <3>1, <3>3, <3>4
  <2> QED  BY <1>1, <1>7, <2>1, <2>2 DEF Editor!ValidRef
<1> QED  BY <1>5, <1>7, <1>8, <1>9, <1>10

(* readRows is defined for every list of rows; it skips the empty ones.    *)
ReadTo(rows, k, f) ==
    f = [n \in 0 .. k |->
            IF n = 0 THEN << >>
            ELSE IF Editor!BlockRef(rows[n]) = Editor!NoRef THEN f[n - 1]
                 ELSE Append(f[n - 1], Editor!BlockRef(rows[n]))]

LEMMA ReadExists ==
    ASSUME NEW rows, Len(rows) \in Nat
    PROVE  \E f : ReadTo(rows, Len(rows), f)
<1> DEFINE Bad == {k \in 0 .. Len(rows) : ~ \E f : ReadTo(rows, k, f)}
<1> SUFFICES ASSUME Bad # {} PROVE FALSE  OBVIOUS
<1>1. PICK k \in Bad : \A h \in Bad : k <= h
  <2>1. Bad \in SUBSET (0 .. Len(rows))  OBVIOUS
  <2> HIDE DEF Bad
  <2> QED  BY <2>1, HasSmallest
<1>2. k \in 0 .. Len(rows) /\ ~ \E f : ReadTo(rows, k, f)  OBVIOUS
<1>3. CASE k = 0
  <2> DEFINE f == [n \in 0 .. 0 |-> << >>]
  <2>1. f = [n \in 0 .. 0 |-> IF n = 0 THEN << >>
                              ELSE IF Editor!BlockRef(rows[n]) = Editor!NoRef THEN f[n - 1]
                                   ELSE Append(f[n - 1], Editor!BlockRef(rows[n]))]  OBVIOUS
  <2>2. ReadTo(rows, 0, f)  BY <2>1 DEF ReadTo
  <2> HIDE DEF f
  <2> QED  BY <1>2, <1>3, <2>2
<1>4. CASE k # 0
  <2>1. k - 1 \in 0 .. Len(rows)  BY <1>2, <1>4
  <2>2. PICK f : ReadTo(rows, k - 1, f)
    <3>1. k - 1 \notin Bad
      <4> HIDE DEF Bad
      <4> QED  BY <1>1, <1>2, <2>1
    <3> QED  BY <2>1, <3>1
  <2>3. PICK ref : ref = Editor!BlockRef(rows[k])  OBVIOUS
  <2> DEFINE r == IF ref = Editor!NoRef THEN f[k - 1] ELSE Append(f[k - 1], ref)
             h == [n \in 0 .. k |-> IF n = k THEN r ELSE f[n]]
  <2>4. ASSUME NEW n \in 0 .. k
        PROVE  h[n] = IF n = 0 THEN << >>
                      ELSE IF Editor!BlockRef(rows[n]) = Editor!NoRef THEN h[n - 1]
                           ELSE Append(h[n - 1], Editor!BlockRef(rows[n]))
    <3>1. n # 0 => h[n - 1] = f[n - 1]  BY <2>1, <2>4
    <3>2. n # k => h[n] = f[n] /\ f[n] = IF n = 0 THEN << >>
                      ELSE IF Editor!BlockRef(rows[n]) = Editor!NoRef THEN f[n - 1]
                           ELSE Append(f[n - 1], Editor!BlockRef(rows[n]))
      <4> SUFFICES ASSUME n # k
                   PROVE  h[n] = f[n] /\ f[n] = IF n = 0 THEN << >>
                      ELSE IF Editor!BlockRef(rows[n]) = Editor!NoRef THEN f[n - 1]
                           ELSE Append(f[n - 1], Editor!BlockRef(rows[n]))
        OBVIOUS
      <4>1. h[n] = f[n] /\ n \in 0 .. (k - 1)  BY <2>1, <2>4
      <4> HIDE DEF h
      <4>2. f[n] = IF n = 0 THEN << >>
                   ELSE IF Editor!BlockRef(rows[n]) = Editor!NoRef THEN f[n - 1]
                        ELSE Append(f[n - 1], Editor!BlockRef(rows[n]))
        BY <2>2, <4>1 DEF ReadTo
      <4> QED  BY <4>1, <4>2
    <3>3. n = k => h[n] = r /\ n # 0  BY <2>1, <2>4
    <3> HIDE DEF h
    <3> QED  BY <2>3, <3>1, <3>2, <3>3
  <2>5. h = [n \in 0 .. k |-> h[n]]  OBVIOUS
  <2> HIDE DEF h, r
  <2>6. ReadTo(rows, k, h)  BY <2>4, <2>5 DEF ReadTo
  <2> QED  BY <1>2, <2>6
<1> QED  BY <1>3, <1>4

LEMMA ReadIsStaged ==
    ASSUME NEW rows, Len(rows) \in Nat
    PROVE  \E f : /\ f[0] = << >> /\ f[Len(rows)] = Editor!ReadRows(rows)
                  /\ \A n \in 1 .. Len(rows) :
                         f[n] = IF Editor!BlockRef(rows[n]) = Editor!NoRef THEN f[n - 1]
                                ELSE Append(f[n - 1], Editor!BlockRef(rows[n]))
<1> DEFINE read == CHOOSE f : ReadTo(rows, Len(rows), f)
<1>1. \E f : ReadTo(rows, Len(rows), f)  BY ReadExists
<1>2. ReadTo(rows, Len(rows), read)  BY <1>1
<1>3. Editor!ReadRows(rows) = read[Len(rows)]  BY DEF Editor!ReadRows, ReadTo
<1> HIDE DEF read
<1>4. read[0] = << >>  BY <1>2 DEF ReadTo
<1>5. ASSUME NEW n \in 1 .. Len(rows)
      PROVE  read[n] = IF Editor!BlockRef(rows[n]) = Editor!NoRef THEN read[n - 1]
                       ELSE Append(read[n - 1], Editor!BlockRef(rows[n]))
  <2>1. n \in 0 .. Len(rows) /\ n # 0  BY <1>5
  <2>2. read[n] = IF n = 0 THEN << >>
                  ELSE IF Editor!BlockRef(rows[n]) = Editor!NoRef THEN read[n - 1]
                       ELSE Append(read[n - 1], Editor!BlockRef(rows[n]))
    BY <1>2, <2>1 DEF ReadTo
  <2> QED  BY <2>1, <2>2
<1> QED  BY <1>3, <1>4, <1>5

LEMMA RowsAreRead ==
    ASSUME blocks \subseteq DOMAIN Registry, NEW rows, Len(rows) \in Nat,
           \A n \in 1 .. Len(rows) : IsPick(rows[n], blocks)
    PROVE  /\ Editor!IsList(Editor!ReadRows(rows))
           /\ \A n \in DOMAIN Editor!ReadRows(rows) : Editor!IsRef(Editor!ReadRows(rows)[n])
<1>1. PICK f : /\ f[0] = << >> /\ f[Len(rows)] = Editor!ReadRows(rows)
               /\ \A n \in 1 .. Len(rows) :
                      f[n] = IF Editor!BlockRef(rows[n]) = Editor!NoRef THEN f[n - 1]
                             ELSE Append(f[n - 1], Editor!BlockRef(rows[n]))
  BY ReadIsStaged
<1>2. PICK S : S = {Editor!BlockRef(rows[n]) : n \in 1 .. Len(rows)} \ {Editor!NoRef}  OBVIOUS
<1>3. ASSUME NEW ref \in S PROVE Editor!IsRef(ref)
  <2>1. PICK n \in 1 .. Len(rows) : ref = Editor!BlockRef(rows[n]) /\ ref # Editor!NoRef  BY <1>2, <1>3
  <2> QED  BY <2>1, RefIsRead
<1> DEFINE Bad == {k \in 0 .. Len(rows) : f[k] \notin Seq(S)}
<1>4. ASSUME Bad # {} PROVE FALSE
  <2>1. PICK k \in Bad : \A h \in Bad : k <= h
    <3>1. Bad \in SUBSET (0 .. Len(rows))  OBVIOUS
    <3> HIDE DEF Bad
    <3> QED  BY <1>4, <3>1, HasSmallest
  <2>2. k \in 0 .. Len(rows) /\ f[k] \notin Seq(S)  OBVIOUS
  <2>3. k # 0
    <3>1. << >> \in Seq(S)  OBVIOUS
    <3> QED  BY <1>1, <2>2, <3>1
  <2>4. k - 1 \in 0 .. Len(rows) /\ k \in 1 .. Len(rows)  BY <2>2, <2>3
  <2>5. f[k - 1] \in Seq(S)
    <3>1. k - 1 \notin Bad
      <4> HIDE DEF Bad
      <4> QED  BY <2>1, <2>2, <2>4
    <3> QED  BY <2>4, <3>1
  <2>6. PICK ref : ref = Editor!BlockRef(rows[k])  OBVIOUS
  <2>7. ref # Editor!NoRef => ref \in S  BY <1>2, <2>4, <2>6
  <2>8. f[k] = IF ref = Editor!NoRef THEN f[k - 1] ELSE Append(f[k - 1], ref)  BY <1>1, <2>4, <2>6
  <2> QED  BY <2>2, <2>5, <2>7, <2>8
<1>5. PICK l : l = Editor!ReadRows(rows)  OBVIOUS
<1>6. l \in Seq(S)  BY <1>1, <1>4, <1>5
<1>7. Len(l) \in Nat /\ l = [n \in 1 .. Len(l) |-> l[n]] /\ DOMAIN l = 1 .. Len(l)  BY <1>6
<1>8. ASSUME NEW n \in DOMAIN l PROVE Editor!IsRef(l[n])
  <2>1. l[n] \in S  BY <1>6, <1>8
  <2> QED  BY <1>3, <2>1
<1> QED  BY <1>5, <1>7, <1>8 DEF Editor!IsList

LEMMA AllRowsAreRead ==
    ASSUME NEW rows, Len(rows) \in Nat,
           \A n \in 1 .. Len(rows) : Editor!BlockRef(rows[n]) # Editor!NoRef
    PROVE  Editor!ReadRows(rows) = [n \in 1 .. Len(rows) |-> Editor!BlockRef(rows[n])]
<1>1. PICK f : /\ f[0] = << >> /\ f[Len(rows)] = Editor!ReadRows(rows)
               /\ \A n \in 1 .. Len(rows) :
                      f[n] = IF Editor!BlockRef(rows[n]) = Editor!NoRef THEN f[n - 1]
                             ELSE Append(f[n - 1], Editor!BlockRef(rows[n]))
  BY ReadIsStaged
<1>2. PICK refs : refs = [n \in 1 .. Len(rows) |-> Editor!BlockRef(rows[n])]  OBVIOUS
<1>3. PICK S : S = {Editor!BlockRef(rows[n]) : n \in 1 .. Len(rows)}  OBVIOUS
<1>4. ASSUME NEW n \in 1 .. Len(rows) PROVE f[n] = Append(f[n - 1], refs[n]) /\ refs[n] \in S
  BY <1>1, <1>2, <1>3, <1>4
<1> DEFINE Upto(k) == [n \in 1 .. k |-> refs[n]]
           Bad == {k \in 0 .. Len(rows) : f[k] # Upto(k)}
<1>5. ASSUME Bad # {} PROVE FALSE
  <2>1. PICK k \in Bad : \A h \in Bad : k <= h
    <3>1. Bad \in SUBSET (0 .. Len(rows))  OBVIOUS
    <3> HIDE DEF Bad
    <3> QED  BY <1>5, <3>1, HasSmallest
  <2>2. k \in 0 .. Len(rows) /\ f[k] # Upto(k)  OBVIOUS
  <2>3. k # 0
    <3>1. Upto(0) = << >>  OBVIOUS
    <3> QED  BY <1>1, <2>2, <3>1
  <2>4. k - 1 \in 0 .. Len(rows) /\ k \in 1 .. Len(rows)  BY <2>2, <2>3
  <2>5. f[k - 1] = Upto(k - 1)
    <3>1. k - 1 \notin Bad
      <4> HIDE DEF Bad
      <4> QED  BY <2>1, <2>2, <2>4
    <3> QED  BY <2>4, <3>1
  <2>6. f[k] = Append(Upto(k - 1), refs[k])  BY <1>4, <2>4, <2>5
  <2>7. Upto(k - 1) \in Seq(S) /\ Len(Upto(k - 1)) = k - 1  BY <1>4, <2>4
  <2>8. Append(Upto(k - 1), refs[k]) = Upto(k)
    <3>1. PICK g : g = Upto(k - 1)  OBVIOUS
    <3>2. PICK a : a = Append(g, refs[k])  OBVIOUS
    <3>3. a \in Seq(S) /\ Len(a) = k  BY <1>4, <2>4, <2>7, <3>1, <3>2
    <3>4. ASSUME NEW n \in 1 .. k PROVE a[n] = refs[n]
      <4>1. CASE n = k  BY <2>7, <3>1, <3>2, <4>1, <1>4, <2>4
      <4>2. CASE n # k
        <5>1. n \in 1 .. (k - 1) /\ g[n] = refs[n]  BY <2>4, <3>1, <3>4, <4>2
        <5> QED  BY <2>7, <3>1, <3>2, <5>1, <1>4, <2>4
      <4> QED  BY <4>1, <4>2
    <3>5. a = [n \in 1 .. k |-> a[n]]  BY <3>3
    <3>6. a = Upto(k)  BY <3>4, <3>5
    <3> QED  BY <3>1, <3>2, <3>6
  <2> QED  BY <2>2, <2>6, <2>8
<1>6. f[Len(rows)] = Upto(Len(rows))
  <2>1. Len(rows) \in 0 .. Len(rows)  OBVIOUS
  <2> HIDE DEF Upto
  <2> QED  BY <1>5, <2>1
<1>7. Upto(Len(rows)) = refs  BY <1>2
<1> QED  BY <1>1, <1>2, <1>6, <1>7

-----------------------------------------------------------------------------
(* The form f shows the spec o.                                            *)
Faithful(f, o) ==
    /\ f.name = o.name /\ f.mode = o.mode /\ f.fmode = o.fmode
    /\ f.slots = [s \in Editor!Slots |-> Shown(o.slots[s])]
    /\ Len(f.entries) = Len(o.entries)
    /\ \A n \in 1 .. Len(o.entries) : f.entries[n] = Shown(o.entries[n])
    /\ Len(f.filters) = Len(o.filters)
    /\ \A n \in 1 .. Len(o.filters) : f.filters[n] = Shown(o.filters[n])
    /\ o.mode = "score" =>
           /\ f.thrMin = o.threshold[1]
           /\ f.thrMax = o.threshold[IF Len(o.threshold) = 1 THEN 1 ELSE 2]
           /\ Len(o.threshold) = 1 \/ o.threshold[3] = 1
    /\ Editor!Representable(o)
    /\ f.weights = Editor!AllWeights(o.fitness) /\ f.ret = o.fitness.ret
    /\ f.rest = Editor!AllRest(o.fitness) /\ f.extras = o.fitness.extras

Accepted(o) == Editor!IsSpec(o) /\ Editor!Valid(o)

LEMMA ThresholdIsRead ==
    ASSUME NEW o, Accepted(o), NEW f, form = f, Faithful(f, o)
    PROVE  Editor!Threshold = o.threshold
<1>1. CASE o.mode # "score"
  <2>1. form.mode # "score"  BY <1>1 DEF Faithful
  <2>2. o.threshold = << >>  BY <1>1 DEF Accepted, Editor!IsSpec
  <2> QED  BY <2>1, <2>2 DEF Editor!Threshold
<1>2. CASE o.mode = "score"
  <2>1. PICK t : t = o.threshold  OBVIOUS
  <2>2. Editor!IsEntry(t)  BY <1>2, <2>1 DEF Accepted, Editor!IsSpec
  <2>3. Editor!FitsRange(t, [min |-> 1, max |-> 100, step |-> 1])
    BY <1>2, <2>1 DEF Accepted, Editor!Valid
  <2>4. t \in Seq(Int) /\ Len(t) \in {1, 3} /\ t # << >>  BY <2>2 DEF Editor!IsEntry
  <2>5. f.mode = "score" /\ f.thrMin = t[1] /\ f.thrMax = t[IF Len(t) = 1 THEN 1 ELSE 2]
        /\ (Len(t) = 1 \/ t[3] = 1)
    BY <1>2, <2>1 DEF Faithful
  <2>6. CASE Len(t) = 1
    <3>1. t[1] \in 1 .. 100 /\ t = <<t[1]>>
      <4>1. PICK p : p = [min |-> 1, max |-> 100, step |-> 1]  OBVIOUS
      <4>2. Editor!FitsRange(t, p) /\ p.min = 1 /\ p.max = 100  BY <2>3, <4>1
      <4>3. t[1] \in p.min .. p.max  BY <2>4, <2>6, <4>2 DEF Editor!FitsRange
      <4> QED  BY <2>4, <2>6, <4>2, <4>3
    <3> QED  BY <2>1, <2>5, <2>6, <3>1 DEF Editor!Threshold
  <2>7. CASE Len(t) = 3
    <3>1. 1 <= t[1] /\ t[1] < t[2]
      BY <2>3, <2>4, <2>7 DEF Editor!FitsRange, Editor!IsPinned
    <3>2. t = <<t[1], t[2], t[3]>> /\ t[1] \in Int /\ t[2] \in Int  BY <2>4, <2>7, TripleIs
    <3>3. t[3] = 1  BY <2>5, <2>7
    <3> QED  BY <2>1, <2>5, <2>7, <3>1, <3>2, <3>3 DEF Editor!Threshold
  <2> QED  BY <2>4, <2>6, <2>7
<1> QED  BY <1>1, <1>2

LEMMA ListIsRead ==
    ASSUME blocks = DOMAIN Registry, NEW kind, NEW refs, Len(refs) \in Nat,
           \A n \in 1 .. Len(refs) : /\ Editor!IsRef(refs[n]) /\ Editor!ValidRef(refs[n], kind)
                                     /\ refs[n].instance = Editor!Main,
           NEW rows, Len(rows) = Len(refs), \A n \in 1 .. Len(refs) : rows[n] = Shown(refs[n])
    PROVE  Editor!ReadRows(rows) = [n \in 1 .. Len(refs) |-> Editor!MeaningOf(refs[n])]
<1>1. ASSUME NEW n \in 1 .. Len(refs)
      PROVE  Editor!BlockRef(rows[n]) = Editor!MeaningOf(refs[n])
             /\ Editor!MeaningOf(refs[n]) # Editor!NoRef
  BY <1>1, ShownIsRead, MeaningStays
<1>2. \A n \in 1 .. Len(rows) : Editor!BlockRef(rows[n]) # Editor!NoRef  BY <1>1
<1>3. Editor!ReadRows(rows) = [n \in 1 .. Len(rows) |-> Editor!BlockRef(rows[n])]
  BY <1>2, AllRowsAreRead
<1> QED  BY <1>1, <1>3

LEMMA SpecParts ==
    ASSUME NEW o, Accepted(o)
    PROVE  /\ \A s \in Editor!Slots : \/ o.slots[s] = Editor!NoRef
                                      \/ Editor!IsRef(o.slots[s]) /\ Editor!ValidRef(o.slots[s], s)
           /\ Len(o.entries) \in Nat /\ Len(o.filters) \in Nat
           /\ DOMAIN o.entries = 1 .. Len(o.entries) /\ DOMAIN o.filters = 1 .. Len(o.filters)
           /\ Len(o.entries) # 0
           /\ \A n \in 1 .. Len(o.entries) :
                  Editor!IsRef(o.entries[n]) /\ Editor!ValidRef(o.entries[n], "entry")
           /\ \A n \in 1 .. Len(o.filters) :
                  Editor!IsRef(o.filters[n]) /\ Editor!ValidRef(o.filters[n], "filter")
<1>1. Editor!IsList(o.entries) /\ Editor!IsList(o.filters)  BY DEF Accepted, Editor!IsSpec
<1>2. /\ Len(o.entries) \in Nat /\ o.entries = [n \in 1 .. Len(o.entries) |-> o.entries[n]]
      /\ Len(o.filters) \in Nat /\ o.filters = [n \in 1 .. Len(o.filters) |-> o.filters[n]]
  BY <1>1 DEF Editor!IsList
<1>3. DOMAIN o.entries = 1 .. Len(o.entries) /\ DOMAIN o.filters = 1 .. Len(o.filters)
  BY <1>2
<1>4. Len(o.entries) # 0
  <2>1. o.entries # << >>  BY DEF Accepted, Editor!Valid
  <2> QED  BY <1>2, <2>1
<1>5. \A s \in Editor!Slots : \/ o.slots[s] = Editor!NoRef
                              \/ Editor!IsRef(o.slots[s]) /\ Editor!ValidRef(o.slots[s], s)
  BY DEF Accepted, Editor!IsSpec, Editor!Valid
<1>6. \A n \in DOMAIN o.entries : Editor!IsRef(o.entries[n]) /\ Editor!ValidRef(o.entries[n], "entry")
  BY DEF Accepted, Editor!IsSpec, Editor!Valid
<1>7. \A n \in DOMAIN o.filters : Editor!IsRef(o.filters[n]) /\ Editor!ValidRef(o.filters[n], "filter")
  BY DEF Accepted, Editor!IsSpec, Editor!Valid
<1> QED  BY <1>2, <1>3, <1>4, <1>5, <1>6, <1>7

(* The fitness section that is read of one that is shown: what is left out *)
(* is filled in, and means what it meant.                                  *)
Full(w) == w \in [1 .. 3 -> Int] /\ \A k \in 1 .. 3 : w[k] # Editor!Blank
Told(ft) ==
    [weights |-> Editor!AllWeights(ft), ret |-> ft.ret,
     rest |-> Editor!AllRest(ft), extras |-> ft.extras]
IsFitness(ft) ==
    /\ ft = [weights |-> ft.weights, ret |-> ft.ret, rest |-> ft.rest, extras |-> ft.extras]
    /\ ft.weights \in [1 .. 3 -> Int]

LEMMA FitnessNames ==
    ASSUME NEW w, NEW t, NEW r, NEW e
    PROVE  [weights |-> w, ret |-> t, rest |-> r, extras |-> e] # Editor!NoFitness
<1>1. "weights" \in DOMAIN [weights |-> w, ret |-> t, rest |-> r, extras |-> e]  OBVIOUS
<1>2. "weights" \notin DOMAIN Editor!NoFitness  BY DEF Editor!NoFitness
<1> QED  BY <1>1, <1>2

LEMMA DefaultFits ==
    /\ IsFitness(Editor!DefaultFitness) /\ Full(Editor!DefaultFitness.weights)
    /\ Editor!DefaultFitness.ret = 100 /\ Editor!DefaultFitness.rest = "default"
    /\ Editor!DefaultFitness.weights = <<50, 30, 20>>
    /\ Editor!SumOf(Editor!DefaultFitness.weights) = 100
<1>1. PICK w : w = <<50, 30, 20>>  OBVIOUS
<1>2. Editor!DefaultFitness = [weights |-> w, ret |-> 100, rest |-> "default", extras |-> "default"]
  BY <1>1 DEF Editor!DefaultFitness
<1>3. Full(w)  BY <1>1 DEF Full, Editor!Blank
<1>4. Editor!SumOf(w) = 100  BY <1>1 DEF Editor!SumOf, Editor!Or, Editor!Blank
<1> QED  BY <1>1, <1>2, <1>3, <1>4 DEF IsFitness, Full

LEMMA AllAreFull ==
    ASSUME NEW ft, ft.weights \in [1 .. 3 -> Int]
    PROVE  Full(Editor!AllWeights(ft))
<1>1. ASSUME NEW k \in 1 .. 3
      PROVE  /\ Editor!Or(ft.weights[k], Editor!DefaultFitness.weights[k]) \in Int
             /\ Editor!Or(ft.weights[k], Editor!DefaultFitness.weights[k]) # Editor!Blank
  <2>1. ft.weights[k] \in Int  BY <1>1
  <2>2. Editor!DefaultFitness.weights[k] \in Int /\ Editor!DefaultFitness.weights[k] # Editor!Blank
    BY <1>1, DefaultFits DEF Full
  <2> QED  BY <2>1, <2>2 DEF Editor!Or
<1> QED  BY <1>1 DEF Full, Editor!AllWeights

LEMMA FullStays ==
    ASSUME NEW ft, Full(ft.weights)
    PROVE  Editor!AllWeights(ft) = ft.weights
<1>1. ASSUME NEW k \in 1 .. 3
      PROVE  Editor!Or(ft.weights[k], Editor!DefaultFitness.weights[k]) = ft.weights[k]
  BY <1>1 DEF Full, Editor!Or
<1>2. ft.weights = [k \in 1 .. 3 |-> ft.weights[k]]  BY DEF Full
<1> QED  BY <1>1, <1>2 DEF Editor!AllWeights

LEMMA SnapsAreFull ==
    ASSUME NEW w \in [1 .. 3 -> Int]
    PROVE  Full(Editor!Snapped(w))
<1>1. ASSUME NEW k \in 1 .. 3
      PROVE  Editor!Snap(w[k]) \in Int /\ Editor!Snap(w[k]) # Editor!Blank
  <2>1. w[k] \in Int  BY <1>1
  <2>2. PICK q : q = (w[k] + 2) \div 5  OBVIOUS
  <2>3. q \in Int  BY <2>1, <2>2
  <2>4. Editor!Snap(w[k]) = q * 5  BY <2>2 DEF Editor!Snap
  <2> QED  BY <2>3, <2>4 DEF Editor!Blank
<1> QED  BY <1>1 DEF Editor!Snapped, Full

(* Weights that the sliders can tell are those that are read.              *)
LEMMA WeightsAreTold ==
    ASSUME NEW o, Editor!TellsWeights(o), NEW ft, ft = o.fitness, ft.weights \in [1 .. 3 -> Int]
    PROVE  /\ Editor!Snapped(Editor!AllWeights(ft)) = Editor!AllWeights(ft)
           /\ Editor!SumOf(Editor!AllWeights(ft)) \in {100, Editor!SumOf(ft.weights)}
<1>1. CASE ft.weights = Editor!Snapped(ft.weights)
  <2>1. PICK w : w = ft.weights  OBVIOUS
  <2>2. Full(Editor!Snapped(w))  BY <2>1, SnapsAreFull
  <2>3. Full(ft.weights)  BY <1>1, <2>1, <2>2
  <2>4. Editor!AllWeights(ft) = ft.weights  BY <2>3, FullStays
  <2> QED  BY <1>1, <2>4
<1>2. CASE \A k \in 1 .. 3 : ft.weights[k] = Editor!Blank
  <2>1. PICK w : w = Editor!DefaultFitness.weights  OBVIOUS
  <2>2. w = <<50, 30, 20>> /\ Editor!SumOf(w) = 100  BY <2>1, DefaultFits
  <2>3. Editor!AllWeights(ft) = w
    <3>1. \A k \in 1 .. 3 : Editor!Or(ft.weights[k], w[k]) = w[k]  BY <1>2 DEF Editor!Or
    <3>2. w = [k \in 1 .. 3 |-> w[k]]  BY <2>2
    <3> QED  BY <2>1, <3>1, <3>2 DEF Editor!AllWeights
  <2>4. Editor!Snapped(w) = w
    <3>1. Editor!Snap(50) = 50 /\ Editor!Snap(30) = 30 /\ Editor!Snap(20) = 20  BY DEF Editor!Snap
    <3>2. \A k \in 1 .. 3 : Editor!Snap(w[k]) = w[k]  BY <2>2, <3>1
    <3>3. w = [k \in 1 .. 3 |-> w[k]]  BY <2>2
    <3> QED  BY <3>2, <3>3 DEF Editor!Snapped
  <2> QED  BY <2>2, <2>3, <2>4
<1> QED  BY <1>1, <1>2 DEF Editor!TellsWeights

LEMMA ToldMeansTheSame ==
    ASSUME NEW ft, IsFitness(ft)
    PROVE  Editor!Completed(Told(ft)) = Editor!Completed(ft)
<1>1. PICK w, r : w = Editor!AllWeights(ft) /\ r = Editor!AllRest(ft)  OBVIOUS
<1>2. PICK t : t = Told(ft)  OBVIOUS
<1>3. t = [weights |-> w, ret |-> ft.ret, rest |-> r, extras |-> ft.extras]  BY <1>1, <1>2 DEF Told
<1>4. t # Editor!NoFitness /\ ft # Editor!NoFitness  BY <1>3, FitnessNames DEF IsFitness
<1>5. t.weights = w /\ t.ret = ft.ret /\ t.rest = r /\ t.extras = ft.extras  BY <1>3
<1>6. Editor!AllWeights(t) = w
  <2>1. Full(w)  BY <1>1, AllAreFull DEF IsFitness
  <2> QED  BY <1>5, <2>1, FullStays
<1>7. Editor!AllRest(t) = r
  BY <1>1, <1>5, DefaultFits DEF Editor!AllRest, Editor!None
<1> QED  BY <1>1, <1>2, <1>4, <1>5, <1>6, <1>7 DEF Editor!Completed

(* A form that shows a spec is read as what the spec means.                *)
LEMMA FormIsRead ==
    ASSUME blocks = DOMAIN Registry, NEW o, Accepted(o), NEW f, form = f, Faithful(f, o)
    PROVE  Editor!BuildSpecFromUi =
               [name |-> o.name, slots |-> [s \in Editor!Slots |-> Editor!MeaningOf(o.slots[s])],
                entries |-> [n \in 1 .. Len(o.entries) |-> Editor!MeaningOf(o.entries[n])],
                filters |-> [n \in 1 .. Len(o.filters) |-> Editor!MeaningOf(o.filters[n])],
                mode |-> o.mode, threshold |-> o.threshold, fmode |-> o.fmode,
                fitness |-> Told(o.fitness), other |-> "default"]
<1>0. Editor!TellsBlocks(o) /\ o.fitness.ret # Editor!Blank  BY DEF Faithful, Editor!Representable
<1>1. Editor!ReadRows(f.entries) = [n \in 1 .. Len(o.entries) |-> Editor!MeaningOf(o.entries[n])]
  <2>1. PICK refs : refs = o.entries  OBVIOUS
  <2>2. Len(refs) \in Nat /\ \A n \in 1 .. Len(refs) :
            /\ Editor!IsRef(refs[n]) /\ Editor!ValidRef(refs[n], "entry")
            /\ refs[n].instance = Editor!Main
    BY <1>0, <2>1, SpecParts DEF Editor!TellsBlocks
  <2>3. Len(f.entries) = Len(refs) /\ \A n \in 1 .. Len(refs) : f.entries[n] = Shown(refs[n])
    BY <2>1 DEF Faithful
  <2> QED  BY <2>1, <2>2, <2>3, ListIsRead
<1>2. Editor!ReadRows(f.filters) = [n \in 1 .. Len(o.filters) |-> Editor!MeaningOf(o.filters[n])]
  <2>1. PICK refs : refs = o.filters  OBVIOUS
  <2>2. Len(refs) \in Nat /\ \A n \in 1 .. Len(refs) :
            /\ Editor!IsRef(refs[n]) /\ Editor!ValidRef(refs[n], "filter")
            /\ refs[n].instance = Editor!Main
    BY <1>0, <2>1, SpecParts DEF Editor!TellsBlocks
  <2>3. Len(f.filters) = Len(refs) /\ \A n \in 1 .. Len(refs) : f.filters[n] = Shown(refs[n])
    BY <2>1 DEF Faithful
  <2> QED  BY <2>1, <2>2, <2>3, ListIsRead
<1>3. [s \in Editor!Slots |-> Editor!BlockRef(f.slots[s])]
          = [s \in Editor!Slots |-> Editor!MeaningOf(o.slots[s])]
  <2>1. ASSUME NEW s \in Editor!Slots PROVE Editor!BlockRef(f.slots[s]) = Editor!MeaningOf(o.slots[s])
    <3>1. f.slots[s] = Shown(o.slots[s])  BY <2>1 DEF Faithful
    <3>2. PICK ref : ref = o.slots[s]  OBVIOUS
    <3>3. \/ ref = Editor!NoRef
          \/ Editor!IsRef(ref) /\ Editor!ValidRef(ref, s) /\ ref.instance = Editor!Main
      BY <1>0, <2>1, <3>2, SpecParts DEF Editor!TellsBlocks
    <3> QED  BY <3>1, <3>2, <3>3, ShownIsRead
  <2> QED  BY <2>1
<1>4. Editor!Threshold = o.threshold  BY ThresholdIsRead
<1>5. [weights |-> f.weights, ret |-> Editor!Or(f.ret, defaults), rest |-> f.rest,
       extras |-> f.extras] = Told(o.fitness)
  <2>1. Editor!Or(f.ret, defaults) = o.fitness.ret  BY <1>0 DEF Faithful, Editor!Or
  <2> QED  BY <2>1 DEF Faithful, Told
<1>6. f.name = o.name /\ f.mode = o.mode /\ f.fmode = o.fmode  BY DEF Faithful
<1> QED  BY <1>1, <1>2, <1>3, <1>4, <1>5, <1>6 DEF Editor!BuildSpecFromUi

LEMMA MeaningParts ==
    ASSUME NEW o, o = [name |-> o.name, slots |-> o.slots, entries |-> o.entries, filters |-> o.filters,
                       mode |-> o.mode, threshold |-> o.threshold, fmode |-> o.fmode,
                       fitness |-> o.fitness, other |-> o.other]
    PROVE  Editor!Meaning(o) =
               [name |-> o.name, slots |-> [s \in Editor!Slots |-> Editor!MeaningOf(o.slots[s])],
                entries |-> [n \in DOMAIN o.entries |-> Editor!MeaningOf(o.entries[n])],
                filters |-> [n \in DOMAIN o.filters |-> Editor!MeaningOf(o.filters[n])],
                mode |-> o.mode, threshold |-> o.threshold, fmode |-> o.fmode,
                fitness |-> Editor!Completed(o.fitness), other |-> "default"]
<1>1. PICK c : c = Editor!Completed(o.fitness)  OBVIOUS
<1>2. Editor!Normalized(o) = [o EXCEPT !.fitness = c]  BY <1>1 DEF Editor!Normalized
<1>3. Editor!Normalized(o) =
          [name |-> o.name, slots |-> o.slots, entries |-> o.entries, filters |-> o.filters,
           mode |-> o.mode, threshold |-> o.threshold, fmode |-> o.fmode,
           fitness |-> c, other |-> o.other]
  BY <1>2
<1>4. PICK a : a = [s \in Editor!Slots |-> Editor!MeaningOf(o.slots[s])]  OBVIOUS
<1>5. PICK e : e = [n \in DOMAIN o.entries |-> Editor!MeaningOf(o.entries[n])]  OBVIOUS
<1>6. PICK g : g = [n \in DOMAIN o.filters |-> Editor!MeaningOf(o.filters[n])]  OBVIOUS
<1>7. PICK d : d = Editor!Normalized(o)  OBVIOUS
<1>8. d.entries = o.entries /\ d.filters = o.filters  BY <1>3, <1>7
<1>9. Editor!Meaning(o) = [d EXCEPT !.slots = a, !.entries = e, !.filters = g, !.other = "default"]
  BY <1>4, <1>5, <1>6, <1>7, <1>8 DEF Editor!Meaning
<1>10. Editor!Meaning(o) =
          [name |-> o.name, slots |-> a, entries |-> e, filters |-> g,
           mode |-> o.mode, threshold |-> o.threshold, fmode |-> o.fmode,
           fitness |-> c, other |-> "default"]
  <2>1. PICK r : r = [d EXCEPT !.slots = a]  OBVIOUS
  <2>2. r = [name |-> o.name, slots |-> a, entries |-> o.entries, filters |-> o.filters,
             mode |-> o.mode, threshold |-> o.threshold, fmode |-> o.fmode,
             fitness |-> c, other |-> o.other]
    BY <1>3, <1>7, <2>1
  <2>3. PICK t : t = [r EXCEPT !.entries = e]  OBVIOUS
  <2>4. t = [name |-> o.name, slots |-> a, entries |-> e, filters |-> o.filters,
             mode |-> o.mode, threshold |-> o.threshold, fmode |-> o.fmode,
             fitness |-> c, other |-> o.other]
    BY <2>2, <2>3
  <2>5. PICK u : u = [t EXCEPT !.filters = g]  OBVIOUS
  <2>6. u = [name |-> o.name, slots |-> a, entries |-> e, filters |-> g,
             mode |-> o.mode, threshold |-> o.threshold, fmode |-> o.fmode,
             fitness |-> c, other |-> o.other]
    BY <2>4, <2>5
  <2>7. Editor!Meaning(o) = [u EXCEPT !.other = "default"]  BY <1>9, <2>1, <2>3, <2>5
  <2> QED  BY <2>6, <2>7
<1> QED  BY <1>1, <1>4, <1>5, <1>6, <1>10

LEMMA SlotsStay ==
    ASSUME NEW o, Accepted(o), NEW s \in Editor!Slots
    PROVE  LET m == Editor!MeaningOf(o.slots[s])
           IN /\ Editor!MeaningOf(m) = m
              /\ m # Editor!NoRef <=> o.slots[s] # Editor!NoRef
              /\ m # Editor!NoRef => Editor!ValidRef(m, s) /\ m.block = o.slots[s].block
<1>1. PICK ref : ref = o.slots[s]  OBVIOUS
<1>2. CASE ref = Editor!NoRef
  <2>1. Editor!MeaningOf(ref) = ref  BY <1>2 DEF Editor!MeaningOf
  <2> QED  BY <1>1, <1>2, <2>1
<1>3. CASE Editor!IsRef(ref) /\ Editor!ValidRef(ref, s)
  <2>1. ref # Editor!NoRef  BY <1>3, RefIsSome
  <2> QED  BY <1>1, <1>3, <2>1, MeaningStays
<1> QED  BY <1>1, <1>2, <1>3, SpecParts

LEMMA KeepsTheSpec ==
    ASSUME blocks = DOMAIN Registry, NEW o, Accepted(o), NEW f, form = f, Faithful(f, o)
    PROVE  /\ Editor!Meaning(Editor!BuildSpecFromUi) = Editor!Meaning(o)
           /\ Editor!Valid(Editor!BuildSpecFromUi)
<1>0. PICK ft : ft = Told(o.fitness)  OBVIOUS
<1>1. PICK b : b = Editor!BuildSpecFromUi  OBVIOUS
<1>2. PICK a : a = [s \in Editor!Slots |-> Editor!MeaningOf(o.slots[s])]  OBVIOUS
<1>3. PICK e : e = [n \in 1 .. Len(o.entries) |-> Editor!MeaningOf(o.entries[n])]  OBVIOUS
<1>4. PICK g : g = [n \in 1 .. Len(o.filters) |-> Editor!MeaningOf(o.filters[n])]  OBVIOUS
<1>5. b = [name |-> o.name, slots |-> a, entries |-> e, filters |-> g,
           mode |-> o.mode, threshold |-> o.threshold, fmode |-> o.fmode,
           fitness |-> ft, other |-> "default"]
  BY <1>0, <1>1, <1>2, <1>3, <1>4, FormIsRead
<1>6. /\ b.name = o.name /\ b.slots = a /\ b.entries = e /\ b.filters = g /\ b.mode = o.mode
      /\ b.threshold = o.threshold /\ b.fmode = o.fmode /\ b.fitness = ft /\ b.other = "default"
  BY <1>5
<1>7. /\ Len(o.entries) \in Nat /\ Len(o.filters) \in Nat /\ Len(o.entries) # 0
      /\ DOMAIN o.entries = 1 .. Len(o.entries) /\ DOMAIN o.filters = 1 .. Len(o.filters)
      /\ DOMAIN e = 1 .. Len(o.entries) /\ DOMAIN g = 1 .. Len(o.filters)
  BY <1>3, <1>4, SpecParts
<1>8. ASSUME NEW s \in Editor!Slots
      PROVE  /\ Editor!MeaningOf(a[s]) = a[s]
             /\ a[s] # Editor!NoRef <=> o.slots[s] # Editor!NoRef
             /\ a[s] # Editor!NoRef => Editor!ValidRef(a[s], s) /\ a[s].block = o.slots[s].block
  BY <1>2, <1>8, SlotsStay
<1>9. ASSUME NEW n \in 1 .. Len(o.entries)
      PROVE  /\ e[n] = Editor!MeaningOf(o.entries[n])
             /\ Editor!MeaningOf(e[n]) = e[n] /\ Editor!ValidRef(e[n], "entry")
  <2>1. PICK ref : ref = o.entries[n]  OBVIOUS
  <2>2. Editor!IsRef(ref) /\ Editor!ValidRef(ref, "entry")  BY <1>9, <2>1, SpecParts
  <2>3. e[n] = Editor!MeaningOf(ref)  BY <1>3, <1>9, <2>1
  <2> QED  BY <2>1, <2>2, <2>3, MeaningStays
<1>10. ASSUME NEW n \in 1 .. Len(o.filters)
      PROVE  /\ g[n] = Editor!MeaningOf(o.filters[n])
             /\ Editor!MeaningOf(g[n]) = g[n] /\ Editor!ValidRef(g[n], "filter")
  <2>1. PICK ref : ref = o.filters[n]  OBVIOUS
  <2>2. Editor!IsRef(ref) /\ Editor!ValidRef(ref, "filter")  BY <1>10, <2>1, SpecParts
  <2>3. g[n] = Editor!MeaningOf(ref)  BY <1>4, <1>10, <2>1
  <2> QED  BY <2>1, <2>2, <2>3, MeaningStays
<1>11. Editor!Meaning(b) = Editor!Meaning(o)
  <2>1. [s \in Editor!Slots |-> Editor!MeaningOf(a[s])] = a  BY <1>2, <1>8
  <2>2. [n \in DOMAIN e |-> Editor!MeaningOf(e[n])] = e  BY <1>3, <1>7, <1>9
  <2>3. [n \in DOMAIN g |-> Editor!MeaningOf(g[n])] = g  BY <1>4, <1>7, <1>10
  <2>4. Editor!Meaning(b) =
            [name |-> b.name, slots |-> [s \in Editor!Slots |-> Editor!MeaningOf(b.slots[s])],
             entries |-> [n \in DOMAIN b.entries |-> Editor!MeaningOf(b.entries[n])],
             filters |-> [n \in DOMAIN b.filters |-> Editor!MeaningOf(b.filters[n])],
             mode |-> b.mode, threshold |-> b.threshold, fmode |-> b.fmode,
             fitness |-> Editor!Completed(b.fitness), other |-> "default"]
    <3>1. b = [name |-> b.name, slots |-> b.slots, entries |-> b.entries, filters |-> b.filters,
               mode |-> b.mode, threshold |-> b.threshold, fmode |-> b.fmode,
               fitness |-> b.fitness, other |-> b.other]
      BY <1>5
    <3> QED  BY <3>1, MeaningParts
  <2>5. Editor!Meaning(b) =
            [name |-> o.name, slots |-> a, entries |-> e, filters |-> g,
             mode |-> o.mode, threshold |-> o.threshold, fmode |-> o.fmode,
             fitness |-> Editor!Completed(o.fitness), other |-> "default"]
    <3>1. IsFitness(o.fitness)
      BY DEF IsFitness, Accepted, Editor!IsSpec, Faithful, Editor!Representable, Editor!TellsWeights
    <3>2. Editor!Completed(ft) = Editor!Completed(o.fitness)  BY <1>0, <3>1, ToldMeansTheSame
    <3> QED  BY <1>6, <2>1, <2>2, <2>3, <2>4, <3>2
  <2>6. Editor!Meaning(o) =
            [name |-> o.name, slots |-> [s \in Editor!Slots |-> Editor!MeaningOf(o.slots[s])],
             entries |-> [n \in DOMAIN o.entries |-> Editor!MeaningOf(o.entries[n])],
             filters |-> [n \in DOMAIN o.filters |-> Editor!MeaningOf(o.filters[n])],
             mode |-> o.mode, threshold |-> o.threshold, fmode |-> o.fmode,
             fitness |-> Editor!Completed(o.fitness), other |-> "default"]
    <3>1. o = [name |-> o.name, slots |-> o.slots, entries |-> o.entries, filters |-> o.filters,
               mode |-> o.mode, threshold |-> o.threshold, fmode |-> o.fmode,
               fitness |-> o.fitness, other |-> o.other]
      BY DEF Accepted, Editor!IsSpec
    <3> QED  BY <3>1, MeaningParts
  <2>7. Editor!Meaning(o) =
            [name |-> o.name, slots |-> a, entries |-> e, filters |-> g,
             mode |-> o.mode, threshold |-> o.threshold, fmode |-> o.fmode,
             fitness |-> Editor!Completed(o.fitness), other |-> "default"]
    BY <1>2, <1>3, <1>4, <1>7, <2>6
  <2> QED  BY <2>5, <2>7
<1>12. Editor!Valid(b)
  <2>0. Editor!Valid(o)  BY DEF Accepted
  <2>1. b.name # Editor!None /\ b.mode # Editor!None /\ b.fmode # Editor!None
    BY <1>6, <2>0 DEF Editor!Valid
  <2>2. \A s \in Editor!Slots : b.slots[s] # Editor!NoRef => Editor!ValidRef(b.slots[s], s)
    BY <1>6, <1>8
  <2>3. b.entries # << >> /\ \A n \in DOMAIN b.entries : Editor!ValidRef(b.entries[n], "entry")
    <3>1. 1 \in DOMAIN e  BY <1>7
    <3> QED  BY <1>6, <1>7, <1>9, <3>1
  <2>4. \A n \in DOMAIN b.filters : Editor!ValidRef(b.filters[n], "filter")
    BY <1>6, <1>7, <1>10
  <2>5. b.mode = "score" => /\ b.threshold # << >>
            /\ Editor!FitsRange(b.threshold, [min |-> 1, max |-> 100, step |-> 1])
    BY <1>6, <2>0 DEF Editor!Valid
  <2>6. /\ "sizing" \in Editor!Slots /\ "hardStop" \in Editor!Slots
        /\ "target" \in Editor!Slots /\ "trail" \in Editor!Slots
    BY DEF Editor!Slots
  <2>7. b.slots.sizing # Editor!NoRef
        /\ (Registry[b.slots.sizing.block].needsStop => b.slots.hardStop # Editor!NoRef)
    <3>1. /\ o.slots.sizing # Editor!NoRef
          /\ Registry[o.slots.sizing.block].needsStop => o.slots.hardStop # Editor!NoRef
      BY <2>0 DEF Editor!Valid
    <3>2. a.sizing # Editor!NoRef /\ a.sizing.block = o.slots.sizing.block  BY <1>8, <2>6, <3>1
    <3>3. a.hardStop # Editor!NoRef <=> o.slots.hardStop # Editor!NoRef  BY <1>8, <2>6
    <3> QED  BY <1>6, <3>1, <3>2, <3>3
  <2>8. \E s \in {"hardStop", "target", "trail"} : b.slots[s] # Editor!NoRef
    <3>1. PICK s \in {"hardStop", "target", "trail"} : o.slots[s] # Editor!NoRef
      BY <2>0 DEF Editor!Valid
    <3>2. a[s] # Editor!NoRef  BY <1>8, <2>6, <3>1
    <3> QED  BY <1>6, <3>1, <3>2
  <2>9. /\ Editor!SumOf(b.fitness.weights) \in {0} \union 99 .. 101
        /\ b.fitness.ret = Editor!Blank \/ b.fitness.ret > 0
    <3>1. PICK t : t = o.fitness  OBVIOUS
    <3>2. Editor!TellsWeights(o) /\ t # Editor!NoFitness
      BY <3>1 DEF Faithful, Editor!Representable, Editor!TellsWeights
    <3>3. /\ t.weights \in [1 .. 3 -> Int]
          /\ Editor!SumOf(t.weights) \in {0} \union 99 .. 101
          /\ t.ret = Editor!Blank \/ t.ret > 0
      BY <2>0, <3>1, <3>2 DEF Accepted, Editor!IsSpec, Editor!Valid
    <3>4. Editor!SumOf(Editor!AllWeights(t)) \in {100, Editor!SumOf(t.weights)}
      BY <3>1, <3>2, <3>3, WeightsAreTold
    <3>5. b.fitness.weights = Editor!AllWeights(t) /\ b.fitness.ret = t.ret
      BY <1>0, <1>6, <3>1 DEF Told
    <3> QED  BY <3>3, <3>4, <3>5
  <2> QED
    BY <2>1, <2>2, <2>3, <2>4, <2>5, <2>7, <2>8, <2>9 DEF Editor!Valid
<1> QED  BY <1>1, <1>11, <1>12

-----------------------------------------------------------------------------
(* The form on a page that knows some blocks.                              *)
Inputs == {"name", "slots", "entries", "filters", "mode", "fmode", "thrMin", "thrMax",
           "weights", "ret", "rest", "extras"}
IsRows(l, known) == Editor!IsList(l) /\ \A n \in 1 .. Len(l) : IsPick(l[n], known)
IsSlots(slots, known) ==
    slots = [s \in Editor!Slots |-> slots[s]] /\ \A s \in Editor!Slots : IsPick(slots[s], known)
Modes3 == {"all", "any", "score", Editor!None}
IsForm(f, known) ==
    /\ DOMAIN f = Inputs
    /\ IsSlots(f.slots, known) /\ IsRows(f.entries, known) /\ IsRows(f.filters, known)
    /\ f.mode \in Modes3 /\ f.thrMin \in Int /\ f.thrMax \in Int
    /\ Full(f.weights)

LEMMA NoRefParts ==
    Editor!NoRef.params = Editor!NoParams /\ Editor!NoRef.block = Editor!None
  BY DEF Editor!NoRef

LEMMA RefIsRendered ==
    ASSUME blocks \subseteq DOMAIN Registry, NEW ref, ref = Editor!NoRef \/ Editor!IsRef(ref)
    PROVE  /\ IsPick(Editor!Rendered(ref.block, ref.params), blocks)
           /\ blocks = DOMAIN Registry => Editor!Rendered(ref.block, ref.params) = Shown(ref)
<1>1. \A x \in DOMAIN ref.params : Editor!IsEntry(ref.params[x])
  <2>1. CASE ref = Editor!NoRef  BY <2>1, NoRefParts, NoParam
  <2>2. CASE Editor!IsRef(ref)  BY <2>2 DEF Editor!IsRef
  <2> QED  BY <2>1, <2>2
<1>2. ASSUME blocks = DOMAIN Registry PROVE Editor!Rendered(ref.block, ref.params) = Shown(ref)
  <2>1. PICK ps : ps = ParamsIn(DOMAIN Registry, ref.block)  OBVIOUS
  <2>2. Editor!Params(ref.block) = ps  BY <1>2, <2>1 DEF Editor!Params, ParamsIn
  <2> QED  BY <2>1, <2>2 DEF Editor!Rendered, Shown
<1> QED  BY <1>1, <1>2, RenderedIsPick

RowsFor(kind, refs) == [n \in DOMAIN refs |-> Editor!RowFor(kind, refs[n])]

LEMMA ListIsRendered ==
    ASSUME blocks \subseteq DOMAIN Registry, NEW kind, NEW refs, Len(refs) \in Nat,
           DOMAIN refs = 1 .. Len(refs),
           \A n \in 1 .. Len(refs) : Editor!IsRef(refs[n]) /\ Editor!ValidRef(refs[n], kind),
           NEW l, l = RowsFor(kind, refs)
    PROVE  /\ IsRows(l, blocks) /\ Len(l) = Len(refs)
           /\ blocks = DOMAIN Registry => \A n \in 1 .. Len(refs) : l[n] = Shown(refs[n])
<1>1. l = [n \in DOMAIN refs |-> Editor!RowFor(kind, refs[n])]  BY DEF RowsFor
<1>2. ASSUME NEW n \in 1 .. Len(refs)
      PROVE  IsPick(l[n], blocks) /\ (blocks = DOMAIN Registry => l[n] = Shown(refs[n]))
  <2>1. PICK ref : ref = refs[n]  OBVIOUS
  <2>2. Editor!IsRef(ref) /\ Editor!ValidRef(ref, kind)  BY <1>2, <2>1
  <2>3. PICK b : b = Editor!SetSelect(Editor!OfKind(kind), ref.block)  OBVIOUS
  <2>4. l[n] = Editor!Rendered(b, ref.params)
    BY <1>1, <1>2, <2>1, <2>3 DEF Editor!RowFor
  <2>5. \A x \in DOMAIN ref.params : Editor!IsEntry(ref.params[x])  BY <2>2 DEF Editor!IsRef
  <2>6. IsPick(l[n], blocks)  BY <2>4, <2>5, RenderedIsPick
  <2>7. ASSUME blocks = DOMAIN Registry PROVE l[n] = Shown(ref)
    <3>1. ref.block \in Editor!OfKind(kind)
      BY <2>2, <2>7 DEF Editor!IsRef, Editor!ValidRef, Editor!OfKind
    <3>2. b = ref.block  BY <2>3, <3>1 DEF Editor!SetSelect
    <3> QED  BY <2>2, <2>4, <2>7, <3>2, RefIsRendered
  <2> QED  BY <2>1, <2>6, <2>7
<1>3. Len(l) = Len(refs) /\ l = [n \in 1 .. Len(l) |-> l[n]]  BY <1>1
<1>4. IsRows(l, blocks)  BY <1>2, <1>3 DEF IsRows, Editor!IsList
<1> QED  BY <1>1, <1>2, <1>3, <1>4

LEMMA LoadFits ==
    ASSUME blocks \subseteq DOMAIN Registry, NEW f, form = f, IsForm(f, blocks), NEW o, Accepted(o)
    PROVE  /\ IsForm(Editor!LoadSpecIntoEditor(o), blocks)
           /\ blocks = DOMAIN Registry /\ Editor!Representable(o)
                  => Faithful(Editor!LoadSpecIntoEditor(o), o)
<1>1. PICK sl : sl = [s \in Editor!Slots |-> Editor!Rendered(o.slots[s].block, o.slots[s].params)]  OBVIOUS
<1>2. PICK en : en = [n \in DOMAIN o.entries |-> Editor!RowFor("entry", o.entries[n])]  OBVIOUS
<1>3. PICK fi : fi = [n \in DOMAIN o.filters |-> Editor!RowFor("filter", o.filters[n])]  OBVIOUS
<1>4. PICK md : md = Editor!SetSelect({"all", "any", "score"}, o.mode)  OBVIOUS
<1>5. PICK fm : fm = Editor!SetSelect({"all", "any"}, o.fmode)  OBVIOUS
<1>6. PICK mn : mn = IF o.mode = "score" THEN o.threshold[1] ELSE f.thrMin  OBVIOUS
<1>7. PICK mx : mx = IF o.mode = "score"
                     THEN o.threshold[IF Editor!IsPinned(o.threshold) THEN 1 ELSE 2] ELSE f.thrMax  OBVIOUS
<1>8. PICK base : base = [f EXCEPT !.name = o.name, !.slots = sl, !.entries = en, !.filters = fi,
                                   !.mode = md, !.fmode = fm, !.thrMin = mn, !.thrMax = mx]  OBVIOUS
<1>9. Editor!LoadSpecIntoEditor(o) = Editor!WithFitness(base, o.fitness)
  BY <1>1, <1>2, <1>3, <1>4, <1>5, <1>6, <1>7, <1>8 DEF Editor!LoadSpecIntoEditor
<1>10. DOMAIN f = Inputs  BY DEF IsForm
<1>11. /\ DOMAIN base = Inputs
       /\ base.name = o.name /\ base.slots = sl /\ base.entries = en /\ base.filters = fi
       /\ base.mode = md /\ base.fmode = fm /\ base.thrMin = mn /\ base.thrMax = mx
       /\ base.weights = f.weights
  BY <1>8, <1>10 DEF Inputs
<1>12. IsSlots(sl, blocks) /\ (blocks = DOMAIN Registry => sl = [s \in Editor!Slots |-> Shown(o.slots[s])])
  <2>1. ASSUME NEW s \in Editor!Slots
        PROVE  IsPick(sl[s], blocks) /\ (blocks = DOMAIN Registry => sl[s] = Shown(o.slots[s]))
    <3>1. PICK ref : ref = o.slots[s]  OBVIOUS
    <3>2. ref = Editor!NoRef \/ Editor!IsRef(ref)  BY <2>1, <3>1, SpecParts
    <3>3. sl[s] = Editor!Rendered(ref.block, ref.params)  BY <1>1, <2>1, <3>1
    <3> QED  BY <3>1, <3>2, <3>3, RefIsRendered
  <2> QED  BY <1>1, <2>1 DEF IsSlots
<1>13. /\ IsRows(en, blocks) /\ Len(en) = Len(o.entries)
       /\ blocks = DOMAIN Registry => \A n \in 1 .. Len(o.entries) : en[n] = Shown(o.entries[n])
  <2>1. PICK refs : refs = o.entries  OBVIOUS
  <2>2. /\ Len(refs) \in Nat /\ DOMAIN refs = 1 .. Len(refs)
        /\ \A n \in 1 .. Len(refs) : Editor!IsRef(refs[n]) /\ Editor!ValidRef(refs[n], "entry")
    BY <2>1, SpecParts
  <2>3. en = RowsFor("entry", refs)  BY <1>2, <2>1 DEF RowsFor
  <2> QED  BY <2>1, <2>2, <2>3, ListIsRendered
<1>14. /\ IsRows(fi, blocks) /\ Len(fi) = Len(o.filters)
       /\ blocks = DOMAIN Registry => \A n \in 1 .. Len(o.filters) : fi[n] = Shown(o.filters[n])
  <2>1. PICK refs : refs = o.filters  OBVIOUS
  <2>2. /\ Len(refs) \in Nat /\ DOMAIN refs = 1 .. Len(refs)
        /\ \A n \in 1 .. Len(refs) : Editor!IsRef(refs[n]) /\ Editor!ValidRef(refs[n], "filter")
    BY <2>1, SpecParts
  <2>3. fi = RowsFor("filter", refs)  BY <1>3, <2>1 DEF RowsFor
  <2> QED  BY <2>1, <2>2, <2>3, ListIsRendered
<1>15. md \in Modes3 /\ md = o.mode
  <2>1. o.mode \in {"all", "any", "score"}
    BY DEF Accepted, Editor!IsSpec, Editor!Valid
  <2> QED  BY <1>4, <2>1 DEF Editor!SetSelect, Modes3
<1>16. /\ mn \in Int /\ mx \in Int
       /\ o.mode = "score" => /\ mn = o.threshold[1]
                              /\ mx = o.threshold[IF Len(o.threshold) = 1 THEN 1 ELSE 2]
  <2>1. CASE o.mode # "score"  BY <1>6, <1>7, <2>1 DEF IsForm
  <2>2. CASE o.mode = "score"
    <3>1. PICK t : t = o.threshold  OBVIOUS
    <3>2. Editor!IsEntry(t)  BY <2>2, <3>1 DEF Accepted, Editor!IsSpec
    <3>3. t \in Seq(Int) /\ Len(t) \in {1, 3}  BY <3>2 DEF Editor!IsEntry
    <3>4. mn = t[1] /\ mx = t[IF Len(t) = 1 THEN 1 ELSE 2]
      BY <1>6, <1>7, <2>2, <3>1 DEF Editor!IsPinned
    <3> QED  BY <3>1, <3>3, <3>4
  <2> QED  BY <2>1, <2>2
<1>17. PICK ft : ft = o.fitness  OBVIOUS
<1>18. PICK g : g = Editor!WithFitness(base, ft)  OBVIOUS
<1>19. /\ DOMAIN g = Inputs
       /\ g.name = o.name /\ g.slots = sl /\ g.entries = en /\ g.filters = fi
       /\ g.mode = md /\ g.fmode = fm /\ g.thrMin = mn /\ g.thrMax = mx
  BY <1>11, <1>18 DEF Editor!WithFitness, Inputs
<1>20. CASE ft = Editor!NoFitness
  <2>1. g.weights = f.weights  BY <1>11, <1>18, <1>20 DEF Editor!WithFitness, Inputs
  <2>2. ~Editor!Representable(o)  BY <1>17, <1>20 DEF Editor!Representable, Editor!TellsWeights
  <2>3. IsForm(g, blocks)
    BY <1>12, <1>13, <1>14, <1>15, <1>16, <1>19, <2>1 DEF IsForm
  <2> QED  BY <1>9, <1>17, <1>18, <2>2, <2>3
<1>21. CASE ft # Editor!NoFitness
  <2>1. /\ g.weights = Editor!Snapped(Editor!AllWeights(ft))
        /\ g.ret = Editor!Or(ft.ret, Editor!PageRet)
        /\ g.rest = Editor!AllRest(ft) /\ g.extras = ft.extras
    BY <1>11, <1>18, <1>21 DEF Editor!WithFitness, Inputs
  <2>2. ft.weights \in [1 .. 3 -> Int]  BY <1>17, <1>21 DEF Accepted, Editor!IsSpec
  <2>3. Full(g.weights)
    <3>1. PICK w : w = Editor!AllWeights(ft)  OBVIOUS
    <3>2. w \in [1 .. 3 -> Int]  BY <2>2, <3>1, AllAreFull DEF Full
    <3> QED  BY <2>1, <3>1, <3>2, SnapsAreFull
  <2>4. IsForm(g, blocks)
    BY <1>12, <1>13, <1>14, <1>15, <1>16, <1>19, <2>3 DEF IsForm
  <2>5. ASSUME blocks = DOMAIN Registry, Editor!Representable(o) PROVE Faithful(g, o)
    <3>1. /\ o.fmode \in {"all", "any"} /\ Editor!TellsWeights(o) /\ ft.ret # Editor!Blank
          /\ o.mode = "score" /\ Len(o.threshold) # 1 => o.threshold[3] = 1
      BY <1>17, <2>5 DEF Editor!Representable, Editor!TellsBlocks, Editor!IsPinned
    <3>2. fm = o.fmode  BY <1>5, <3>1 DEF Editor!SetSelect
    <3>3. /\ g.weights = Editor!AllWeights(o.fitness) /\ g.ret = o.fitness.ret
          /\ g.rest = Editor!AllRest(o.fitness) /\ g.extras = o.fitness.extras
      <4>1. Editor!Snapped(Editor!AllWeights(ft)) = Editor!AllWeights(ft)
        BY <1>17, <2>2, <3>1, WeightsAreTold
      <4>2. Editor!Or(ft.ret, Editor!PageRet) = ft.ret  BY <3>1 DEF Editor!Or
      <4> QED  BY <1>17, <2>1, <4>1, <4>2
    <3> QED
      BY <1>12, <1>13, <1>14, <1>15, <1>16, <1>19, <2>5, <3>1, <3>2, <3>3 DEF Faithful
  <2> QED  BY <1>9, <1>17, <1>18, <2>4, <2>5
<1> QED  BY <1>20, <1>21

-----------------------------------------------------------------------------
(* What is read from a form, posted and stored.                            *)
Whole(o) == Editor!IsSpec(o) /\ (o.fitness # Editor!NoFitness => Full(o.fitness.weights))

LEMMA BuildFits ==
    ASSUME blocks \subseteq DOMAIN Registry, NEW f, form = f, IsForm(f, blocks), NEW name
    PROVE  Whole([Editor!BuildSpecFromUi EXCEPT !.name = name])
<1>1. PICK sl : sl = [s \in Editor!Slots |-> Editor!BlockRef(f.slots[s])]  OBVIOUS
<1>2. PICK en : en = Editor!ReadRows(f.entries)  OBVIOUS
<1>3. PICK fi : fi = Editor!ReadRows(f.filters)  OBVIOUS
<1>4. PICK th : th = Editor!Threshold  OBVIOUS
<1>5. PICK ft : ft = [weights |-> f.weights, ret |-> Editor!Or(f.ret, defaults),
                      rest |-> f.rest, extras |-> f.extras]
  OBVIOUS
<1>6. Editor!BuildSpecFromUi =
          [name |-> f.name, slots |-> sl, entries |-> en, filters |-> fi, mode |-> f.mode,
           threshold |-> th, fmode |-> f.fmode, fitness |-> ft, other |-> "default"]
  BY <1>1, <1>2, <1>3, <1>4, <1>5 DEF Editor!BuildSpecFromUi
<1>7. PICK o : o = [Editor!BuildSpecFromUi EXCEPT !.name = name]  OBVIOUS
<1>8. o = [name |-> name, slots |-> sl, entries |-> en, filters |-> fi, mode |-> f.mode,
           threshold |-> th, fmode |-> f.fmode, fitness |-> ft, other |-> "default"]
  BY <1>6, <1>7
<1>9. /\ o.name = name /\ o.slots = sl /\ o.entries = en /\ o.filters = fi /\ o.mode = f.mode
      /\ o.threshold = th /\ o.fmode = f.fmode /\ o.fitness = ft /\ o.other = "default"
  BY <1>8
<1>10. o = [name |-> o.name, slots |-> o.slots, entries |-> o.entries, filters |-> o.filters,
            mode |-> o.mode, threshold |-> o.threshold, fmode |-> o.fmode,
            fitness |-> o.fitness, other |-> o.other]
  BY <1>8
<1>11. sl = [s \in Editor!Slots |-> sl[s]]
       /\ \A s \in Editor!Slots : sl[s] = Editor!NoRef \/ Editor!IsRef(sl[s])
  <2>1. ASSUME NEW s \in Editor!Slots PROVE sl[s] = Editor!NoRef \/ Editor!IsRef(sl[s])
    <3>1. PICK p : p = f.slots[s]  OBVIOUS
    <3>2. IsPick(p, blocks)  BY <2>1, <3>1 DEF IsForm, IsSlots
    <3>3. sl[s] = Editor!BlockRef(p)  BY <1>1, <2>1, <3>1
    <3> QED  BY <3>2, <3>3, RefIsRead
  <2> QED  BY <1>1, <2>1
<1>12. Editor!IsList(en) /\ \A n \in DOMAIN en : Editor!IsRef(en[n])
  <2>1. PICK rows : rows = f.entries  OBVIOUS
  <2>2. Len(rows) \in Nat /\ \A n \in 1 .. Len(rows) : IsPick(rows[n], blocks)
    BY <2>1 DEF IsForm, IsRows, Editor!IsList
  <2> QED  BY <1>2, <2>1, <2>2, RowsAreRead
<1>13. Editor!IsList(fi) /\ \A n \in DOMAIN fi : Editor!IsRef(fi[n])
  <2>1. PICK rows : rows = f.filters  OBVIOUS
  <2>2. Len(rows) \in Nat /\ \A n \in 1 .. Len(rows) : IsPick(rows[n], blocks)
    BY <2>1 DEF IsForm, IsRows, Editor!IsList
  <2> QED  BY <1>3, <2>1, <2>2, RowsAreRead
<1>14. IF f.mode = "score" THEN Editor!IsEntry(th) ELSE th = << >>
  <2>1. CASE f.mode # "score"  BY <1>4, <2>1 DEF Editor!Threshold
  <2>2. CASE f.mode = "score"
    <3>1. PICK mn : mn = IF f.thrMin > 0 THEN f.thrMin ELSE 1  OBVIOUS
    <3>2. PICK mx : mx = IF f.thrMax > 0 THEN f.thrMax ELSE mn  OBVIOUS
    <3>3. mn \in Int /\ mx \in Int  BY <3>1, <3>2 DEF IsForm
    <3>4. th = IF mn = mx THEN <<mn>> ELSE <<mn, mx, 1>>
      BY <1>4, <2>2, <3>1, <3>2 DEF Editor!Threshold
    <3> QED  BY <2>2, <3>3, <3>4 DEF Editor!IsEntry
  <2> QED  BY <2>1, <2>2
<1>15. /\ ft = [weights |-> ft.weights, ret |-> ft.ret, rest |-> ft.rest, extras |-> ft.extras]
       /\ ft.weights \in [1 .. 3 -> Int] /\ Full(ft.weights)
  BY <1>5 DEF IsForm, Full
<1>16. f.mode \in {"all", "any", "score", Editor!None}  BY DEF IsForm, Modes3
<1>17. Editor!IsSpec(o)
  BY <1>9, <1>10, <1>11, <1>12, <1>13, <1>14, <1>15, <1>16 DEF Editor!IsSpec
<1> QED  BY <1>7, <1>9, <1>15, <1>17 DEF Whole

LEMMA NormalizedFits ==
    ASSUME NEW o, Accepted(o), Whole(o)
    PROVE  Accepted(Editor!Normalized(o)) /\ Editor!Normalized(o) # Editor!NoSpec
<1>1. PICK ft : ft = o.fitness  OBVIOUS
<1>2. PICK c : c = Editor!Completed(ft)  OBVIOUS
<1>3. PICK d : d = Editor!Normalized(o)  OBVIOUS
<1>4. d = [o EXCEPT !.fitness = c]  BY <1>1, <1>2, <1>3 DEF Editor!Normalized
<1>5. o = [name |-> o.name, slots |-> o.slots, entries |-> o.entries, filters |-> o.filters,
           mode |-> o.mode, threshold |-> o.threshold, fmode |-> o.fmode,
           fitness |-> o.fitness, other |-> o.other]
  BY DEF Accepted, Editor!IsSpec
<1>6. d = [name |-> o.name, slots |-> o.slots, entries |-> o.entries, filters |-> o.filters,
           mode |-> o.mode, threshold |-> o.threshold, fmode |-> o.fmode,
           fitness |-> c, other |-> o.other]
  BY <1>4, <1>5
<1>7. /\ d.name = o.name /\ d.slots = o.slots /\ d.entries = o.entries /\ d.filters = o.filters
      /\ d.mode = o.mode /\ d.threshold = o.threshold /\ d.fmode = o.fmode /\ d.fitness = c
      /\ d.other = o.other
  BY <1>6
<1>8. /\ IsFitness(c)
      /\ Editor!SumOf(c.weights) \in {0} \union 99 .. 101
      /\ c.ret = Editor!Blank \/ c.ret > 0
  <2>1. CASE ft = Editor!NoFitness
    <3>1. c = Editor!DefaultFitness  BY <1>2, <2>1 DEF Editor!Completed
    <3> QED  BY <3>1, DefaultFits
  <2>2. CASE ft # Editor!NoFitness
    <3>1. Full(ft.weights)  BY <1>1, <2>2 DEF Whole
    <3>2. PICK t, r, x : /\ t = Editor!Or(ft.ret, Editor!DefaultFitness.ret)
                         /\ r = Editor!AllRest(ft)
                         /\ x = IF ft.extras = Editor!None THEN Editor!DefaultFitness.extras
                               ELSE ft.extras
      OBVIOUS
    <3>3. c = [weights |-> ft.weights, ret |-> t, rest |-> r, extras |-> x]
      BY <1>2, <2>2, <3>1, <3>2, FullStays DEF Editor!Completed
    <3>4. /\ Editor!SumOf(ft.weights) \in {0} \union 99 .. 101
          /\ ft.ret = Editor!Blank \/ ft.ret > 0
      BY <1>1, <2>2 DEF Accepted, Editor!Valid
    <3>5. t = Editor!Blank \/ t > 0
      <4>1. t = IF ft.ret = Editor!Blank THEN 100 ELSE ft.ret  BY <3>2, DefaultFits DEF Editor!Or
      <4> QED  BY <3>4, <4>1
    <3>6. c.weights = ft.weights /\ c.ret = t
          /\ c = [weights |-> c.weights, ret |-> c.ret, rest |-> c.rest, extras |-> c.extras]
      BY <3>3
    <3> QED  BY <3>1, <3>4, <3>5, <3>6 DEF IsFitness, Full
  <2> QED  BY <2>1, <2>2
<1>9. d = [name |-> d.name, slots |-> d.slots, entries |-> d.entries, filters |-> d.filters,
           mode |-> d.mode, threshold |-> d.threshold, fmode |-> d.fmode,
           fitness |-> d.fitness, other |-> d.other]
  BY <1>6
<1>10. Editor!IsSpec(d)
  BY <1>7, <1>8, <1>9 DEF Accepted, Editor!IsSpec, IsFitness
<1>11. Editor!Valid(d)
  BY <1>7, <1>8 DEF Accepted, Editor!Valid
<1>12. d # Editor!NoSpec
  <2>1. d.name # Editor!None  BY <1>11 DEF Editor!Valid
  <2>2. Editor!NoSpec.name = Editor!None  BY DEF Editor!NoSpec
  <2> QED  BY <2>1, <2>2
<1> QED  BY <1>3, <1>10, <1>11, <1>12 DEF Accepted

-----------------------------------------------------------------------------
(* What an edit makes of a form.                                           *)
LEMMA RetypedFits ==
    ASSUME NEW p, IsSpan(p), NEW row \in Controls, NEW r \in Editor!Retyped(row, p)
    PROVE  r \in Controls
<1>1. Editor!RowOf(p, << >>) \in Controls  BY RowIsControls
<1>2. PICK a, b, c : /\ a = Editor!Clamp(row.min, p) /\ b = Editor!Clamp(row.max, p)
                     /\ c = Editor!Clamp(row.value, p)
  OBVIOUS
<1>3. a \in Int /\ b \in Int /\ c \in Int
  <2>1. row.min \in Int /\ row.max \in Int /\ row.value \in Int  BY DEF Controls
  <2> QED  BY <1>2, <2>1, ClampIsInt
<1>4. \/ r = [row EXCEPT !.pin = ~row.pin] \/ r = Editor!RowOf(p, << >>)
      \/ r = [row EXCEPT !.min = a] \/ r = [row EXCEPT !.max = b] \/ r = [row EXCEPT !.value = c]
      \/ \E v \in Typed : \/ r = [row EXCEPT !.min = v] \/ r = [row EXCEPT !.max = v]
                          \/ r = [row EXCEPT !.step = v] \/ r = [row EXCEPT !.value = v]
  BY <1>2 DEF Editor!Retyped
<1>5. ASSUME NEW v \in Int
      PROVE  /\ [row EXCEPT !.min = v] \in Controls /\ [row EXCEPT !.max = v] \in Controls
             /\ [row EXCEPT !.step = v] \in Controls /\ [row EXCEPT !.value = v] \in Controls
  BY <1>5 DEF Controls
<1>6. [row EXCEPT !.pin = ~row.pin] \in Controls  BY DEF Controls
<1>7. Typed \subseteq Int  BY FilesAssumption
<1> QED  BY <1>1, <1>3, <1>4, <1>5, <1>6, <1>7

LEMMA RepaintedFits ==
    ASSUME blocks \subseteq DOMAIN Registry, NEW p, IsPick(p, blocks), NEW q \in Editor!Repainted(p)
    PROVE  IsPick(q, blocks)
<1>1. PICK x \in DOMAIN p.rows :
          \E row \in Editor!Retyped(p.rows[x], Editor!Params(p.block)[x]) :
              q = [p EXCEPT !.rows[x] = row]
  BY DEF Editor!Repainted
<1>2. PICK ps : ps = ParamsIn(blocks, p.block)  OBVIOUS
<1>3. Editor!Params(p.block) = ps /\ x \in DOMAIN ps
  BY <1>1, <1>2 DEF Editor!Params, ParamsIn, IsPick
<1>4. p.block \in blocks /\ ps = Registry[p.block].params  BY <1>2, <1>3, NoParam DEF ParamsIn
<1>5. IsSpan(ps[x])  BY <1>3, <1>4, SpansOfBlocks
<1>6. PICK row \in Editor!Retyped(p.rows[x], ps[x]) : q = [p EXCEPT !.rows[x] = row]
  BY <1>1, <1>3
<1>7. p.rows[x] \in Controls  BY <1>1 DEF IsPick
<1>8. row \in Controls  BY <1>5, <1>6, <1>7, RetypedFits
<1>9. PICK rows : rows = [p.rows EXCEPT ![x] = row]  OBVIOUS
<1>10. q = [p EXCEPT !.rows = rows]  BY <1>6, <1>9
<1>11. p = [block |-> p.block, rows |-> p.rows]  BY DEF IsPick
<1>12. q = [block |-> p.block, rows |-> rows]  BY <1>10, <1>11
<1>13. DOMAIN rows = DOMAIN p.rows /\ \A y \in DOMAIN rows : rows[y] \in Controls
  BY <1>8, <1>9 DEF IsPick
<1> QED  BY <1>12, <1>13 DEF IsPick

LEMMA EmptiedIsPick == IsPick(Editor!Emptied, blocks)
<1>1. Editor!Emptied = [block |-> Editor!None, rows |-> Editor!NoParams]  BY DEF Editor!Emptied
<1> QED  BY <1>1, NoParam DEF IsPick

LEMMA FreshIsPick ==
    ASSUME blocks \subseteq DOMAIN Registry, NEW b
    PROVE  IsPick(Editor!Rendered(b, Editor!NoParams), blocks)
  BY NoParam, RenderedIsPick

LEMMA ListsAreSeqs ==
    ASSUME NEW l, NEW known, IsRows(l, known)
    PROVE  \E S : l \in Seq(S) /\ \A p \in S : IsPick(p, known)
<1>1. PICK S : S = {l[n] : n \in 1 .. Len(l)}  OBVIOUS
<1>2. Len(l) \in Nat /\ l = [n \in 1 .. Len(l) |-> l[n]]  BY DEF IsRows, Editor!IsList
<1>3. l \in Seq(S)  BY <1>1, <1>2
<1>4. \A p \in S : IsPick(p, known)  BY <1>1 DEF IsRows
<1> QED  BY <1>3, <1>4

LEMMA SeqsAreLists ==
    ASSUME NEW known, NEW S, \A p \in S : IsPick(p, known), NEW l \in Seq(S)
    PROVE  IsRows(l, known)
<1>1. Len(l) \in Nat /\ l = [n \in 1 .. Len(l) |-> l[n]]  OBVIOUS
<1>2. \A n \in 1 .. Len(l) : l[n] \in S  OBVIOUS
<1> QED  BY <1>1, <1>2 DEF IsRows, Editor!IsList

LEMMA ListEdits ==
    ASSUME NEW known, NEW l, IsRows(l, known), NEW p, IsPick(p, known)
    PROVE  /\ IsRows(Append(l, p), known)
           /\ \A n \in DOMAIN l : IsRows(Editor!RemoveAt(l, n), known)
           /\ \A n \in DOMAIN l : IsRows([l EXCEPT ![n] = p], known)
<1>1. PICK D : l \in Seq(D) /\ \A q \in D : IsPick(q, known)  BY ListsAreSeqs
<1>2. PICK S : S = D \union {p}  OBVIOUS
<1>3. l \in Seq(S) /\ p \in S /\ \A q \in S : IsPick(q, known)  BY <1>1, <1>2
<1>4. Append(l, p) \in Seq(S)  BY <1>3
<1>5. ASSUME NEW n \in DOMAIN l PROVE Editor!RemoveAt(l, n) \in Seq(S)
  <2>1. n \in 1 .. Len(l) /\ Len(l) \in Nat  BY <1>3, <1>5
  <2>2. SubSeq(l, 1, n - 1) \in Seq(S)  BY <1>3, <2>1
  <2>3. SubSeq(l, n + 1, Len(l)) \in Seq(S)  BY <1>3, <2>1
  <2> QED  BY <2>2, <2>3 DEF Editor!RemoveAt
<1>6. ASSUME NEW n \in DOMAIN l PROVE [l EXCEPT ![n] = p] \in Seq(S)
  BY <1>3, <1>6
<1> QED  BY <1>3, <1>4, <1>5, <1>6, SeqsAreLists

(* A control that is set to a value of its kind.                           *)
LEMMA SetFits ==
    ASSUME NEW known, NEW f, IsForm(f, known)
    PROVE  /\ \A x : IsSlots(x, known) => IsForm([f EXCEPT !.slots = x], known)
           /\ \A x : IsRows(x, known) => IsForm([f EXCEPT !.entries = x], known)
           /\ \A x : IsRows(x, known) => IsForm([f EXCEPT !.filters = x], known)
           /\ \A x : IsForm([f EXCEPT !.name = x], known) /\ IsForm([f EXCEPT !.fmode = x], known)
                     /\ IsForm([f EXCEPT !.rest = x], known) /\ IsForm([f EXCEPT !.ret = x], known)
           /\ \A x \in Modes3 : IsForm([f EXCEPT !.mode = x], known)
           /\ \A x \in Int : IsForm([f EXCEPT !.thrMin = x], known) /\ IsForm([f EXCEPT !.thrMax = x], known)
           /\ \A x : Full(x) => IsForm([f EXCEPT !.weights = x], known)
<1>1. DOMAIN f = Inputs /\ IsSlots(f.slots, known) /\ IsRows(f.entries, known) /\ IsRows(f.filters, known)
      /\ f.mode \in Modes3 /\ f.thrMin \in Int /\ f.thrMax \in Int /\ Full(f.weights)
  BY DEF IsForm
<1>2. ASSUME NEW x, IsSlots(x, known) PROVE IsForm([f EXCEPT !.slots = x], known)
  BY <1>1, <1>2 DEF IsForm, Inputs
<1>3. ASSUME NEW x, IsRows(x, known)
      PROVE  IsForm([f EXCEPT !.entries = x], known) /\ IsForm([f EXCEPT !.filters = x], known)
  BY <1>1, <1>3 DEF IsForm, Inputs
<1>4. ASSUME NEW x
      PROVE  /\ IsForm([f EXCEPT !.name = x], known) /\ IsForm([f EXCEPT !.fmode = x], known)
             /\ IsForm([f EXCEPT !.rest = x], known) /\ IsForm([f EXCEPT !.ret = x], known)
  BY <1>1 DEF IsForm, Inputs
<1>5. ASSUME NEW x \in Modes3 PROVE IsForm([f EXCEPT !.mode = x], known)
  BY <1>1, <1>5 DEF IsForm, Inputs
<1>6. ASSUME NEW x \in Int
      PROVE  IsForm([f EXCEPT !.thrMin = x], known) /\ IsForm([f EXCEPT !.thrMax = x], known)
  BY <1>1, <1>6 DEF IsForm, Inputs
<1>7. ASSUME NEW x, Full(x) PROVE IsForm([f EXCEPT !.weights = x], known)
  BY <1>1, <1>7 DEF IsForm, Inputs
<1> QED  BY <1>2, <1>3, <1>4, <1>5, <1>6, <1>7

LEMMA DefaultsFit ==
    ASSUME NEW known, NEW f, IsForm(f, known)
    PROVE  IsForm(Editor!WithDefaults(f), known)
           /\ \A x : IsForm([Editor!WithDefaults(f) EXCEPT !.ret = x], known)
<1>1. PICK w : w = Editor!DefaultFitness.weights  OBVIOUS
<1>2. Full(w)  BY <1>1, DefaultFits
<1>3. PICK g : g = [f EXCEPT !.weights = w]  OBVIOUS
<1>4. IsForm(g, known)  BY <1>2, <1>3, SetFits
<1>5. PICK h : h = [g EXCEPT !.ret = defaults]  OBVIOUS
<1>6. IsForm(h, known)  BY <1>4, <1>5, SetFits
<1>7. PICK d : d = [h EXCEPT !.rest = Editor!DefaultFitness.rest]  OBVIOUS
<1>8. IsForm(d, known)  BY <1>6, <1>7, SetFits
<1>9. Editor!WithDefaults(f) = d  BY <1>1, <1>3, <1>5, <1>7 DEF Editor!WithDefaults
<1> QED  BY <1>8, <1>9, SetFits

LEMMA EditedSlotsFit ==
    ASSUME blocks \subseteq DOMAIN Registry, NEW f, form = f, IsForm(f, blocks),
           NEW g \in Editor!EditedSlots
    PROVE  IsForm(g, blocks)
<1>0. PICK s \in Editor!Slots :
          \E p \in Editor!Repainted(f.slots[s])
                       \union {Editor!Rendered(b, Editor!NoParams) : b \in Editor!Options(s, blocks)}
                       \union (IF s = "sizing" THEN {} ELSE {Editor!Emptied}) :
              g = [f EXCEPT !.slots[s] = p]
  BY DEF Editor!EditedSlots
<1>1. PICK p \in Editor!Repainted(f.slots[s])
                   \union {Editor!Rendered(b, Editor!NoParams) : b \in Editor!Options(s, blocks)}
                   \union (IF s = "sizing" THEN {} ELSE {Editor!Emptied}) :
          g = [f EXCEPT !.slots[s] = p]
  BY <1>0
<1>2. PICK slots : slots = f.slots  OBVIOUS
<1>3. IsSlots(slots, blocks)  BY <1>2 DEF IsForm
<1>4. IsPick(slots[s], blocks)  BY <1>3 DEF IsSlots
<1>5. IsPick(p, blocks)
  <2>1. CASE p \in Editor!Repainted(slots[s])  BY <1>4, <2>1, RepaintedFits
  <2>2. CASE p \in {Editor!Rendered(b, Editor!NoParams) : b \in Editor!Options(s, blocks)}
    BY <2>2, FreshIsPick
  <2>3. CASE p = Editor!Emptied  BY <2>3, EmptiedIsPick
  <2> QED  BY <1>1, <1>2, <2>1, <2>2, <2>3
<1>6. PICK x : x = [slots EXCEPT ![s] = p]  OBVIOUS
<1>7. IsSlots(x, blocks)  BY <1>3, <1>5, <1>6 DEF IsSlots
<1>8. g = [f EXCEPT !.slots = x]  BY <1>1, <1>2, <1>6
<1> QED  BY <1>7, <1>8, SetFits

(* A change of one of the two lists.                                       *)
LEMMA EditedListFits ==
    ASSUME blocks \subseteq DOMAIN Registry, NEW f, form = f, NEW name \in DOMAIN f,
           IsRows(f[name], blocks), NEW g \in Editor!EditedList(name)
    PROVE  \E x : IsRows(x, blocks) /\ g = [f EXCEPT ![name] = x]
<1>1. PICK l : l = f[name]  OBVIOUS
<1>2. IsRows(l, blocks)  BY <1>1
<1>3. CASE g = [f EXCEPT ![name] = Append(l, Editor!Emptied)]
  BY <1>2, <1>3, EmptiedIsPick, ListEdits
<1>4. CASE \E n \in DOMAIN l : g = [f EXCEPT ![name] = Editor!RemoveAt(l, n)]
  BY <1>2, <1>4, EmptiedIsPick, ListEdits
<1>5. CASE \E n \in DOMAIN l : \E p \in Editor!Repainted(l[n])
                  \union {Editor!Rendered(b, Editor!NoParams) : b \in Editor!OfKind(Editor!Kind(name))} :
              g = [f EXCEPT ![name][n] = p]
  <2>0. PICK n \in DOMAIN l : \E p \in Editor!Repainted(l[n])
                  \union {Editor!Rendered(b, Editor!NoParams) : b \in Editor!OfKind(Editor!Kind(name))} :
              g = [f EXCEPT ![name][n] = p]
    BY <1>5
  <2>1. PICK p \in Editor!Repainted(l[n])
                  \union {Editor!Rendered(b, Editor!NoParams) : b \in Editor!OfKind(Editor!Kind(name))} :
              g = [f EXCEPT ![name][n] = p]
    BY <2>0
  <2>2. IsPick(l[n], blocks)
    <3>1. n \in 1 .. Len(l)  BY <1>2, <2>1 DEF IsRows, Editor!IsList
    <3> QED  BY <1>2, <3>1 DEF IsRows
  <2>3. IsPick(p, blocks)
    <3>1. CASE p \in Editor!Repainted(l[n])  BY <2>2, <3>1, RepaintedFits
    <3>2. CASE p \in {Editor!Rendered(b, Editor!NoParams) : b \in Editor!OfKind(Editor!Kind(name))}
      BY <3>2, FreshIsPick
    <3> QED  BY <2>1, <3>1, <3>2
  <2>4. PICK x : x = [l EXCEPT ![n] = p]  OBVIOUS
  <2>5. IsRows(x, blocks)  BY <1>2, <2>1, <2>3, <2>4, ListEdits
  <2>6. g = [f EXCEPT ![name] = x]  BY <1>1, <2>1, <2>4
  <2> QED  BY <2>5, <2>6
<1>6. \/ g = [f EXCEPT ![name] = Append(l, Editor!Emptied)]
      \/ \E n \in DOMAIN l : g = [f EXCEPT ![name] = Editor!RemoveAt(l, n)]
      \/ \E n \in DOMAIN l : \E p \in Editor!Repainted(l[n])
             \union {Editor!Rendered(b, Editor!NoParams) : b \in Editor!OfKind(Editor!Kind(name))} :
             g = [f EXCEPT ![name][n] = p]
  BY <1>1 DEF Editor!EditedList
<1> QED  BY <1>3, <1>4, <1>5, <1>6

LEMMA EditFits ==
    ASSUME blocks \subseteq DOMAIN Registry, NEW f, form = f, IsForm(f, blocks),
           NEW g \in Editor!EditedSlots \union Editor!EditedList("entries")
                         \union Editor!EditedList("filters") \union Editor!EditedRest
    PROVE  IsForm(g, blocks)
<1>1. CASE g \in Editor!EditedSlots  BY <1>1, EditedSlotsFit
<1>2. CASE g \in Editor!EditedList("entries")
  <2>1. "entries" \in DOMAIN f /\ IsRows(f["entries"], blocks)  BY DEF IsForm, Inputs
  <2>2. PICK x : IsRows(x, blocks) /\ g = [f EXCEPT !["entries"] = x]
    BY <1>2, <2>1, EditedListFits
  <2> QED  BY <2>2, SetFits
<1>3. CASE g \in Editor!EditedList("filters")
  <2>1. "filters" \in DOMAIN f /\ IsRows(f["filters"], blocks)  BY DEF IsForm, Inputs
  <2>2. PICK x : IsRows(x, blocks) /\ g = [f EXCEPT !["filters"] = x]
    BY <1>3, <2>1, EditedListFits
  <2> QED  BY <2>2, SetFits
<1>4. CASE g \in Editor!EditedRest
  <2>1. \/ \E x \in DOMAIN files : g = [f EXCEPT !.name = x]
        \/ \E x \in {"all", "any", "score"} : g = [f EXCEPT !.mode = x]
        \/ \E x \in {"all", "any"} : g = [f EXCEPT !.fmode = x]
        \/ \E x \in Typed : g = [f EXCEPT !.thrMin = x] \/ g = [f EXCEPT !.thrMax = x]
        \/ \E x \in Typed : g = [f EXCEPT !.ret = x]
        \/ g = Editor!WithDefaults(f)
        \/ g = [f EXCEPT !.weights = <<40, 40, 20>>, !.rest = "edited"]
    <3>1. PICK a : a = {[form EXCEPT !.name = x] : x \in DOMAIN files}  OBVIOUS
    <3>2. PICK b : b = {[form EXCEPT !.mode = x] : x \in {"all", "any", "score"}}  OBVIOUS
    <3>3. PICK c : c = {[form EXCEPT !.fmode = x] : x \in {"all", "any"}}  OBVIOUS
    <3>4. PICK d : d = UNION {{[form EXCEPT !.thrMin = x], [form EXCEPT !.thrMax = x]} : x \in Typed}  OBVIOUS
    <3>0. PICK e : e = {[form EXCEPT !.ret = x] : x \in Typed}  OBVIOUS
    <3>5. Editor!EditedRest = a \union b \union c \union d \union e \union
              {Editor!WithDefaults(form), [form EXCEPT !.weights = <<40, 40, 20>>, !.rest = "edited"]}
      BY <3>0, <3>1, <3>2, <3>3, <3>4 DEF Editor!EditedRest
    <3>6. CASE g \in a  BY <3>1, <3>6
    <3>7. CASE g \in b  BY <3>2, <3>7
    <3>8. CASE g \in c  BY <3>3, <3>8
    <3>9. CASE g \in d  BY <3>4, <3>9
    <3>10. CASE g \in e  BY <3>0, <3>10
    <3> QED  BY <1>4, <3>5, <3>6, <3>7, <3>8, <3>9, <3>10
  <2>2. {"all", "any", "score"} \subseteq Modes3 /\ Typed \subseteq Int  BY FilesAssumption DEF Modes3
  <2>3. ASSUME g = [f EXCEPT !.weights = <<40, 40, 20>>, !.rest = "edited"] PROVE IsForm(g, blocks)
    <3>1. PICK w : w = <<40, 40, 20>>  OBVIOUS
    <3>2. Full(w)  BY <3>1 DEF Full, Editor!Blank
    <3>3. PICK h : h = [f EXCEPT !.weights = w]  OBVIOUS
    <3>4. IsForm(h, blocks)  BY <3>2, <3>3, SetFits
    <3>5. g = [h EXCEPT !.rest = "edited"]  BY <2>3, <3>1, <3>3
    <3> QED  BY <3>4, <3>5, SetFits
  <2>4. ASSUME NEW x \in DOMAIN files, g = [f EXCEPT !.name = x] PROVE IsForm(g, blocks)
    BY <2>4, SetFits
  <2>5. ASSUME NEW x \in {"all", "any", "score"}, g = [f EXCEPT !.mode = x] PROVE IsForm(g, blocks)
    BY <2>2, <2>5, SetFits
  <2>6. ASSUME NEW x \in {"all", "any"}, g = [f EXCEPT !.fmode = x] PROVE IsForm(g, blocks)
    BY <2>6, SetFits
  <2>7. ASSUME NEW x \in Typed, g = [f EXCEPT !.thrMin = x] \/ g = [f EXCEPT !.thrMax = x]
        PROVE  IsForm(g, blocks)
    <3>1. x \in Int  BY <2>2, <2>7
    <3>2. IsForm([f EXCEPT !.thrMin = x], blocks) /\ IsForm([f EXCEPT !.thrMax = x], blocks)
      BY <3>1, SetFits
    <3> QED  BY <2>7, <3>2
  <2>8. IsForm(Editor!WithDefaults(f), blocks)  BY DefaultsFit
  <2>9. ASSUME NEW x \in Typed, g = [f EXCEPT !.ret = x] PROVE IsForm(g, blocks)
    BY <2>9, SetFits
  <2> QED  BY <2>1, <2>3, <2>4, <2>5, <2>6, <2>7, <2>8, <2>9
<1> QED  BY <1>1, <1>2, <1>3, <1>4

-----------------------------------------------------------------------------
(* The inductive invariant of the editor.  What is loaded was accepted by  *)
(* the server; the spec of origin, if the form can tell it, is shown.      *)
Carries(m, fs) ==
    /\ m.type = "load" => m.file \in DOMAIN fs /\ fs[m.file] # Editor!NoSpec
    /\ m.type = "loaded" => Accepted(m.spec)
    /\ m.type = "save" => Whole(m.spec)
Stored(fs) == \A x \in DOMAIN fs : fs[x] = Editor!NoSpec \/ Accepted(fs[x])
Knows(known, due) == known \in {DOMAIN Registry, {}} /\ ("blocks" \in due => known = {})
Shows(known, f, o) ==
    /\ IsForm(f, known)
    /\ o # Editor!NoSpec => /\ known = DOMAIN Registry /\ Accepted(o)
                            /\ Editor!Representable(o) => Faithful(f, o)

EditState ==
    /\ Knows(blocks, awaited) /\ Shows(blocks, form, origin)
    /\ Stored(files) /\ \A m \in net : Carries(m, files)
EditInv == part = "edit" => EditState

LEMMA EditActs ==
    part = "edit" /\ [Next]_vars =>
        \/ Editor!Next
        \/ UNCHANGED <<blocks, awaited, form, files, net, origin>>
  BY DEF Next, vars, editing, Editing, Breeding, Evaluating, Ranking, Editor!Next

LEMMA NoRows == ASSUME NEW known PROVE IsRows(<< >>, known)
<1>1. PICK l : l = << >>  OBVIOUS
<1>2. Len(l) = 0 /\ l = [n \in 1 .. 0 |-> l[n]]  BY <1>1
<1> QED  BY <1>1, <1>2 DEF IsRows, Editor!IsList

LEMMA NoSlots ==
    IsSlots([s \in Editor!Slots |-> Editor!Emptied], blocks)
  BY EmptiedIsPick DEF IsSlots

LEMMA EditInit == Init => EditInv
<1> SUFFICES ASSUME Init, part = "edit" PROVE EditState  BY DEF EditInv
<1>1. Editor!Init  BY DEF Init
<1>2. blocks = {} /\ origin = Editor!NoSpec /\ net = {} /\ files = Files  BY <1>1 DEF Editor!Init
<1>3. PICK sl : sl = [s \in Editor!Slots |-> Editor!Emptied]  OBVIOUS
<1>4. IsSlots(sl, blocks)  BY <1>3, NoSlots
<1>5. PICK w : w = Editor!DefaultFitness.weights  OBVIOUS
<1>6. Full(w)  BY <1>5, DefaultFits
<1>7. PICK l : l = << >>  OBVIOUS
<1>8. IsRows(l, blocks)  BY <1>7, NoRows
<1>9. form = [name |-> Editor!None, slots |-> sl, entries |-> l, filters |-> l,
              mode |-> "score", fmode |-> "all", thrMin |-> 1, thrMax |-> 3,
              weights |-> w, ret |-> Editor!PageRet, rest |-> Editor!DefaultFitness.rest,
              extras |-> Editor!None]
  BY <1>1, <1>3, <1>5, <1>7 DEF Editor!Init
<1>10. IsForm(form, blocks)  BY <1>4, <1>6, <1>8, <1>9 DEF IsForm, Inputs, Modes3
<1>11. Stored(files)  BY <1>2, FilesAssumption DEF Stored, Accepted
<1> QED  BY <1>2, <1>10, <1>11 DEF EditState, Knows, Shows

LEMMA MoreBlocks ==
    ASSUME NEW known, NEW l, IsRows(l, {})
    PROVE  IsRows(l, known)
<1>1. ASSUME NEW p, IsPick(p, {}) PROVE IsPick(p, known)
  <2>1. DOMAIN p.rows = {}  BY <1>1, NoParam DEF IsPick, ParamsIn
  <2> QED  BY <1>1, <2>1 DEF IsPick
<1> QED  BY <1>1 DEF IsRows

LEMMA BlocksArriveFits ==
    ASSUME NEW f, form = f, IsForm(f, blocks), Knows(blocks, awaited), Editor!BlocksArrive
    PROVE  Knows(blocks, awaited)' /\ Shows(blocks, form, origin)' /\ UNCHANGED <<files, net>>
<1>1. "blocks" \in awaited /\ awaited' = awaited \ {"blocks"} /\ origin' = Editor!NoSpec
      /\ UNCHANGED <<files, net>>
  BY DEF Editor!BlocksArrive
<1>2. blocks = {}  BY <1>1 DEF Knows
<1>3. PICK known \in {DOMAIN Registry, {}} :
          /\ blocks' = known
          /\ form' = [form EXCEPT !.slots = [s \in Editor!Slots |->
                 [block |-> Editor!Repicked(s, known),
                  rows |-> IF Editor!Repicked(s, known) = Editor!None THEN Editor!NoParams
                           ELSE [x \in DOMAIN Registry[Editor!Repicked(s, known)].params |->
                                    Editor!RowOf(Registry[Editor!Repicked(s, known)].params[x], << >>)]]]]
  BY DEF Editor!BlocksArrive
<1>4. PICK sl : sl = [s \in Editor!Slots |->
                 [block |-> Editor!Repicked(s, known),
                  rows |-> IF Editor!Repicked(s, known) = Editor!None THEN Editor!NoParams
                           ELSE [x \in DOMAIN Registry[Editor!Repicked(s, known)].params |->
                                    Editor!RowOf(Registry[Editor!Repicked(s, known)].params[x], << >>)]]]
  OBVIOUS
<1>5. ASSUME NEW s \in Editor!Slots PROVE IsPick(sl[s], known)
  <2>1. PICK b : b = Editor!Repicked(s, known)  OBVIOUS
  <2>2. PICK p : p = sl[s]  OBVIOUS
  <2>3. p = [block |-> b, rows |-> IF b = Editor!None THEN Editor!NoParams
                           ELSE [x \in DOMAIN Registry[b].params |-> Editor!RowOf(Registry[b].params[x], << >>)]]
    BY <1>4, <1>5, <2>1, <2>2
  <2>4. CASE b = Editor!None
    <3>1. p = [block |-> b, rows |-> Editor!NoParams]  BY <2>3, <2>4
    <3> QED  BY <2>2, <3>1, NoParam DEF IsPick
  <2>5. CASE b # Editor!None
    <3>1. b \in known
      BY <2>1, <2>5 DEF Editor!Repicked, Editor!SetSelect, Editor!Options
    <3>2. b \in DOMAIN Registry  BY <1>3, <3>1
    <3>3. PICK ps : ps = Registry[b].params  OBVIOUS
    <3>4. p = [block |-> b, rows |-> [x \in DOMAIN ps |-> Editor!RowOf(ps[x], << >>)]]
      BY <2>3, <2>5, <3>3
    <3>5. ParamsIn(known, p.block) = ps  BY <3>1, <3>3, <3>4 DEF ParamsIn
    <3>6. \A x \in DOMAIN ps : Editor!RowOf(ps[x], << >>) \in Controls
      BY <3>2, <3>3, SpansOfBlocks, RowIsControls
    <3> QED  BY <2>2, <3>4, <3>5, <3>6 DEF IsPick
  <2> QED  BY <2>4, <2>5
<1>6. IsSlots(sl, known)  BY <1>4, <1>5 DEF IsSlots
<1>7. PICK g : g = [f EXCEPT !.slots = sl]  OBVIOUS
<1>8. form' = g  BY <1>3, <1>4, <1>7
<1>9. /\ DOMAIN g = Inputs /\ g.slots = sl /\ g.entries = f.entries /\ g.filters = f.filters
      /\ g.mode = f.mode /\ g.thrMin = f.thrMin /\ g.thrMax = f.thrMax /\ g.weights = f.weights
  BY <1>7 DEF IsForm, Inputs
<1>10. IsRows(f.entries, known) /\ IsRows(f.filters, known)  BY <1>2, MoreBlocks DEF IsForm
<1>11. IsForm(g, known)  BY <1>6, <1>9, <1>10 DEF IsForm
<1>12. Knows(known, awaited')  BY <1>1, <1>3 DEF Knows
<1> QED  BY <1>1, <1>3, <1>8, <1>11, <1>12 DEF Shows

LEMMA ResetFits ==
    ASSUME blocks \subseteq DOMAIN Registry, NEW f, form = f, IsForm(f, blocks)
    PROVE  IsForm(Editor!ResetForm, blocks)
<1>1. PICK sl : sl = [s \in Editor!Slots |-> IF s = "sizing" THEN Editor!Rendered(Editor!FirstSizing, Editor!NoParams)
                                             ELSE Editor!Emptied]
  OBVIOUS
<1>2. \A s \in Editor!Slots : IsPick(sl[s], blocks)  BY <1>1, EmptiedIsPick, FreshIsPick
<1>3. IsSlots(sl, blocks)  BY <1>1, <1>2 DEF IsSlots
<1>4. PICK l : l = << >>  OBVIOUS
<1>5. IsRows(l, blocks)  BY <1>4, NoRows
<1>6. PICK g : g = [f EXCEPT !.name = Editor!None, !.entries = l, !.filters = l, !.mode = "all", !.fmode = "all",
                            !.thrMin = 1, !.thrMax = 1, !.extras = Editor!None, !.slots = sl]  OBVIOUS
<1>7. /\ DOMAIN g = Inputs /\ g.slots = sl /\ g.entries = l /\ g.filters = l
      /\ g.mode = "all" /\ g.thrMin = 1 /\ g.thrMax = 1 /\ g.weights = f.weights
  BY <1>6 DEF IsForm, Inputs
<1>8. IsForm(g, blocks)  BY <1>3, <1>5, <1>7 DEF IsForm, Modes3
<1>9. Editor!ResetForm = Editor!WithDefaults(g)
  BY <1>1, <1>4, <1>6 DEF Editor!ResetForm
<1> QED  BY <1>8, <1>9, DefaultsFit

LEMMA EditParts ==
    ASSUME EditState
    PROVE  /\ blocks \subseteq DOMAIN Registry /\ IsForm(form, blocks)
           /\ origin # Editor!NoSpec =>
                  /\ blocks = DOMAIN Registry /\ Accepted(origin)
                  /\ Editor!Representable(origin) => Faithful(form, origin)
           /\ Stored(files) /\ \A m \in net : Carries(m, files)
  BY DEF EditState, Knows, Shows

LEMMA DefaultsArriveFits ==
    ASSUME EditState, Editor!DefaultsArrive
    PROVE  EditState'
<1>1. /\ awaited' = awaited \ {"defaults"} /\ origin' = Editor!NoSpec
      /\ form' = [Editor!WithDefaults(form) EXCEPT !.ret = defaults']
      /\ UNCHANGED <<blocks, files, net>>
  BY DEF Editor!DefaultsArrive
<1>2. PICK f : f = form  OBVIOUS
<1>3. IsForm(f, blocks)  BY <1>2, EditParts
<1>4. IsForm(form', blocks)  BY <1>1, <1>2, <1>3, DefaultsFit
<1>5. Knows(blocks, awaited')  BY <1>1 DEF EditState, Knows
<1> QED  BY <1>1, <1>4, <1>5 DEF EditState, Shows

LEMMA EditedFits ==
    ASSUME EditState, Editor!Edit \/ Editor!ClickReset
    PROVE  EditState'
<1>1. origin' = Editor!NoSpec /\ UNCHANGED <<blocks, awaited, files, net>>
  BY DEF Editor!Edit, Editor!ClickReset
<1>2. PICK f : f = form  OBVIOUS
<1>3. IsForm(f, blocks) /\ blocks \subseteq DOMAIN Registry  BY <1>2, EditParts
<1>4. IsForm(form', blocks)
  <2>1. CASE Editor!Edit
    <3>1. PICK g : g = form'  OBVIOUS
    <3>2. g \in Editor!EditedSlots \union Editor!EditedList("entries")
                    \union Editor!EditedList("filters") \union Editor!EditedRest
      BY <2>1, <3>1 DEF Editor!Edit
    <3>3. IsForm(g, blocks)  BY <1>2, <1>3, <3>2, EditFits
    <3> QED  BY <3>1, <3>3
  <2>2. CASE Editor!ClickReset
    <3>1. form' = Editor!ResetForm  BY <2>2 DEF Editor!ClickReset
    <3> QED  BY <1>2, <1>3, <3>1, ResetFits
  <2> QED  BY <1>1, <2>1, <2>2
<1> QED  BY <1>1, <1>4 DEF EditState, Knows, Shows

LEMMA LoadsFit ==
    ASSUME EditState, Editor!ClickLoad \/ Editor!ServeLoad
    PROVE  EditState'
<1>1. UNCHANGED <<blocks, awaited, form, files, origin>>
  BY DEF Editor!ClickLoad, Editor!ServeLoad
<1>2. Stored(files) /\ \A m \in net : Carries(m, files)  BY EditParts
<1>3. \A m \in net' : Carries(m, files)
  <2>1. CASE Editor!ClickLoad
    <3>1. PICK f \in DOMAIN files : files[f] # Editor!NoSpec
                                    /\ net' = net \union {[type |-> "load", file |-> f]}
      BY <2>1 DEF Editor!ClickLoad
    <3>2. Carries([type |-> "load", file |-> f], files)  BY <3>1 DEF Carries
    <3> QED  BY <1>2, <3>1, <3>2
  <2>2. CASE Editor!ServeLoad
    <3>1. PICK m \in net : m.type = "load" /\ net' = (net \ {m}) \union
                               {[type |-> "loaded", file |-> m.file, spec |-> files[m.file]]}
      BY <2>2 DEF Editor!ServeLoad, Editor!Serve
    <3>2. Accepted(files[m.file])  BY <1>2, <3>1 DEF Carries, Stored
    <3>3. Carries([type |-> "loaded", file |-> m.file, spec |-> files[m.file]], files)
      BY <3>2 DEF Carries
    <3> QED  BY <1>2, <3>1, <3>3
  <2> QED  BY <2>1, <2>2
<1> QED  BY <1>1, <1>2, <1>3 DEF EditState

LEMMA LoadedFits ==
    ASSUME EditState, Editor!Loaded
    PROVE  EditState'
<1>1. PICK m \in net :
          /\ m.type = "loaded" /\ net' = net \ {m} /\ form' = Editor!LoadSpecIntoEditor(m.spec)
          /\ origin' = IF awaited = {} /\ blocks # {} THEN m.spec ELSE Editor!NoSpec
  BY DEF Editor!Loaded
<1>2. UNCHANGED <<blocks, awaited, files>>  BY DEF Editor!Loaded
<1>3. \A x \in net : Carries(x, files)  BY EditParts
<1>4. PICK o : o = m.spec  OBVIOUS
<1>5. Accepted(o)  BY <1>1, <1>3, <1>4 DEF Carries
<1>6. PICK f : f = form  OBVIOUS
<1>7. IsForm(f, blocks) /\ blocks \subseteq DOMAIN Registry  BY <1>6, EditParts
<1>8. PICK g : g = Editor!LoadSpecIntoEditor(o)  OBVIOUS
<1>9. IsForm(g, blocks) /\ (blocks = DOMAIN Registry /\ Editor!Representable(o) => Faithful(g, o))
  BY <1>5, <1>6, <1>7, <1>8, LoadFits
<1>10. form' = g  BY <1>1, <1>4, <1>8
<1>11. origin' # Editor!NoSpec => blocks # {} /\ origin' = o
  BY <1>1, <1>4
<1>12. blocks # {} => blocks = DOMAIN Registry  BY DEF EditState, Knows
<1>13. Shows(blocks, g, origin')  BY <1>5, <1>9, <1>11, <1>12 DEF Shows
<1> QED  BY <1>1, <1>2, <1>3, <1>10, <1>13 DEF EditState

LEMMA PostFits ==
    ASSUME EditState, NEW saveAs, NEW confirmed, NEW others, Editor!Post(saveAs, confirmed, others),
           \A m \in others : Carries(m, files), UNCHANGED <<blocks, awaited, files>>
    PROVE  EditState'
<1>1. PICK name :
          /\ form' = [form EXCEPT !.name = name]
          /\ origin' = IF name = form.name THEN origin ELSE Editor!NoSpec
          /\ net' = others \union
                 {[type |-> "save", spec |-> [Editor!BuildSpecFromUi EXCEPT !.name = name], saveAs |-> saveAs,
                   overwrite |-> confirmed \/ (~saveAs /\ current # Editor!None)]}
  BY DEF Editor!Post
<1>2. PICK f : f = form  OBVIOUS
<1>3. IsForm(f, blocks) /\ blocks \subseteq DOMAIN Registry  BY <1>2, EditParts
<1>4. PICK g : g = [f EXCEPT !.name = name]  OBVIOUS
<1>5. IsForm(g, blocks)  BY <1>3, <1>4, SetFits
<1>6. form' = g  BY <1>1, <1>2, <1>4
<1>7. \A o : name = f.name /\ Faithful(f, o) => Faithful(g, o)
  <2>1. DOMAIN f = Inputs  BY <1>3 DEF IsForm
  <2>2. /\ name = f.name => g.name = f.name
        /\ g.mode = f.mode /\ g.fmode = f.fmode /\ g.slots = f.slots /\ g.entries = f.entries
        /\ g.filters = f.filters /\ g.thrMin = f.thrMin /\ g.thrMax = f.thrMax
        /\ g.weights = f.weights /\ g.ret = f.ret /\ g.rest = f.rest /\ g.extras = f.extras
    BY <1>4, <2>1 DEF Inputs
  <2> QED  BY <2>2 DEF Faithful
<1>8. Shows(blocks, g, origin')
  BY <1>1, <1>2, <1>5, <1>7, EditParts DEF Shows
<1>9. PICK b : b = [Editor!BuildSpecFromUi EXCEPT !.name = name]  OBVIOUS
<1>10. Whole(b)  BY <1>2, <1>3, <1>9, BuildFits
<1>11. \A m \in net' : Carries(m, files)
  <2>1. \A x, y : Carries([type |-> "save", spec |-> b, saveAs |-> x, overwrite |-> y], files)
    BY <1>10 DEF Carries
  <2> QED  BY <1>1, <1>9, <2>1
<1> QED  BY <1>6, <1>8, <1>11 DEF EditState

LEMMA SavesFit ==
    ASSUME EditState, Editor!ClickSave \/ Editor!Confirmed
    PROVE  EditState'
<1>1. UNCHANGED <<blocks, awaited, files>>  BY DEF Editor!ClickSave, Editor!Confirmed
<1>2. \A m \in net : Carries(m, files)  BY EditParts
<1>3. CASE Editor!ClickSave
  <2>1. PICK n : n = net  OBVIOUS
  <2>2. PICK saveAs : Editor!Post(saveAs, FALSE, n)
    BY <1>3, <2>1 DEF Editor!ClickSave, Editor!Post
  <2> QED  BY <1>1, <1>2, <2>1, <2>2, PostFits
<1>4. CASE Editor!Confirmed
  <2>1. PICK m \in net : Editor!Post(m.saveAs, TRUE, net \ {m})  BY <1>4 DEF Editor!Confirmed
  <2>2. PICK n : n = net \ {m}  OBVIOUS
  <2>3. PICK saveAs : saveAs = m.saveAs  OBVIOUS
  <2>4. Editor!Post(saveAs, TRUE, n)  BY <2>1, <2>2, <2>3 DEF Editor!Post
  <2> QED  BY <1>1, <1>2, <2>2, <2>4, PostFits
<1> QED  BY <1>3, <1>4

LEMMA ServeSaveFits ==
    ASSUME EditState, Editor!ServeSave
    PROVE  EditState'
<1>1. UNCHANGED <<blocks, awaited, form, origin>>  BY DEF Editor!ServeSave
<1>2. Stored(files) /\ \A m \in net : Carries(m, files)  BY EditParts
<1>3. PICK m \in net :
          /\ m.type = "save"
          /\ \/ net' = (net \ {m}) \union {[type |-> "rejected"]} /\ files' = files
             \/ net' = (net \ {m}) \union {[type |-> "conflict", saveAs |-> m.saveAs]} /\ files' = files
             \/ /\ Editor!Valid(m.spec)
                /\ net' = (net \ {m}) \union {[type |-> "saved", file |-> m.spec.name]}
                /\ files' = [files EXCEPT ![m.spec.name] = Editor!Normalized(m.spec)]
  BY DEF Editor!ServeSave, Editor!Serve
<1>4. \A fs, x : /\ Carries([type |-> "rejected"], fs)
                 /\ Carries([type |-> "conflict", saveAs |-> x], fs)
                 /\ Carries([type |-> "saved", file |-> x], fs)
  BY DEF Carries
<1>5. CASE files' = files
  <2>1. \A x \in net' : Carries(x, files)
    <3>1. PICK r : r = {[type |-> "rejected"], [type |-> "conflict", saveAs |-> m.saveAs],
                        [type |-> "saved", file |-> m.spec.name]}  OBVIOUS
    <3>2. net' \subseteq net \union r  BY <1>3, <3>1
    <3>3. \A x \in r : Carries(x, files)  BY <1>4, <3>1
    <3> QED  BY <1>2, <3>2, <3>3
  <2> QED  BY <1>1, <1>2, <1>5, <2>1 DEF EditState
<1>6. CASE /\ Editor!Valid(m.spec)
           /\ net' = (net \ {m}) \union {[type |-> "saved", file |-> m.spec.name]}
           /\ files' = [files EXCEPT ![m.spec.name] = Editor!Normalized(m.spec)]
  <2>1. PICK o : o = m.spec  OBVIOUS
  <2>2. Accepted(o) /\ Whole(o)  BY <1>2, <1>3, <1>6, <2>1 DEF Carries, Accepted, Whole
  <2>3. PICK d : d = Editor!Normalized(o)  OBVIOUS
  <2>4. Accepted(d) /\ d # Editor!NoSpec  BY <2>2, <2>3, NormalizedFits
  <2>5. PICK fs : fs = [files EXCEPT ![o.name] = d]  OBVIOUS
  <2>6. files' = fs  BY <1>6, <2>1, <2>3, <2>5
  <2>7. Stored(fs)  BY <1>2, <2>4, <2>5 DEF Stored
  <2>8. \A x \in net : Carries(x, fs)
    <3>1. \A x \in DOMAIN files : files[x] # Editor!NoSpec => fs[x] # Editor!NoSpec
      BY <2>4, <2>5
    <3>2. DOMAIN fs = DOMAIN files  BY <2>5
    <3> QED  BY <1>2, <3>1, <3>2 DEF Carries
  <2>9. \A x \in net' : Carries(x, fs)  BY <1>4, <1>6, <2>8
  <2> QED  BY <1>1, <2>6, <2>7, <2>9 DEF EditState
<1> QED  BY <1>3, <1>5, <1>6

LEMMA AnswersFit ==
    ASSUME EditState, Editor!Saved \/ Editor!Rejected \/ Editor!Declined
    PROVE  EditState'
<1>1. net' \subseteq net /\ UNCHANGED <<blocks, awaited, form, files, origin>>
  BY DEF Editor!Saved, Editor!Rejected, Editor!Declined
<1> QED  BY <1>1 DEF EditState

LEMMA EditStep == EditInv /\ [Next]_vars => EditInv'
<1> SUFFICES ASSUME EditInv, [Next]_vars, part' = "edit" PROVE EditState'  BY DEF EditInv
<1>1. part = "edit"
  BY DEF Next, vars, Editing, Breeding, Evaluating, Ranking
<1>2. EditState  BY <1>1 DEF EditInv
<1>3. CASE UNCHANGED <<blocks, awaited, form, files, net, origin>>
  BY <1>2, <1>3 DEF EditState
<1>4. CASE Editor!BlocksArrive
  <2>1. PICK f : f = form  OBVIOUS
  <2>2. IsForm(f, blocks)  BY <1>2, <2>1, EditParts
  <2>3. Knows(blocks, awaited)  BY <1>2 DEF EditState
  <2>4. Knows(blocks, awaited)' /\ Shows(blocks, form, origin)' /\ UNCHANGED <<files, net>>
    BY <1>4, <2>1, <2>2, <2>3, BlocksArriveFits
  <2> QED  BY <1>2, <2>4 DEF EditState
<1>5. CASE Editor!DefaultsArrive  BY <1>2, <1>5, DefaultsArriveFits
<1>6. CASE Editor!Edit \/ Editor!ClickReset  BY <1>2, <1>6, EditedFits
<1>7. CASE Editor!ClickLoad \/ Editor!ServeLoad  BY <1>2, <1>7, LoadsFit
<1>8. CASE Editor!Loaded  BY <1>2, <1>8, LoadedFits
<1>9. CASE Editor!ClickSave \/ Editor!Confirmed  BY <1>2, <1>9, SavesFit
<1>10. CASE Editor!ServeSave  BY <1>2, <1>10, ServeSaveFits
<1>11. CASE Editor!Saved \/ Editor!Rejected \/ Editor!Declined  BY <1>2, <1>11, AnswersFit
<1>12. Editor!Next \/ UNCHANGED <<blocks, awaited, form, files, net, origin>>  BY <1>1, EditActs
<1> QED
  BY <1>3, <1>4, <1>5, <1>6, <1>7, <1>8, <1>9, <1>10, <1>11, <1>12 DEF Editor!Next

(* A spec that the form can tell, loaded once the blocks and the defaults  *)
(* are there and not edited since, would be saved with the meaning it has, *)
(* and accepted: loadSpecIntoEditor fills the controls of ui/app.js,       *)
(* buildSpecFromUi reads them, validateSpec and normalizeSpec of           *)
(* engine/spec.js receive what was read.                                   *)
THEOREM SaveKeepsTheSpecHolds == Spec => []SaveKeepsTheSpec
<1>1. Init => EditInv  BY EditInit
<1>2. EditInv /\ [Next]_vars => EditInv'  BY EditStep
<1>3. EditInv => SaveKeepsTheSpec
  <2> SUFFICES ASSUME EditInv, part = "edit" PROVE Editor!SaveKeepsTheSpec  BY DEF SaveKeepsTheSpec
  <2>1. EditState  BY DEF EditInv
  <2>2. CASE origin = Editor!NoSpec \/ ~Editor!Representable(origin)
    BY <2>2 DEF Editor!SaveKeepsTheSpec
  <2>3. CASE origin # Editor!NoSpec /\ Editor!Representable(origin)
    <3>1. PICK o : o = origin  OBVIOUS
    <3>2. PICK f : f = form  OBVIOUS
    <3>3. blocks = DOMAIN Registry /\ Accepted(o) /\ Faithful(f, o)
      BY <2>1, <2>3, <3>1, <3>2, EditParts
    <3>4. /\ Editor!Meaning(Editor!BuildSpecFromUi) = Editor!Meaning(o)
          /\ Editor!Valid(Editor!BuildSpecFromUi)
      BY <3>2, <3>3, KeepsTheSpec
    <3> QED  BY <3>1, <3>4 DEF Editor!SaveKeepsTheSpec
  <2> QED  BY <2>2, <2>3
<1> QED  BY <1>1, <1>2, <1>3, PTL DEF Spec
=============================================================================
