---------------------------- MODULE CandleProofs ----------------------------
(***************************************************************************)
(* What is proved of the candle store (CandleStore), for any symbols, any  *)
(* number of jobs, every limit of a request and every bar length: a minute *)
(* that is missing has a reason, and a fitness cache is used for the bars  *)
(* it was computed from.                                                   *)
(***************************************************************************)
EXTENDS CandleInv, FiniteSetTheorems, WellFoundedInduction, TLAPS

-----------------------------------------------------------------------------
(* The first and the last number of a set.                                 *)
LEMMA Least ==
    ASSUME NEW a \in Int, NEW b \in Int, NEW S \in SUBSET (a..b), S # {}
    PROVE  Min(S) \in S /\ \A x \in S : Min(S) <= x
<1> DEFINE Good(T) == \E m \in T : \A x \in T : m <= x
           Bad == {T \in FiniteSubsetsOf(S) : T # {} /\ ~ Good(T)}
<1>0. IsFiniteSet(S) /\ S \subseteq Int
  <2>1. IsFiniteSet(a..b)  BY FS_Interval
  <2>2. IsFiniteSet(S)  BY <2>1, FS_Subset
  <2> QED  BY <2>2
<1>1. ASSUME Bad # {} PROVE FALSE
  <2>1. PICK T \in Bad : \A U \in Bad : <<U, T>> \notin StrictSubsetOrdering(S)
    <3> HIDE DEF Bad
    <3>1. IsWellFoundedOn(StrictSubsetOrdering(S), FiniteSubsetsOf(S))
      BY <1>0, FS_StrictSubsetOrderingWellFounded
    <3>2. Bad \subseteq FiniteSubsetsOf(S)  BY DEF Bad
    <3> QED  BY <1>1, <3>1, <3>2, WFMin
  <2>2. PICK m \in T : TRUE  OBVIOUS
  <2> DEFINE U == T \ {m}
  <2>3. T \subseteq S /\ IsFiniteSet(T)  BY DEF FiniteSubsetsOf
  <2>4. U \in FiniteSubsetsOf(S)  BY <2>3, FS_RemoveElement DEF FiniteSubsetsOf
  <2>5. <<U, T>> \in StrictSubsetOrdering(S)  BY <2>2, <2>3 DEF StrictSubsetOrdering
  <2>6. CASE U = {}
    <3>1. T = {m}  BY <2>2, <2>6
    <3> QED  BY <1>0, <2>3, <3>1
  <2>7. CASE Good(U)
    <3>1. PICK n \in U : \A x \in U : n <= x  BY <2>7
    <3>2. CASE n <= m
      <4>1. n \in T /\ \A x \in T : n <= x  BY <3>1, <3>2
      <4> QED  BY <4>1
    <3>3. CASE ~ (n <= m)
      <4>1. m \in Int /\ n \in Int /\ T \subseteq Int  BY <1>0, <2>2, <2>3
      <4>2. \A x \in T : m <= x
        <5> TAKE x \in T
        <5>1. CASE x = m  BY <4>1, <5>1
        <5>2. CASE x # m
          <6>1. n <= x /\ x \in Int  BY <3>1, <4>1, <5>2
          <6> QED  BY <3>3, <4>1, <6>1
        <5> QED  BY <5>1, <5>2
      <4> QED  BY <2>2, <4>2
    <3> QED  BY <3>2, <3>3
  <2> QED  BY <2>1, <2>4, <2>5, <2>6, <2>7
<1>2. S \in FiniteSubsetsOf(S)  BY <1>0 DEF FiniteSubsetsOf
<1>3. Good(S)  BY <1>1, <1>2
<1> QED  BY <1>3 DEF Min

LEMMA Greatest ==
    ASSUME NEW a \in Int, NEW b \in Int, NEW S \in SUBSET (a..b), S # {}
    PROVE  Max(S) \in S /\ \A x \in S : Max(S) >= x
<1> DEFINE T == {x \in (-b)..(-a) : -x \in S}
<1>1. PICK s \in S : TRUE  OBVIOUS
<1>2. -s \in T  BY <1>1
<1>3. Min(T) \in T /\ \A x \in T : Min(T) <= x
  <2>1. PICK c \in Int, d \in Int : c = -b /\ d = -a  OBVIOUS
  <2>2. PICK U \in SUBSET (c..d) : U = T  BY <2>1
  <2>3. Min(U) \in U /\ \A x \in U : Min(U) <= x  BY <1>2, <2>2, Least
  <2> QED  BY <2>2, <2>3
<1>4. PICK m \in S : m = -Min(T)  BY <1>3
<1>5. ASSUME NEW x \in S PROVE m >= x
  <2>1. -x \in T  BY <1>5
  <2>2. Min(T) <= -x /\ Min(T) \in Int  BY <1>3, <2>1
  <2> QED  BY <1>4, <2>2
<1> QED  BY <1>5 DEF Max

-----------------------------------------------------------------------------
(* Minutes.                                                                *)
LEMMA EvenIs == \A t : t \in Even <=> t \in Int /\ t % Minute = 0
<1>1. ASSUME NEW t \in Int, t % 2 = 0 PROVE t = 2 * (t \div 2)  BY <1>1
<1>2. ASSUME NEW t \in Even PROVE t \in Int /\ t % 2 = 0
  <2>1. PICK k \in Int : t = 2 * k  BY <1>2 DEF Even, Minute
  <2> QED  BY <2>1
<1> QED  BY <1>1, <1>2 DEF Even, Minute

LEMMA MinutesIs ==
    ASSUME minute \in Int
    PROVE  \A t : t \in Minutes <=> t \in Even /\ First <= t /\ t <= Now
<1> USE CandleAssumption DEF Minute
<1>1. ASSUME NEW t \in Minutes PROVE t \in Even /\ First <= t /\ t <= Now
  <2>1. PICK m \in Earliest..minute : t = 2 * m  BY <1>1 DEF Minutes
  <2> QED  BY <2>1 DEF Even, First, Now
<1>2. ASSUME NEW t \in Even, First <= t, t <= Now PROVE t \in Minutes
  <2>1. PICK m \in Int : t = 2 * m  BY <1>2 DEF Even
  <2>2. m \in Earliest..minute  BY <1>2, <2>1 DEF First, Now
  <2> QED  BY <2>1, <2>2 DEF Minutes
<1> QED  BY <1>1, <1>2

(* The first and the last stored candle of a symbol.                       *)
LEMMA TimesAre ==
    ASSUME NEW sym, NEW t
    PROVE  t \in Times(sym) <=> \E row \in candles : row.sym = sym /\ row.ts = t
BY DEF Times, Of

LEMMA EndsOf ==
    ASSUME Stores, NEW sym
    PROVE  /\ Times(sym) \subseteq Minutes
           /\ FirstTs(sym) \in Int /\ LastTs(sym) \in Int
           /\ Times(sym) = {} => FirstTs(sym) = None /\ LastTs(sym) = None
           /\ Times(sym) # {} => FirstTs(sym) \in Times(sym) /\ LastTs(sym) \in Times(sym)
           /\ \A t \in Times(sym) : FirstTs(sym) <= t /\ t <= LastTs(sym)
<1>1. Times(sym) \subseteq Minutes
  BY TimesAre DEF Stores, Rows
<1>2. PICK a \in Int, b \in Int : a = First /\ b = Now
  BY CandleAssumption DEF Stores, First, Now, Minute
<1>3. \A t \in Minutes : t \in a..b
  BY <1>2, MinutesIs, EvenIs DEF Stores
<1>4. PICK S \in SUBSET (a..b) : S = Times(sym)  BY <1>1, <1>3
<1>5. None \in Int  BY DEF None
<1>6. CASE S = {}
  BY <1>1, <1>4, <1>5, <1>6 DEF FirstTs, LastTs
<1>7. CASE S # {}
  <2>1. Min(S) \in S /\ \A x \in S : Min(S) <= x  BY <1>7, Least
  <2>2. Max(S) \in S /\ \A x \in S : Max(S) >= x  BY <1>7, Greatest
  <2>3. FirstTs(sym) = Min(S) /\ LastTs(sym) = Max(S)  BY <1>4, <1>7 DEF FirstTs, LastTs
  <2>0. S \subseteq Int  OBVIOUS
  <2>4. Min(S) \in Int /\ Max(S) \in Int  BY <2>0, <2>1, <2>2
  <2>5. \A t \in S : Min(S) <= t /\ t <= Max(S)  BY <2>0, <2>1, <2>2, <2>4
  <2> QED  BY <1>1, <1>4, <1>7, <2>1, <2>2, <2>3, <2>4, <2>5
<1> QED  BY <1>6, <1>7

-----------------------------------------------------------------------------
(* The rows of a batch, and the reading of rows.                           *)
LEMMA KeyIs ==
    ASSUME NEW rows, NEW sym, NEW t
    PROVE  <<sym, t>> \in Keys(rows) <=> \E row \in rows : row.sym = sym /\ row.ts = t
BY DEF Keys, Key

LEMMA UnaskedIs ==
    ASSUME NEW w, NEW sym, NEW t
    PROVE  <<sym, t>> \in Unasked(w) <=> sym = w.sym /\ t \in Open(w)
BY DEF Unasked, Open

LEMMA OpenIs ==
    ASSUME minute \in Int, NEW w, w.start = First, w.cursor \in Int
    PROVE  \A t : t \in Open(w) <=> t \in Even /\ First <= t /\ t <= w.cursor
<1>1. First \in Int  BY CandleAssumption DEF First, Minute
<1> QED  BY <1>1, EvenIs DEF Open

LEMMA OpenMinutes ==
    ASSUME minute \in Int, NEW w, w.cursor \in Int, BackwardJob(w), Backward(w)
    PROVE  Open(w) \subseteq Minutes
<1>1. Now \in Int /\ First \in Int  BY CandleAssumption DEF Now, First, Minute
<1>2. w.start = First /\ w.cursor <= Now  BY DEF BackwardJob
<1> QED  BY <1>1, <1>2, OpenIs, MinutesIs, EvenIs

-----------------------------------------------------------------------------
(* What Binance answers.                                                   *)
LEMMA AvailableIs ==
    ASSUME minute \in Int, NEW sym \in Symbols
    PROVE  /\ IsFiniteSet(Available(sym))
           /\ Available(sym) \subseteq Rows
           /\ \A row \in Available(sym) : row.sym = sym
           /\ \A t \in Minutes : \E row \in Available(sym) : row.ts = t
<1> DEFINE A(m) == [sym |-> sym, ts |-> Minute * m, final |-> m < minute]
           f == [m \in Earliest..minute |-> A(m)]
<1>1. IsFiniteSet(Earliest..minute)  BY FS_Interval, CandleAssumption
<1>2. f \in Surjection(Earliest..minute, Available(sym))
  BY DEF Surjection, Available
<1>3. IsFiniteSet(Available(sym))
  <2> HIDE DEF f
  <2> QED  BY <1>1, <1>2, FS_Surjection
<1>4. \A m \in Earliest..minute : A(m) \in Rows  BY DEF Rows, Minutes
<1>5. Available(sym) \subseteq Rows /\ \A row \in Available(sym) : row.sym = sym
  BY <1>4 DEF Available
<1>6. ASSUME NEW t \in Minutes PROVE \E row \in Available(sym) : row.ts = t
  <2>1. PICK m \in Earliest..minute : t = Minute * m  BY <1>6 DEF Minutes
  <2>2. A(m) \in Available(sym) /\ A(m).ts = t  BY <2>1 DEF Available
  <2> QED  BY <2>2
<1> QED  BY <1>3, <1>5, <1>6

(* The answer is a beginning of what was asked for, without a gap, and     *)
(* empty only if there is nothing.                                         *)
Answers(batch, sym, from, to) ==
    /\ batch \subseteq Rows
    /\ \A row \in batch : row.sym = sym /\ from <= row.ts /\ row.ts <= to
    /\ \A t \in Minutes : \A row \in batch :
           from <= t /\ t <= row.ts => \E r \in batch : r.ts = t
    /\ (\E t \in Minutes : from <= t /\ t <= to) => batch # {}

LEMMA KlinesAre ==
    ASSUME minute \in Int, NEW sym \in Symbols, NEW from \in Int, NEW to \in Int
    PROVE  Answers(Klines(sym, from, to), sym, from, to)
<1> DEFINE all == Within(sym, from, to)
           Before(row) == {r \in all : r.ts < row.ts}
<1>1. /\ all \subseteq Rows /\ IsFiniteSet(all)
      /\ \A row \in all : row.sym = sym /\ from <= row.ts /\ row.ts <= to
      /\ \A t \in Minutes : from <= t /\ t <= to => \E row \in all : row.ts = t
  <2>1. all \in SUBSET Available(sym)  BY DEF Within
  <2>2. IsFiniteSet(all)  BY <2>1, AvailableIs, FS_Subset
  <2> QED  BY <2>1, <2>2, AvailableIs DEF Within
<1>2. \A row \in all : row \in Klines(sym, from, to) <=> Cardinality(Before(row)) < Limit
  BY DEF Klines
<1>3. Klines(sym, from, to) \subseteq all  BY DEF Klines
<1>4. \A row \in Rows : row.ts \in Int  BY MinutesIs, EvenIs DEF Rows
<1>5. ASSUME NEW t \in Minutes, NEW row \in Klines(sym, from, to), from <= t, t <= row.ts
      PROVE  \E r \in Klines(sym, from, to) : r.ts = t
  <2>1. t \in Int /\ row.ts \in Int /\ row \in all /\ row.ts <= to
    BY <1>1, <1>3, <1>4, MinutesIs, EvenIs
  <2>2. PICK r \in all : r.ts = t  BY <1>1, <1>5, <2>1
  <2>3. Before(r) \in SUBSET Before(row)  BY <1>1, <1>4, <1>5, <2>1, <2>2
  <2>4. Before(row) \in SUBSET all  OBVIOUS
  <2>5. IsFiniteSet(Before(row)) /\ Cardinality(Before(row)) \in Nat
    BY <1>1, <2>4, FS_Subset, FS_CardinalityType
  <2>6. Cardinality(Before(r)) <= Cardinality(Before(row)) /\ Cardinality(Before(r)) \in Nat
    BY <2>3, <2>5, FS_Subset, FS_CardinalityType
  <2>7. Cardinality(Before(row)) < Limit  BY <1>2, <1>5, <2>1
  <2>8. Cardinality(Before(r)) < Limit  BY <2>5, <2>6, <2>7, CandleAssumption
  <2> QED  BY <1>2, <2>2, <2>8
<1>6. ASSUME NEW t \in Minutes, from <= t, t <= to
      PROVE  Klines(sym, from, to) # {}
  <2> DEFINE T == {row.ts : row \in all}
  <2>1. t \in T  BY <1>1, <1>6
  <2>2. T \in SUBSET (from..to)  BY <1>1, <1>4
  <2>3. Min(T) \in T /\ \A x \in T : Min(T) <= x  BY <2>1, <2>2, Least
  <2>4. PICK row \in all : row.ts = Min(T)  BY <2>3
  <2>5. Before(row) = {}
    <3>1. ASSUME NEW r \in all PROVE ~ (r.ts < row.ts)
      <4>1. r.ts \in T  OBVIOUS
      <4>2. Min(T) <= r.ts  BY <2>3, <4>1
      <4>3. r.ts \in Int /\ row.ts \in Int  BY <1>1, <1>4
      <4> QED  BY <2>4, <4>2, <4>3
    <3> QED  BY <3>1
  <2>6. Cardinality(Before(row)) = 0  BY <2>5, FS_EmptySet
  <2>7. 0 < Limit  BY CandleAssumption
  <2> QED  BY <1>2, <2>4, <2>6, <2>7
<1> QED  BY <1>1, <1>3, <1>5, <1>6 DEF Answers

-----------------------------------------------------------------------------
(* Sets without a gap.                                                     *)
Between(x, b, y) == (x <= b /\ b <= y) \/ (y <= b /\ b <= x)

LEMMA Extended ==
    ASSUME NEW I, NEW S, I \subseteq S, S \subseteq Int, Contiguous(I),
           \A x \in S : x \in I \/ \E y \in I : \A b \in Even : Between(y, b, x) => b \in S
    PROVE  Contiguous(S)
<1> SUFFICES ASSUME NEW a \in S, NEW c \in S, NEW b \in Even, a < b, b < c
             PROVE  b \in S
  BY DEF Contiguous
<1>0. b \in Int  BY EvenIs
<1>1. ASSUME NEW x \in S
      PROVE  \E y \in I : \A e \in Even : Between(y, e, x) => e \in S \/ e = x
  <2>1. CASE x \in I
    <3>1. \A e \in Even : Between(x, e, x) => e = x  BY EvenIs DEF Between
    <3> QED  BY <2>1, <3>1
  <2>2. CASE x \notin I  BY <1>1, <2>2
  <2> QED  BY <2>1, <2>2
<1>2. PICK p \in I : \A e \in Even : Between(p, e, a) => e \in S \/ e = a  BY <1>1
<1>3. PICK q \in I : \A e \in Even : Between(q, e, c) => e \in S \/ e = c  BY <1>1
<1>4. p \in Int /\ q \in Int  OBVIOUS
<1>5. CASE b <= p  BY <1>0, <1>2, <1>4, <1>5 DEF Between
<1>6. CASE q <= b  BY <1>0, <1>3, <1>4, <1>6 DEF Between
<1>7. CASE p < b /\ b < q  BY <1>7 DEF Contiguous
<1> QED  BY <1>0, <1>4, <1>5, <1>6, <1>7

LEMMA Trimmed ==
    ASSUME NEW I, NEW S, NEW first, I \subseteq Int, Contiguous(I), S \subseteq I,
           \A x \in I : x \in S \/ x = first, \A x \in I : first <= x
    PROVE  Contiguous(S)
<1> SUFFICES ASSUME NEW a \in S, NEW c \in S, NEW b \in Even, a < b, b < c
             PROVE  b \in S
  BY DEF Contiguous
<1>1. b \in I  BY DEF Contiguous
<1>2. first <= a /\ a \in Int /\ b \in Int  BY <1>1
<1>3. b # first
  <2>1. ASSUME b = first PROVE FALSE  BY <1>2, <2>1
  <2> QED  BY <2>1
<1> QED  BY <1>1, <1>3

-----------------------------------------------------------------------------
(* What a step keeps: time goes on, and what is known stays known.         *)
Onward ==
    /\ minute \in Int /\ minute' \in Int /\ minute <= minute'
    /\ excused \subseteq excused'
    /\ \A sym \in Symbols : Known(sym) \subseteq Known(sym)'

LEMMA MinutesOn ==
    ASSUME minute \in Int, minute' \in Int, minute <= minute'
    PROVE  Minutes \subseteq Minutes' /\ Rows \subseteq Rows' /\ Now \in Int /\ Now <= Now'
<1>1. Minutes \subseteq Minutes'
  <2>1. \A m \in Earliest..minute : m \in Earliest..(minute')  OBVIOUS
  <2> QED  BY <2>1 DEF Minutes
<1>2. Rows \subseteq Rows'  BY <1>1 DEF Rows
<1>3. PICK m \in Int, n \in Int : m = minute /\ n = minute'  OBVIOUS
<1>6. m <= n  BY <1>3
<1>4. 2 * m + 1 \in Int /\ 2 * m + 1 <= 2 * n + 1  BY <1>6
<1>5. Now = 2 * m + 1 /\ Now' = 2 * n + 1  BY <1>3 DEF Now, Minute
<1> QED  BY <1>1, <1>2, <1>4, <1>5

LEMMA OnwardFrom ==
    ASSUME minute \in Int, minute' \in Int, minute <= minute', excused \subseteq excused',
           Stores, \A row \in candles : row \in candles' \/ Key(row) \in excused'
    PROVE  Onward
<1>1. ASSUME NEW sym \in Symbols, NEW t \in Known(sym) PROVE t \in Known(sym)'
  <2>1. CASE t \in Times(sym)
    <3>1. PICK row \in candles : row.sym = sym /\ row.ts = t  BY <2>1, TimesAre
    <3>2. t \in Minutes'  BY <3>1, MinutesOn DEF Stores, Rows
    <3>3. CASE row \in candles'
      <4>1. t \in Times(sym)'  BY <3>1, <3>3 DEF Times, Of
      <4> QED  BY <4>1 DEF Known
    <3>4. CASE Key(row) \in excused'
      BY <3>1, <3>2, <3>4 DEF Known, Key
    <3> QED  BY <3>3, <3>4
  <2>2. CASE t \in Minutes /\ <<sym, t>> \in excused
    BY <2>2, MinutesOn DEF Known
  <2> QED  BY <1>1, <2>1, <2>2 DEF Known
<1> QED  BY <1>1 DEF Onward

LEMMA JobMoved ==
    ASSUME Onward, NEW w, JobShape(w), EndsKnown(w), ForwardJob(w), BackwardJob(w), BatchStaged(w)'
    PROVE  JobInv(w)'
<1>1. Minutes \subseteq Minutes' /\ Rows \subseteq Rows' /\ Now \in Int /\ Now <= Now'
  BY MinutesOn DEF Onward
<1>2. JobShape(w)'
  <2>1. w.batch \subseteq Rows'  BY <1>1 DEF JobShape
  <2> QED  BY <2>1 DEF JobShape
<1>3. w.pc # "idle" => w.sym \in Symbols  BY DEF JobShape
<1>4. EndsKnown(w)'  BY <1>3 DEF EndsKnown, Onward
<1>5. ForwardJob(w)'
  <2>1. w.pc \in Working => w.pc # "idle"  BY DEF Working
  <2> QED  BY <1>3, <2>1 DEF ForwardJob, Onward
<1>6. BackwardJob(w)'
  <2> SUFFICES ASSUME Backward(w) PROVE BackwardJob(w)'  BY DEF BackwardJob
  <2>1. /\ w.start = First /\ First < w.cursor /\ w.cursor <= Now
        /\ \A row \in w.batch : row.ts <= w.cursor
        /\ \A t \in Open(w) : \/ \E r \in w.batch : r.ts = t
                              \/ <<w.sym, t>> \in excused
                              \/ \A row \in w.batch : t < row.ts
    BY DEF BackwardJob
  <2>2. w.cursor \in Int  BY DEF JobShape
  <2>3. w.cursor <= Now'
    <3>1. Now' \in Int  BY DEF Onward, Now, Minute
    <3> QED  BY <1>1, <2>1, <2>2, <3>1
  <2> QED  BY <2>1, <2>3 DEF BackwardJob, Onward
<1> QED  BY <1>2, <1>4, <1>5, <1>6 DEF JobInv

LEMMA JobKept ==
    ASSUME Onward, NEW w, JobInv(w), BatchStaged(w)'
    PROVE  JobInv(w)'
BY JobMoved DEF JobInv

LEMMA StagedKept ==
    ASSUME NEW w, BatchStaged(w), staging \subseteq staging', excused \subseteq excused'
    PROVE  BatchStaged(w)'
<1>1. Keys(staging) \subseteq Keys(staging')  BY DEF Keys
<1> QED  BY <1>1 DEF BatchStaged

-----------------------------------------------------------------------------
(* The minutes that are covered.                                           *)
LEMMA KnownMinutes ==
    ASSUME Stores, NEW sym
    PROVE  Known(sym) \subseteq Minutes
BY EndsOf DEF Known

LEMMA KnownMinutesNext ==
    ASSUME Stores', NEW sym
    PROVE  Known(sym)' \subseteq Minutes'
<1>1. \A row \in candles' : row.ts \in Minutes'  BY DEF Stores, Rows
<1>2. Times(sym)' \subseteq Minutes'  BY <1>1 DEF Times, Of
<1> QED  BY <1>2 DEF Known

LEMMA AskedMinutes ==
    ASSUME minute \in Int, NEW w, JobInv(w), NEW sym
    PROVE  Asked(w, sym) \subseteq Minutes
<1>1. CASE Backward(w) /\ w.sym = sym
  <2>1. w.cursor \in Int /\ BackwardJob(w)  BY DEF JobInv, JobShape
  <2> QED  BY <1>1, <2>1, OpenMinutes DEF Asked
<1>2. CASE ~ (Backward(w) /\ w.sym = sym)  BY <1>2 DEF Asked
<1> QED  BY <1>1, <1>2

LEMMA CoveredIs ==
    ASSUME NEW sym, NEW t
    PROVE  t \in Covered(sym) <=> t \in Known(sym) \/ \E k \in Jobs : t \in Asked(job[k], sym)
BY DEF Covered

LEMMA CoveredMinutes ==
    ASSUME Inductive, NEW sym
    PROVE  Covered(sym) \subseteq Minutes
<1>1. minute \in Int /\ Stores  BY DEF Inductive, Stores
<1>2. ASSUME NEW k \in Jobs PROVE Asked(job[k], sym) \subseteq Minutes
  <2>1. PICK w : w = job[k]  OBVIOUS
  <2>2. JobInv(w)  BY <2>1 DEF Inductive
  <2> QED  BY <1>1, <2>1, <2>2, AskedMinutes
<1> QED  BY <1>1, <1>2, CoveredIs, KnownMinutes

(* One job goes on as v.  It leaves no minute behind but the first one of  *)
(* all, and what it adds is joined to what was covered, or is everything.  *)
Leaves(j, v) ==
    \A sym \in Symbols : \A t \in Asked(job[j], sym) :
        t \in Known(sym)' \/ t \in Asked(v, sym) \/ t = First
Joined(v, sym, t) ==
    \/ t \in Covered(sym)
    \/ \E y \in Covered(sym) : \A b \in Even :
           Between(y, b, t) => b \in Known(sym)' \/ b \in Asked(v, sym) \/ b \in Covered(sym)
Joins(v) ==
    \A sym \in Symbols : \/ Minutes \subseteq Asked(v, sym)
                         \/ \A t \in Known(sym)' \union Asked(v, sym) : Joined(v, sym, t)

LEMMA CoverKept ==
    ASSUME Inductive, Onward, Stores', minute' = minute, NEW j \in Jobs, NEW v,
           job' = [job EXCEPT ![j] = v], JobInv(v)', Leaves(j, v), Joins(v),
           NEW sym \in Symbols
    PROVE  Contiguous(Covered(sym)')
<1>1. PICK I : I = Covered(sym)  OBVIOUS
<1>2. PICK D : D = Covered(sym)'  OBVIOUS
<1>3. PICK K : K = Known(sym)'  OBVIOUS
<1>4. DOMAIN job = Jobs  BY DEF Inductive
<1>5. \A t : t \in D <=> t \in K \/ \E k \in Jobs : t \in Asked(job'[k], sym)
  BY <1>2, <1>3 DEF Covered, Asked, Backward, Forward, Working, Open
<1>6. job'[j] = v /\ \A k \in Jobs : k # j => job'[k] = job[k]  BY <1>4
<1> DEFINE S == D \union (I \cap {First})
<1>7. Known(sym) \subseteq K /\ K \subseteq Minutes'  BY <1>3, KnownMinutesNext DEF Onward
<1>8. I \subseteq S
  <2> SUFFICES ASSUME NEW t \in I PROVE t \in S  OBVIOUS
  <2>1. CASE t \in Known(sym)  BY <1>5, <1>7, <2>1
  <2>2. ASSUME NEW k \in Jobs, t \in Asked(job[k], sym) PROVE t \in S
    <3>1. CASE k # j  BY <1>5, <1>6, <2>2, <3>1
    <3>2. CASE k = j
      <4>1. t \in K \/ t \in Asked(v, sym) \/ t = First  BY <1>3, <2>2, <3>2 DEF Leaves
      <4> QED  BY <1>5, <1>6, <4>1
    <3> QED  BY <3>1, <3>2
  <2> QED  BY <1>1, <2>1, <2>2, CoveredIs
<1>9. Minutes' = Minutes  BY DEF Minutes
<1>10. I \subseteq Minutes  BY <1>1, CoveredMinutes
<1>11. \A t \in D : \/ t \in K \/ t \in Asked(v, sym)
                    \/ t \in I
  <2> SUFFICES ASSUME NEW t \in D, NEW k \in Jobs, t \in Asked(job'[k], sym)
               PROVE  t \in K \/ t \in Asked(v, sym) \/ t \in I
    BY <1>5
  <2>1. CASE k = j  BY <1>6, <2>1
  <2>2. CASE k # j  BY <1>1, <1>6, <2>2, CoveredIs
  <2> QED  BY <2>1, <2>2
<1>12. Asked(v, sym) \subseteq Minutes
  <2>1. PICK w : w = v  OBVIOUS
  <2>2. CASE Backward(v) /\ v.sym = sym
    <3>1. v.start = First /\ v.cursor \in Int /\ v.cursor <= Now'
      BY <2>2 DEF JobInv, BackwardJob, JobShape
    <3>2. Now' = Now /\ minute \in Int  BY DEF Now, Onward
    <3>3. Open(v) \subseteq Minutes
      <4>1. Now \in Int /\ First \in Int  BY <3>2, CandleAssumption DEF Now, First, Minute
      <4> QED  BY <3>1, <3>2, <4>1, OpenIs, MinutesIs, EvenIs
    <3> QED  BY <2>2, <3>3 DEF Asked
  <2> QED  BY <2>2 DEF Asked
<1>13. D \subseteq Minutes  BY <1>7, <1>9, <1>10, <1>11, <1>12
<1>14. S \subseteq Minutes  BY <1>10, <1>13
<1>15. \A t \in Minutes : t \in Int /\ First <= t
  BY MinutesIs, EvenIs DEF Onward
<1>22. CASE Minutes \subseteq Asked(v, sym)
  <2>1. D = Minutes  BY <1>5, <1>6, <1>13, <1>22
  <2>2. \A a, c \in Minutes : \A b \in Even : a < b /\ b < c => b \in Minutes
    <3>1. minute \in Int /\ Now \in Int /\ First \in Int
      BY CandleAssumption DEF Onward, Now, First, Minute
    <3> QED  BY <3>1, MinutesIs, EvenIs
  <2> QED  BY <1>2, <2>1, <2>2 DEF Contiguous
<1> SUFFICES ASSUME \A t \in Known(sym)' \union Asked(v, sym) : Joined(v, sym, t)
             PROVE  Contiguous(D)
  BY <1>2, <1>22 DEF Joins
<1>16. \A x \in S : x \in I \/ \E y \in I : \A b \in Even : Between(y, b, x) => b \in S
  <2> SUFFICES ASSUME NEW x \in S, x \notin I
               PROVE  \E y \in I : \A b \in Even : Between(y, b, x) => b \in S
    OBVIOUS
  <2>1. x \in K \/ x \in Asked(v, sym)  BY <1>11
  <2>2. \E y \in I : \A b \in Even : Between(y, b, x) => b \in K \/ b \in Asked(v, sym) \/ b \in I
    BY <1>1, <1>3, <2>1, Zenon DEF Joined
  <2>3. K \subseteq S /\ Asked(v, sym) \subseteq S  BY <1>5, <1>6
  <2> QED  BY <1>8, <2>2, <2>3
<1>17. Contiguous(I)  BY <1>1 DEF Inductive, NoGap
<1>18. S \subseteq Int  BY <1>14, <1>15
<1>19. PICK T : T = S  OBVIOUS
<1>20. Contiguous(T)
  <2> HIDE DEF S
  <2> QED  BY <1>8, <1>16, <1>17, <1>18, <1>19, Extended
<1>21. /\ T \subseteq Int /\ D \subseteq T
       /\ \A x \in T : x \in D \/ x = First
       /\ \A x \in T : First <= x
  BY <1>14, <1>15, <1>18, <1>19
<1>23. PICK first : first = First  OBVIOUS
<1> QED  BY <1>20, <1>21, <1>23, Trimmed

LEMMA OneJob ==
    ASSUME Inductive, Onward, Stores', minute' = minute, NEW j \in Jobs, NEW v,
           job' = [job EXCEPT ![j] = v], JobInv(v)', Leaves(j, v), Joins(v),
           \A k \in Jobs \ {j} : BatchStaged(job[k])', StagedKnown', CachedStored'
    PROVE  Inductive'
<1>1. DOMAIN job = Jobs  BY DEF Inductive
<1>2. DOMAIN job' = Jobs  BY <1>1
<1>3. ASSUME NEW k \in Jobs, NEW w, w = job'[k] PROVE JobInv(w)'
  <2>1. CASE k = j
    <3>1. w = v  BY <1>1, <1>3, <2>1
    <3> QED  BY <3>1
  <2>2. CASE k # j
    <3>1. w = job[k]  BY <1>1, <1>3, <2>2
    <3>2. JobInv(w)  BY <3>1 DEF Inductive
    <3>3. BatchStaged(w)'  BY <1>3, <2>2 DEF BatchStaged
    <3> QED  BY <3>2, <3>3, JobKept
  <2> QED  BY <2>1, <2>2
<1>4. \A sym \in Symbols : Contiguous(Covered(sym)')  BY CoverKept
<1>5. NoGap'  BY <1>4 DEF NoGap
<1> QED  BY <1>2, <1>3, <1>5 DEF Inductive

-----------------------------------------------------------------------------
(* What a job goes on with.                                                *)
Asks(v) == v.pc \in {"idle", "read", "check", "fetch"}
Attached(v) ==
    \A sym \in Symbols : \A t \in Asked(v, sym) :
        \E y \in Known(sym) : \A b \in Even : Between(y, b, t) => b \in Asked(v, sym) \/ b = y

LEMMA NotBackward == ASSUME NEW v, v.pc \notin Working, NEW sym PROVE Asked(v, sym) = {}
BY DEF Asked, Backward

Rested(v) ==
    /\ v.pc \in {"idle", "read"} /\ v.batch = {} /\ v.first = None /\ v.last = None
    /\ v.start = 0 /\ v.cursor = 0 /\ v.end = 0 /\ v.phase = ""
    /\ DOMAIN v = DOMAIN Idle /\ v.rest \subseteq Symbols

LEMMA EndedAs ==
    ASSUME NEW w, w.rest \in SUBSET Symbols, NEW v, v = Ended(w)
    PROVE  JobInv(v) /\ v.pc \in {"idle", "read"} /\ Attached(v)
<1>1. \/ v = Idle
      \/ \E sym \in Symbols, rest \in SUBSET Symbols :
             v = [Idle EXCEPT !.pc = "read", !.kind = "update", !.sym = sym,
                              !.rest = rest, !.unread = {"first", "last"}]
  <2>1. CASE w.rest = {}  BY <2>1 DEF Ended
  <2>2. CASE w.rest # {}
    <3>1. PICK sym : sym = CHOOSE s \in w.rest : TRUE  OBVIOUS
    <3>2. sym \in w.rest  BY <2>2, <3>1
    <3>3. w.rest \ {sym} \in SUBSET Symbols  OBVIOUS
    <3> QED  BY <2>2, <3>1, <3>2, <3>3 DEF Ended
  <2> QED  BY <2>1, <2>2
<1>2. /\ Rested(v)
      /\ v.pc = "idle" => v = Idle
      /\ v.pc = "read" => v.kind = "update" /\ v.sym \in Symbols /\ v.unread \subseteq {"first", "last"}
  <2>1. CASE v = Idle
    <3>1. Rested(Idle) /\ Idle.pc = "idle"  BY DEF Rested, Idle
    <3> QED  BY <2>1, <3>1
  <2>2. ASSUME NEW sym \in Symbols, NEW rest \in SUBSET Symbols,
               v = [Idle EXCEPT !.pc = "read", !.kind = "update", !.sym = sym,
                                !.rest = rest, !.unread = {"first", "last"}]
        PROVE  Rested(v) /\ v.pc = "read" /\ v.kind = "update" /\ v.sym \in Symbols
               /\ v.unread \subseteq {"first", "last"}
    <3>1. /\ v.pc = "read" /\ v.kind = "update" /\ v.sym = sym /\ v.rest = rest
          /\ v.unread = {"first", "last"} /\ DOMAIN v = DOMAIN Idle
      BY <2>2 DEF Idle
    <3>2. /\ v.batch = {} /\ v.first = None /\ v.last = None
          /\ v.start = 0 /\ v.cursor = 0 /\ v.end = 0 /\ v.phase = ""
      BY <2>2 DEF Idle
    <3> QED  BY <3>1, <3>2 DEF Rested
  <2> QED  BY <1>1, <2>1, <2>2
<1>3. Rested(v)  BY <1>2
<1>4. None \in Int  BY DEF None
<1>5. JobShape(v)
  <2>1. /\ v.pc \in {"idle", "read", "check"} \union Working
        /\ v.pc \notin Working
        /\ v.pc \notin {"clear", "append", "merge"}
    BY <1>3 DEF Rested, Working
  <2>5. v.cursor = 0 /\ v.start = 0 /\ v.end = 0 /\ v.first = None /\ v.last = None
    BY <1>3 DEF Rested
  <2>6. v.batch = {} /\ DOMAIN v = DOMAIN Idle /\ v.rest \subseteq Symbols /\ v.phase = ""
    BY <1>3 DEF Rested
  <2>2. v.cursor \in Int /\ v.start \in Int /\ v.end \in Int /\ v.first \in Int /\ v.last \in Int
    BY <1>4, <2>5
  <2>3. v.pc \in {"read", "check"} => v.pc = "read"  BY <1>3 DEF Rested
  <2>4. v.pc # "idle" => v.pc = "read"  BY <1>3 DEF Rested
  <2> QED  BY <1>2, <2>1, <2>2, <2>3, <2>4, <2>6 DEF JobShape
<1>6. v.pc \notin Working /\ v.pc # "merge"  BY <1>3 DEF Working, Rested
<1>7. EndsKnown(v) /\ ForwardJob(v) /\ BackwardJob(v) /\ BatchStaged(v)
  BY <1>3, <1>6 DEF Rested, EndsKnown, ForwardJob, BackwardJob, Backward, BatchStaged
<1>8. Attached(v)  BY <1>6, NotBackward DEF Attached
<1> QED  BY <1>3, <1>5, <1>7, <1>8 DEF JobInv, Rested

(* What the branches that go on have in common.                            *)
Workable(w) ==
    /\ DOMAIN w = DOMAIN Idle
    /\ w.pc # "idle" /\ w.sym \in Symbols /\ w.rest \in SUBSET Symbols
    /\ w.start \in Int /\ w.cursor \in Int /\ w.end \in Int
    /\ w.first \in Int /\ w.last \in Int /\ w.batch = {}
    /\ EndsKnown(w)

LEMMA BackfillAs ==
    ASSUME Stores, NEW w, Workable(w), NEW v, v = Backfill(w)
    PROVE  JobInv(v) /\ Asks(v) /\ Attached(v)
<1>1. CASE ~ (w.kind = "update" /\ w.phase # "backfill" /\ w.first > First /\ w.first - Minute > First)
  <2>1. v = Ended(w)  BY <1>1 DEF Backfill
  <2>2. JobInv(v) /\ v.pc \in {"idle", "read"} /\ Attached(v)  BY <2>1, EndedAs DEF Workable
  <2> QED  BY <2>2 DEF Asks
<1>2. CASE w.kind = "update" /\ w.phase # "backfill" /\ w.first > First /\ w.first - Minute > First
  <2>0. First \in Int /\ None \in Int /\ First > None /\ minute \in Int
    BY CandleAssumption DEF First, None, Minute, Stores
  <2>1. v = [w EXCEPT !.pc = "fetch", !.phase = "backfill", !.start = First,
                      !.cursor = w.first - Minute]
    BY <1>2 DEF Backfill
  <2>2. /\ DOMAIN v = DOMAIN Idle /\ v.pc = "fetch" /\ v.phase = "backfill" /\ v.start = First
        /\ v.cursor = w.first - 2 /\ v.kind = "update" /\ v.sym = w.sym /\ v.rest = w.rest
        /\ v.end = w.end /\ v.first = w.first /\ v.last = w.last /\ v.batch = {}
    BY <1>2, <2>1 DEF Workable, Idle, Minute
  <2>3. w.first \in Known(w.sym)  BY <1>2, <2>0 DEF Workable, EndsKnown
  <2>4. w.first \in Even /\ w.first <= Now
    BY <2>0, <2>3, KnownMinutes, MinutesIs
  <2>5. JobShape(v)
    BY <2>0, <2>2 DEF JobShape, Working, Workable, Idle
  <2>6. EndsKnown(v)  BY <2>2 DEF Workable, EndsKnown
  <2>7. ForwardJob(v) /\ BatchStaged(v) /\ Backward(v)
    BY <2>2 DEF ForwardJob, Forward, BatchStaged, Backward, Working
  <2>8. v.cursor \in Int /\ First < v.cursor /\ v.cursor <= Now
    <3>1. Now \in Int  BY <2>0 DEF Now, Minute
    <3> QED  BY <1>2, <2>0, <2>2, <2>4, <3>1 DEF Workable, Minute
  <2>9. BackwardJob(v)  BY <2>2, <2>8 DEF BackwardJob
  <2>10. Attached(v)
    <3> SUFFICES ASSUME NEW sym \in Symbols, NEW t \in Asked(v, sym)
                 PROVE  \E y \in Known(sym) :
                            \A b \in Even : Between(y, b, t) => b \in Asked(v, sym) \/ b = y
      BY DEF Attached
    <3>1. sym = w.sym /\ Asked(v, sym) = Open(v)  BY <2>2 DEF Asked
    <3>2. t \in Even /\ First <= t /\ t <= w.first - 2 /\ t \in Int
      BY <2>0, <2>2, <2>8, <3>1, OpenIs, EvenIs
    <3>3. ASSUME NEW b \in Even, Between(w.first, b, t) PROVE b \in Open(v) \/ b = w.first
      <4>1. b \in Int /\ b % 2 = 0 /\ w.first % 2 = 0 /\ w.first \in Int
        BY <2>4, EvenIs DEF Minute
      <4>2. t <= b /\ b <= w.first  BY <3>2, <3>3, <4>1 DEF Between
      <4>3. b = w.first \/ b <= w.first - 2  BY <4>1, <4>2
      <4>4. First <= b  BY <2>0, <3>2, <4>1, <4>2
      <4> QED  BY <2>0, <2>2, <2>8, <4>3, <4>4, OpenIs
    <3> QED  BY <2>3, <3>1, <3>3
  <2> QED  BY <2>2, <2>5, <2>6, <2>7, <2>9, <2>10 DEF JobInv, Asks
<1> QED  BY <1>1, <1>2

-----------------------------------------------------------------------------
(* A step of one job that leaves the tables alone.                         *)
LEMMA TablesKept ==
    ASSUME Inductive, UNCHANGED <<minute, candles, staging, cache>>, excused \subseteq excused',
           excused' \subseteq Symbols \X Minutes, NEW j \in Jobs, NEW v,
           job' = [job EXCEPT ![j] = v], job[j].pc # "merge",
           JobInv(v)', Leaves(j, v), Joins(v)
    PROVE  Inductive'
<1>1. minute \in Int /\ Stores  BY DEF Inductive, Stores
<1>2. Onward  BY <1>1, OnwardFrom
<1>3. Minutes' = Minutes /\ Rows' = Rows  BY DEF Minutes, Rows
<1>4. Stores'
  <2>1. \A r, s \in candles' : Key(r) = Key(s) => r = s  BY <1>1 DEF Stores
  <2> QED  BY <1>1, <1>3, <2>1 DEF Stores
<1>5. DOMAIN job = Jobs  BY DEF Inductive
<1>6. \A k \in Jobs \ {j} : BatchStaged(job[k])'
  <2> SUFFICES ASSUME NEW k \in Jobs \ {j} PROVE BatchStaged(job[k])'  OBVIOUS
  <2>1. job'[k] = job[k] /\ BatchStaged(job[k])  BY <1>5 DEF Inductive, JobInv
  <2> QED  BY <2>1 DEF BatchStaged
<1>7. StagedKnown'
  <2> SUFFICES ASSUME NEW row \in staging
               PROVE  \/ row.ts \in Known(row.sym)'
                      \/ \E k \in Jobs : job'[k].pc = "merge" /\ Key(row) \in Keys(job'[k].batch)
    BY DEF StagedKnown
  <2>1. row.sym \in Symbols  BY <1>1 DEF Stores, Rows
  <2>2. CASE row.ts \in Known(row.sym)  BY <1>2, <2>1, <2>2 DEF Onward
  <2>3. CASE \E k \in Jobs : job[k].pc = "merge" /\ Key(row) \in Keys(job[k].batch)
    <3>1. PICK k \in Jobs : job[k].pc = "merge" /\ Key(row) \in Keys(job[k].batch)  BY <2>3
    <3>2. job'[k] = job[k]  BY <1>5, <3>1
    <3> QED  BY <3>1, <3>2
  <2> QED  BY <2>2, <2>3 DEF Inductive, StagedKnown
<1>8. CachedStored'  BY DEF Inductive, CachedStored
<1> QED  BY <1>2, <1>4, <1>6, <1>7, <1>8, OneJob

(* ... and goes on to read, ask or rest, having nothing to ask for yet.    *)
LEMMA GoesOn ==
    ASSUME Inductive, UNCHANGED <<minute, candles, staging, cache, excused>>, NEW j \in Jobs, NEW v,
           job' = [job EXCEPT ![j] = v], ~ Backward(job[j]), job[j].pc # "merge",
           JobInv(v), Asks(v), Attached(v)
    PROVE  Inductive'
<1>1. Stores /\ minute \in Int  BY DEF Inductive, Stores
<1>2. excused' \subseteq Symbols \X Minutes  BY <1>1 DEF Stores
<1>3. Onward  BY <1>1, OnwardFrom
<1>4. BatchStaged(v)'  BY DEF Asks, BatchStaged
<1>5. JobInv(v)'  BY <1>3, <1>4, JobKept
<1>6. Leaves(j, v)  BY DEF Leaves, Asked
<1>7. \A sym \in Symbols : Known(sym)' = Known(sym)
  BY DEF Known, Times, Of, Minutes
<1>8. Joins(v)
  <2> SUFFICES ASSUME NEW sym \in Symbols, NEW t \in Known(sym)' \union Asked(v, sym)
               PROVE  Joined(v, sym, t)
    BY DEF Joins
  <2>1. Known(sym) \subseteq Covered(sym)  BY CoveredIs
  <2>2. CASE t \in Known(sym)'  BY <1>7, <2>1, <2>2 DEF Joined
  <2>3. CASE t \in Asked(v, sym)
    <3>1. PICK y \in Known(sym) : \A b \in Even : Between(y, b, t) => b \in Asked(v, sym) \/ b = y
      BY <2>3 DEF Attached
    <3> QED  BY <2>1, <3>1 DEF Joined
  <2> QED  BY <2>2, <2>3
<1> QED  BY <1>2, <1>5, <1>6, <1>8, TablesKept

-----------------------------------------------------------------------------
(* The actions that start a job.                                           *)
LEMMA IdleRests ==
    ASSUME Inductive, NEW j \in Jobs, job[j].pc = "idle"
    PROVE  ~ Backward(job[j]) /\ job[j].pc # "merge" /\ \A sym : Asked(job[j], sym) = {}
BY DEF Asked, Backward, Working

LEMMA UpdateBegins ==
    ASSUME NEW sym \in Symbols, NEW v,
           v = [Idle EXCEPT !.pc = "read", !.kind = "update", !.sym = sym, !.unread = {"first", "last"}]
    PROVE  JobInv(v) /\ Asks(v) /\ Attached(v)
<1>1. /\ v.pc = "read" /\ v.kind = "update" /\ v.sym = sym /\ v.unread = {"first", "last"}
      /\ DOMAIN v = DOMAIN Idle
  BY DEF Idle
<1>2. /\ v.rest = {} /\ v.batch = {} /\ v.first = None /\ v.last = None
      /\ v.start = 0 /\ v.cursor = 0 /\ v.end = 0 /\ v.phase = ""
  BY DEF Idle
<1>3. None \in Int  BY DEF None
<1>4. v.pc \notin Working /\ v.pc # "merge" /\ v.pc # "idle"  BY <1>1 DEF Working
<1>5. JobShape(v)
  <2>1. v.pc \notin {"clear", "append", "merge"}  BY <1>1
  <2>3. v.cursor = 0 /\ v.start = 0 /\ v.end = 0 /\ v.first = None /\ v.last = None
    BY <1>2
  <2>2. v.cursor \in Int /\ v.start \in Int /\ v.end \in Int /\ v.first \in Int /\ v.last \in Int
    BY <1>3, <2>3
  <2> QED  BY <1>1, <1>2, <1>4, <2>1, <2>2 DEF JobShape
<1>6. EndsKnown(v) /\ ForwardJob(v) /\ BackwardJob(v) /\ BatchStaged(v)
  BY <1>2, <1>4 DEF EndsKnown, ForwardJob, BackwardJob, Backward, BatchStaged
<1>7. Attached(v)  BY <1>4, NotBackward DEF Attached
<1> QED  BY <1>1, <1>5, <1>6, <1>7 DEF JobInv, Asks

LEMMA StartUpdateStep ==
    ASSUME Inductive, NEW j \in Jobs, NEW sym \in Symbols, StartUpdate(j, sym)
    PROVE  Inductive'
<1>1. PICK v : v = [Idle EXCEPT !.pc = "read", !.kind = "update", !.sym = sym,
                                !.unread = {"first", "last"}]
  OBVIOUS
<1>2. /\ job[j].pc = "idle" /\ job' = [job EXCEPT ![j] = v]
      /\ UNCHANGED <<minute, candles, staging, cache, excused>>
  BY <1>1 DEF StartUpdate, Starts, Set
<1> QED  BY <1>1, <1>2, IdleRests, UpdateBegins, GoesOn

LEMMA StartUpdateAllStep ==
    ASSUME Inductive, NEW j \in Jobs, StartUpdateAll(j)
    PROVE  Inductive'
<1>1. PICK w : w = [Idle EXCEPT !.rest = {sym \in Symbols : Times(sym) # {}}]  OBVIOUS
<1>2. PICK v : v = Ended(w)  OBVIOUS
<1>3. w.rest \in SUBSET Symbols  BY <1>1 DEF Idle
<1>4. /\ job[j].pc = "idle" /\ job' = [job EXCEPT ![j] = v]
      /\ UNCHANGED <<minute, candles, staging, cache, excused>>
  BY <1>1, <1>2 DEF StartUpdateAll, Starts, Set
<1>5. JobInv(v) /\ Asks(v) /\ Attached(v)  BY <1>2, <1>3, EndedAs DEF Asks
<1> QED  BY <1>4, <1>5, IdleRests, GoesOn

LEMMA StartIngestStep ==
    ASSUME Inductive, NEW j \in Jobs, NEW sym \in Symbols, StartIngest(j, sym)
    PROVE  Inductive'
<1>1. PICK w : w = [Idle EXCEPT !.kind = "ingest", !.sym = sym, !.phase = "recent",
                                !.start = First, !.cursor = Now]
  OBVIOUS
<1>2. PICK v : v = Continued(w)  OBVIOUS
<1>3. /\ job[j].pc = "idle" /\ job' = [job EXCEPT ![j] = v]
      /\ UNCHANGED <<minute, candles, staging, cache, excused>>
  BY <1>1, <1>2 DEF StartIngest, Starts, Set
<1>4. /\ w.kind = "ingest" /\ w.sym = sym /\ w.phase = "recent" /\ w.start = First /\ w.cursor = Now
      /\ w.rest = {} /\ DOMAIN w = DOMAIN Idle /\ w.first = None /\ w.last = None /\ w.end = 0
  BY <1>1 DEF Idle
<1>5. Stores /\ minute \in Int /\ First \in Int /\ Now \in Int /\ None \in Int
  BY CandleAssumption DEF Inductive, Stores, First, Now, Minute, None
<1>6. CASE ~ (Now > First)
  <2>1. v = Ended([w EXCEPT !.batch = {}])
    BY <1>2, <1>4, <1>6 DEF Continued, Backfill, Forward
  <2>2. [w EXCEPT !.batch = {}].rest \in SUBSET Symbols  BY <1>4
  <2>3. JobInv(v) /\ Asks(v) /\ Attached(v)  BY <2>1, <2>2, EndedAs DEF Asks
  <2> QED  BY <1>3, <2>3, IdleRests, GoesOn
<1>7. CASE Now > First
  <2>1. v = [w EXCEPT !.pc = "fetch", !.batch = {}]
    BY <1>2, <1>4, <1>7 DEF Continued, Forward
  <2>2. /\ v.pc = "fetch" /\ v.kind = "ingest" /\ v.sym = sym /\ v.phase = "recent"
        /\ v.start = First /\ v.cursor = Now /\ v.rest = {} /\ DOMAIN v = DOMAIN Idle
        /\ v.first = None /\ v.last = None /\ v.end = 0 /\ v.batch = {}
    BY <1>4, <2>1 DEF Idle
  <2>3. JobShape(v)  BY <1>5, <2>2 DEF JobShape, Working
  <2>4. EndsKnown(v) /\ ForwardJob(v) /\ BatchStaged(v) /\ Backward(v)
    BY <2>2 DEF EndsKnown, ForwardJob, Forward, BatchStaged, Backward, Working
  <2>5. BackwardJob(v)  BY <1>5, <1>7, <2>2 DEF BackwardJob
  <2>6. Onward  BY <1>3, <1>5, OnwardFrom
  <2>7. BatchStaged(v)'  BY <2>2 DEF BatchStaged
  <2>8. JobInv(v)'  BY <2>3, <2>4, <2>5, <2>6, <2>7, JobKept DEF JobInv
  <2>9. Leaves(j, v)  BY <1>3, IdleRests DEF Leaves
  <2>10. Minutes \subseteq Asked(v, sym)
    <3>1. Asked(v, sym) = Open(v)  BY <2>2, <2>4 DEF Asked
    <3> QED  BY <1>5, <2>2, <3>1, OpenIs, MinutesIs
  <2>11. Joins(v)
    <3>1. \A s \in Symbols : Known(s)' = Known(s)  BY <1>3 DEF Known, Times, Of, Minutes
    <3>2. ASSUME NEW s \in Symbols, s # sym, NEW t \in Known(s)' \union Asked(v, s)
          PROVE  Joined(v, s, t)
      <4>1. Asked(v, s) = {}  BY <2>2, <3>2 DEF Asked
      <4>2. t \in Covered(s)  BY <3>1, <3>2, <4>1, CoveredIs
      <4> QED  BY <4>2 DEF Joined
    <3> QED  BY <2>10, <3>2 DEF Joins
  <2>12. excused' \subseteq Symbols \X Minutes  BY <1>3, <1>5 DEF Stores
  <2> QED  BY <1>3, <2>8, <2>9, <2>11, <2>12, IdleRests, TablesKept
<1> QED  BY <1>6, <1>7

-----------------------------------------------------------------------------
(* The actions of an update before it asks.                                *)
LEMMA ReadStep ==
    ASSUME Inductive, NEW j \in Jobs, Read(j)
    PROVE  Inductive'
<1>1. PICK w : w = job[j]  OBVIOUS
<1>2. JobInv(w) /\ w.pc = "read" /\ DOMAIN w = DOMAIN Idle
  <2>1. JobInv(w)  BY <1>1 DEF Inductive
  <2>2. w.pc = "read"  BY <1>1 DEF Read
  <2>3. DOMAIN w = DOMAIN Idle  BY <2>1 DEF JobInv, JobShape
  <2> QED  BY <2>1, <2>2, <2>3
<1>3. PICK end \in w.unread :
          job' = [job EXCEPT ![j] =
              [w EXCEPT !.unread = w.unread \ {end},
                        !.first = IF end = "first" THEN IF end = "first" THEN FirstTs(w.sym) ELSE LastTs(w.sym) ELSE @,
                        !.last = IF end = "last" THEN IF end = "first" THEN FirstTs(w.sym) ELSE LastTs(w.sym) ELSE @,
                        !.pc = IF w.unread \ {end} = {} THEN "check" ELSE "read"]]
  BY <1>1 DEF Read, Set
<1>4. PICK x, y : /\ x = IF end = "first" THEN FirstTs(w.sym) ELSE w.first
                  /\ y = IF end = "last" THEN LastTs(w.sym) ELSE w.last
  OBVIOUS
<1>5. PICK v : v = [w EXCEPT !.unread = w.unread \ {end}, !.first = x, !.last = y,
                             !.pc = IF w.unread \ {end} = {} THEN "check" ELSE "read"]
  OBVIOUS
<1>6. job' = [job EXCEPT ![j] = v]
  <2>1. end \in {"first", "last"}  BY <1>2, <1>3 DEF JobInv, JobShape
  <2>2. CASE end = "first"  BY <1>2, <1>3, <1>4, <1>5, <2>2 DEF Idle
  <2>3. CASE end = "last"  BY <1>2, <1>3, <1>4, <1>5, <2>3 DEF Idle
  <2> QED  BY <2>1, <2>2, <2>3
<1>7. /\ DOMAIN v = DOMAIN Idle /\ v.pc \in {"check", "read"} /\ v.first = x /\ v.last = y
      /\ v.unread = w.unread \ {end} /\ v.rest = w.rest /\ v.cursor = w.cursor /\ v.start = w.start
      /\ v.end = w.end /\ v.batch = w.batch /\ v.sym = w.sym /\ v.kind = w.kind /\ v.phase = w.phase
  BY <1>2, <1>5 DEF Idle
<1>8. Stores /\ minute \in Int /\ w.sym \in Symbols  BY <1>2 DEF Inductive, Stores, JobInv, JobShape
<1>9. /\ x \in Int /\ (x = None \/ x \in Known(w.sym))
      /\ y \in Int /\ (y = None \/ y \in Known(w.sym))
  <2>1. /\ FirstTs(w.sym) \in Int /\ LastTs(w.sym) \in Int
        /\ FirstTs(w.sym) = None \/ FirstTs(w.sym) \in Known(w.sym)
        /\ LastTs(w.sym) = None \/ LastTs(w.sym) \in Known(w.sym)
    BY <1>8, EndsOf DEF Known
  <2>2. /\ w.first \in Int /\ (w.first = None \/ w.first \in Known(w.sym))
        /\ w.last \in Int /\ (w.last = None \/ w.last \in Known(w.sym))
    BY <1>2 DEF JobInv, JobShape, EndsKnown
  <2> QED  BY <1>4, <2>1, <2>2
<1>10. /\ w.kind = "update" /\ w.phase = "" /\ w.batch = {} /\ w.unread \subseteq {"first", "last"}
       /\ w.rest \subseteq Symbols /\ w.cursor \in Int /\ w.start \in Int /\ w.end \in Int
  BY <1>2 DEF JobInv, JobShape
<1>11. JobShape(v)  BY <1>7, <1>8, <1>9, <1>10 DEF JobShape, Working
<1>12. EndsKnown(v)  BY <1>7, <1>9 DEF EndsKnown
<1>13. v.pc \notin Working /\ v.pc # "merge"  BY <1>7 DEF Working
<1>14. ForwardJob(v) /\ BackwardJob(v) /\ BatchStaged(v) /\ Attached(v)
  BY <1>13, NotBackward DEF ForwardJob, BackwardJob, Backward, BatchStaged, Attached
<1>15. ~ Backward(w) /\ w.pc # "merge"  BY <1>2 DEF Backward, Working
<1>16. UNCHANGED <<minute, candles, staging, cache, excused>>  BY DEF Read
<1>17. JobInv(v) /\ Asks(v)  BY <1>7, <1>11, <1>12, <1>14 DEF JobInv, Asks
<1> QED  BY <1>1, <1>6, <1>14, <1>15, <1>16, <1>17, GoesOn

LEMMA CheckStep ==
    ASSUME Inductive, NEW j \in Jobs, Check(j)
    PROVE  Inductive'
<1>1. PICK w : w = job[j]  OBVIOUS
<1>2. JobInv(w) /\ w.pc = "check" /\ DOMAIN w = DOMAIN Idle
  <2>1. JobInv(w)  BY <1>1 DEF Inductive
  <2>2. w.pc = "check"
    <3>1. [w EXCEPT !.phase = "check", !.now = Now].pc = "check"  BY <1>1 DEF Check
    <3>2. DOMAIN w = DOMAIN Idle  BY <2>1 DEF JobInv, JobShape
    <3> QED  BY <3>1, <3>2 DEF Idle
  <2> QED  BY <2>1, <2>2 DEF JobInv, JobShape
<1>3. PICK u : u = [w EXCEPT !.phase = "check", !.now = Now]  OBVIOUS
<1>4. PICK f : f = [u EXCEPT !.phase = "forward", !.cursor = u.last + Minute, !.end = Now]  OBVIOUS
<1>5. PICK v : v = IF u.last = None THEN Ended(u)
                   ELSE IF Now - u.last > Minute THEN Continued(f) ELSE Backfill(u)
  OBVIOUS
<1>6. job' = [job EXCEPT ![j] = v] /\ UNCHANGED <<minute, candles, staging, cache, excused>>
  BY <1>1, <1>3, <1>4, <1>5 DEF Check, Set
<1>7. /\ DOMAIN u = DOMAIN Idle /\ u.pc = "check" /\ u.phase = "check" /\ u.first = w.first
      /\ u.last = w.last /\ u.rest = w.rest /\ u.cursor = w.cursor /\ u.start = w.start
      /\ u.end = w.end /\ u.batch = w.batch /\ u.sym = w.sym /\ u.kind = w.kind
  BY <1>2, <1>3 DEF Idle
<1>8. Stores /\ minute \in Int /\ Now \in Int  BY DEF Inductive, Stores, Now, Minute
<1>9. /\ w.kind = "update" /\ w.batch = {} /\ w.sym \in Symbols /\ w.rest \in SUBSET Symbols
      /\ w.cursor \in Int /\ w.start \in Int /\ w.end \in Int /\ w.first \in Int /\ w.last \in Int
  BY <1>2 DEF JobInv, JobShape
<1>10. EndsKnown(u)  BY <1>2, <1>7 DEF JobInv, EndsKnown
<1>11. Workable(u)  BY <1>7, <1>9, <1>10 DEF Workable
<1>12. ~ Backward(w) /\ w.pc # "merge"  BY <1>2 DEF Backward, Working
<1>13. JobInv(v) /\ Asks(v) /\ Attached(v)
  <2>1. CASE u.last = None
    <3>1. v = Ended(u) /\ u.rest \in SUBSET Symbols  BY <1>5, <1>7, <1>9, <2>1
    <3>2. JobInv(v) /\ v.pc \in {"idle", "read"} /\ Attached(v)  BY <3>1, EndedAs
    <3> QED  BY <3>2 DEF Asks
  <2>2. CASE u.last # None /\ ~ (Now - u.last > Minute)
    <3>1. v = Backfill(u)  BY <1>5, <2>2
    <3> QED  BY <1>8, <1>11, <3>1, BackfillAs
  <2>3. CASE u.last # None /\ Now - u.last > Minute
    <3>1. v = Continued(f)  BY <1>5, <2>3
    <3>2. /\ DOMAIN f = DOMAIN Idle /\ f.phase = "forward" /\ f.cursor = w.last + 2 /\ f.end = Now
          /\ f.rest = w.rest /\ f.sym = w.sym /\ f.kind = w.kind /\ f.first = w.first
          /\ f.last = w.last /\ f.start = w.start /\ f.batch = {}
      BY <1>4, <1>7, <1>9 DEF Idle, Minute
    <3>3. f.cursor < f.end  BY <1>7, <1>8, <1>9, <2>3, <3>2 DEF Minute
    <3>4. v = [f EXCEPT !.pc = "fetch", !.batch = {}]
      BY <3>1, <3>2, <3>3 DEF Continued, Forward
    <3>5. /\ DOMAIN v = DOMAIN Idle /\ v.pc = "fetch" /\ v.phase = "forward" /\ v.cursor = w.last + 2
          /\ v.end = Now /\ v.rest = w.rest /\ v.sym = w.sym /\ v.kind = w.kind /\ v.first = w.first
          /\ v.last = w.last /\ v.start = w.start /\ v.batch = {}
      BY <3>2, <3>4 DEF Idle
    <3>6. JobShape(v)
      <4>1. v.cursor \in Int /\ v.end \in Int  BY <1>8, <1>9, <3>5
      <4> QED  BY <1>9, <3>5, <4>1 DEF JobShape, Working
    <3>7. EndsKnown(v)  BY <1>10, <1>7, <3>5 DEF EndsKnown
    <3>8. ForwardJob(v)
      <4>1. v.cursor - Minute = w.last  BY <1>9, <3>5 DEF Minute
      <4>2. w.last \in Known(w.sym)  BY <1>7, <1>10, <2>3 DEF EndsKnown
      <4> QED  BY <3>5, <4>1, <4>2 DEF ForwardJob
    <3>9. ~ Backward(v)  BY <3>5 DEF Backward, Forward
    <3>10. BackwardJob(v) /\ BatchStaged(v) /\ Attached(v) /\ Asks(v)
      BY <3>5, <3>9 DEF BackwardJob, BatchStaged, Attached, Asked, Asks
    <3> QED  BY <3>6, <3>7, <3>8, <3>10 DEF JobInv
  <2> QED  BY <2>1, <2>2, <2>3
<1> QED  BY <1>1, <1>6, <1>12, <1>13, GoesOn

-----------------------------------------------------------------------------
(* Fetching.                                                               *)
LEMMA MaxOfTwo ==
    ASSUME NEW a \in Int, NEW b \in Int
    PROVE  Max({a, b}) = IF a >= b THEN a ELSE b
<1>1. PICK lo \in Int, hi \in Int : lo <= a /\ a <= hi /\ lo <= b /\ b <= hi
  <2>1. CASE a <= b  BY <2>1
  <2>2. CASE b <= a  BY <2>2
  <2> QED  BY <2>1, <2>2
<1>0. a \in lo..hi /\ b \in lo..hi  BY <1>1
<1>2. PICK S \in SUBSET (lo..hi) : S = {a, b}  BY <1>0
<1>3. Max(S) \in S /\ \A x \in S : Max(S) >= x  BY <1>2, Greatest
<1>4. (Max(S) = a \/ Max(S) = b) /\ Max(S) >= a /\ Max(S) >= b  BY <1>2, <1>3
<1>5. CASE a >= b  BY <1>2, <1>4, <1>5
<1>6. CASE ~ (a >= b)  BY <1>2, <1>4, <1>6
<1> QED  BY <1>5, <1>6

LEMMA FetchForward ==
    ASSUME Inductive, NEW j \in Jobs, NEW w, w = job[j], Forward(w), Fetch(j)
    PROVE  Inductive'
<1>1. JobInv(w) /\ w.pc = "fetch" /\ DOMAIN w = DOMAIN Idle
  BY DEF Inductive, Fetch, JobInv, JobShape
<1>2. Stores /\ minute \in Int /\ Now \in Int /\ First \in Int
  BY CandleAssumption DEF Inductive, Stores, Now, Minute, First
<1>3. /\ w.phase = "forward" /\ w.sym \in Symbols /\ w.rest \in SUBSET Symbols /\ w.batch = {}
      /\ w.cursor \in Int /\ w.start \in Int /\ w.end \in Int /\ w.first \in Int /\ w.last \in Int
      /\ w.kind = "update"
  BY <1>1 DEF JobInv, JobShape, Forward, Working
<1>4. PICK batch : batch = Klines(w.sym, From(w), To(w))  OBVIOUS
<1>5. From(w) = w.cursor /\ To(w) = w.end  BY DEF From, To
<1>6. Answers(batch, w.sym, w.cursor, w.end)
  <2>1. PICK a \in Int, b \in Int : a = w.cursor /\ b = w.end  BY <1>3
  <2> QED  BY <1>2, <1>3, <1>4, <1>5, <2>1, KlinesAre
<1>7. UNCHANGED <<minute, candles, staging, cache, excused>>  BY DEF Fetch
<1>8. ~ Backward(w) /\ w.pc # "merge"  BY <1>1 DEF Backward
<1>9. CASE batch = {}
  <2>1. PICK v : v = Backfill(w)  OBVIOUS
  <2>2. job' = [job EXCEPT ![j] = v]  BY <1>4, <1>9, <2>1 DEF Fetch, Set
  <2>3. EndsKnown(w)  BY <1>1 DEF JobInv
  <2>4. Workable(w)  BY <1>1, <1>3, <2>3 DEF Workable
  <2>5. JobInv(v) /\ Asks(v) /\ Attached(v)  BY <1>2, <2>1, <2>4, BackfillAs
  <2> QED  BY <1>7, <1>8, <2>2, <2>5, GoesOn
<1>10. CASE batch # {}
  <2>1. PICK v : v = [w EXCEPT !.pc = "clear", !.batch = batch]  OBVIOUS
  <2>2. job' = [job EXCEPT ![j] = v]  BY <1>4, <1>10, <2>1 DEF Fetch, Set
  <2>3. /\ DOMAIN v = DOMAIN Idle /\ v.pc = "clear" /\ v.phase = "forward" /\ v.cursor = w.cursor
        /\ v.end = w.end /\ v.rest = w.rest /\ v.sym = w.sym /\ v.kind = w.kind /\ v.first = w.first
        /\ v.last = w.last /\ v.start = w.start /\ v.batch = batch
    BY <1>1, <1>3, <2>1 DEF Idle
  <2>4. JobShape(v)
    <3>1. batch \subseteq Rows /\ \A row \in batch : row.sym = w.sym  BY <1>6 DEF Answers
    <3> QED  BY <1>3, <1>10, <2>3, <3>1 DEF JobShape, Working
  <2>5. EndsKnown(v)  BY <1>1, <2>3 DEF JobInv, EndsKnown
  <2>6. ForwardJob(v)
    <3>1. w.cursor - Minute \in Known(w.sym)  BY <1>1 DEF JobInv, ForwardJob, Working
    <3>2. First <= w.cursor - Minute
      <4>1. w.cursor - Minute \in Minutes  BY <1>2, <3>1, KnownMinutes
      <4> QED  BY <1>2, <4>1, MinutesIs
    <3>3. ASSUME NEW row \in batch
          PROVE  /\ w.cursor <= row.ts
                 /\ \A t \in Even : w.cursor <= t /\ t <= row.ts => \E r \in batch : r.ts = t
      <4>1. w.cursor <= row.ts /\ row.ts \in Minutes  BY <1>6, <3>3 DEF Answers, Rows
      <4>2. row.ts <= Now /\ row.ts \in Int  BY <1>2, <4>1, MinutesIs, EvenIs
      <4>3. ASSUME NEW t \in Even, w.cursor <= t, t <= row.ts PROVE \E r \in batch : r.ts = t
        <5>1. t \in Int  BY EvenIs
        <5>2. First <= t /\ t <= Now  BY <1>2, <1>3, <3>2, <4>2, <4>3, <5>1 DEF Minute
        <5>3. t \in Minutes  BY <1>2, <5>2, MinutesIs
        <5> QED  BY <1>6, <4>3, <5>3 DEF Answers
      <4> QED  BY <4>1, <4>3
    <3> QED  BY <2>3, <3>1, <3>3 DEF ForwardJob
  <2>7. ~ Backward(v)  BY <2>3 DEF Backward, Forward
  <2>8. BackwardJob(v) /\ BatchStaged(v) /\ BatchStaged(v)'
    BY <2>3, <2>7 DEF BackwardJob, BatchStaged
  <2>9. Onward  BY <1>2, <1>7, OnwardFrom
  <2>10. JobInv(v)'  BY <2>4, <2>5, <2>6, <2>8, <2>9, JobKept DEF JobInv
  <2>11. Leaves(j, v)  BY <1>8 DEF Leaves, Asked
  <2>12. Joins(v)
    <3>1. \A sym \in Symbols : Known(sym)' = Known(sym)  BY <1>7 DEF Known, Times, Of, Minutes
    <3>2. \A sym \in Symbols : Asked(v, sym) = {}  BY <2>7 DEF Asked
    <3>3. ASSUME NEW sym \in Symbols, NEW t \in Known(sym)' \union Asked(v, sym)
          PROVE  Joined(v, sym, t)
      <4>1. t \in Covered(sym)  BY <3>1, <3>2, <3>3, CoveredIs
      <4> QED  BY <4>1 DEF Joined
    <3> QED  BY <3>3 DEF Joins
  <2>13. excused' \subseteq Symbols \X Minutes  BY <1>2, <1>7 DEF Stores
  <2> QED  BY <1>7, <1>8, <2>2, <2>10, <2>11, <2>12, <2>13, TablesKept
<1> QED  BY <1>9, <1>10

LEMMA FetchBackward ==
    ASSUME Inductive, NEW j \in Jobs, NEW w, w = job[j], ~ Forward(w), Fetch(j)
    PROVE  Inductive'
<1>1. JobInv(w) /\ w.pc = "fetch" /\ DOMAIN w = DOMAIN Idle
  BY DEF Inductive, Fetch, JobInv, JobShape
<1>2. Stores /\ minute \in Int /\ Now \in Int /\ First \in Int
  BY CandleAssumption DEF Inductive, Stores, Now, Minute, First
<1>3. /\ w.phase \in {"recent", "backfill"} /\ w.sym \in Symbols /\ w.rest \in SUBSET Symbols
      /\ w.batch = {} /\ w.cursor \in Int /\ w.end \in Int /\ w.first \in Int /\ w.last \in Int
      /\ \/ w.kind = "ingest" /\ w.phase = "recent"
         \/ w.kind = "update" /\ w.phase = "backfill"
  <2>1. \/ w.kind = "ingest" /\ w.phase = "recent"
        \/ w.kind = "update" /\ w.phase = "backfill"
    BY <1>1 DEF JobInv, JobShape, Forward, Working
  <2> QED  BY <1>1, <2>1 DEF JobInv, JobShape
<1>4. Backward(w) /\ w.start = First /\ First < w.cursor /\ w.cursor <= Now
  BY <1>1 DEF JobInv, BackwardJob, Backward, Working
<1>5. PICK batch : batch = Klines(w.sym, From(w), To(w))  OBVIOUS
<1>6. PICK from \in Int : /\ from = From(w) /\ First <= from /\ from <= w.cursor
                          /\ from <= w.cursor - 1
  <2>1. PICK a \in Int, b \in Int : a = First /\ b = w.cursor - Limit * Minute
    BY <1>2, <1>3, CandleAssumption DEF Minute
  <2>2. From(w) = Max({a, b})  BY <1>4, <2>1 DEF From
  <2>3. From(w) = IF a >= b THEN a ELSE b  BY <2>2, MaxOfTwo
  <2>4. a <= w.cursor - 1 /\ b <= w.cursor - 1
    BY <1>2, <1>3, <1>4, <2>1, CandleAssumption DEF Minute
  <2> QED  BY <1>3, <2>1, <2>3, <2>4
<1>7. Answers(batch, w.sym, from, w.cursor)
  <2>1. PICK b \in Int : b = w.cursor  BY <1>3
  <2>2. To(w) = b  BY <2>1 DEF To
  <2> QED  BY <1>2, <1>3, <1>5, <1>6, <2>1, <2>2, KlinesAre
<1>8. batch # {}
  <2>1. PICK c \in Int : c = w.cursor  BY <1>3
  <2>2. \E t \in Minutes : from <= t /\ t <= c
    <3>1. CASE c % 2 = 0
      <4>1. c \in Minutes  BY <1>2, <1>4, <2>1, <3>1, MinutesIs, EvenIs DEF Minute
      <4> QED  BY <1>6, <2>1, <4>1
    <3>2. CASE c % 2 # 0
      <4>1. (c - 1) % 2 = 0 /\ First <= c - 1 /\ c - 1 <= Now /\ c - 1 \in Int
        BY <1>2, <1>4, <2>1, <3>2
      <4>2. c - 1 \in Minutes  BY <1>2, <4>1, MinutesIs, EvenIs DEF Minute
      <4> QED  BY <1>6, <2>1, <4>2
    <3> QED  BY <3>1, <3>2
  <2> QED  BY <1>7, <2>1, <2>2 DEF Answers
<1>9. PICK v : v = [w EXCEPT !.pc = "clear", !.batch = batch]  OBVIOUS
<1>10. job' = [job EXCEPT ![j] = v]  BY <1>5, <1>8, <1>9 DEF Fetch, Set
<1>11. PICK all : all = Within(w.sym, from, w.cursor)  OBVIOUS
<1>12. /\ UNCHANGED <<minute, candles, staging, cache>>
       /\ excused' = excused \union Keys(all \ batch)
  <2>1. To(w) = w.cursor  BY DEF To
  <2> QED  BY <1>5, <1>6, <1>11, <2>1 DEF Fetch
<1>13. /\ \A row \in all : row.sym = w.sym /\ row.ts \in Minutes /\ from <= row.ts /\ row.ts <= w.cursor
       /\ \A t \in Minutes : from <= t /\ t <= w.cursor => \E row \in all : row.ts = t
  <2>1. all \subseteq Available(w.sym)  BY <1>11 DEF Within
  <2> QED  BY <1>2, <1>3, <1>11, <2>1, AvailableIs DEF Within, Rows
<1>14. \A sym, t : <<sym, t>> \in Keys(all \ batch) =>
           sym = w.sym /\ t \in Minutes /\ from <= t /\ t <= w.cursor
  BY <1>13, KeyIs
<1>15. excused' \subseteq Symbols \X Minutes
  <2>1. Keys(all \ batch) \subseteq Symbols \X Minutes  BY <1>3, <1>13 DEF Keys, Key
  <2> QED  BY <1>2, <1>12, <2>1 DEF Stores
<1>16. Onward  BY <1>2, <1>12, OnwardFrom
<1>17. /\ DOMAIN v = DOMAIN Idle /\ v.pc = "clear" /\ v.phase = w.phase /\ v.cursor = w.cursor
       /\ v.end = w.end /\ v.rest = w.rest /\ v.sym = w.sym /\ v.kind = w.kind /\ v.first = w.first
       /\ v.last = w.last /\ v.start = w.start /\ v.batch = batch
  BY <1>1, <1>9 DEF Idle
<1>18. Minutes' = Minutes /\ Rows' = Rows /\ Now' = Now  BY <1>12 DEF Minutes, Rows, Now
<1>19. JobShape(v)'
  <2>1. batch \subseteq Rows /\ \A row \in batch : row.sym = w.sym  BY <1>7 DEF Answers
  <2>2. w.start \in Int  BY <1>2, <1>4
  <2> QED  BY <1>3, <1>8, <1>17, <1>18, <2>1, <2>2 DEF JobShape, Working
<1>20. EndsKnown(v)'
  <2>1. EndsKnown(w)  BY <1>1 DEF JobInv
  <2> QED  BY <1>1, <1>3, <1>16, <1>17, <2>1 DEF EndsKnown, Onward
<1>21. ~ Forward(v) /\ Backward(v) /\ Open(v) = Open(w)
  BY <1>3, <1>17 DEF Backward, Forward, Working, Open
<1>22. \A t \in Open(w) : t \in Minutes /\ t \in Int /\ t <= w.cursor
  BY <1>2, <1>3, <1>4, OpenIs, MinutesIs, EvenIs
<1>23. BackwardJob(v)'
  <2>1. \A row \in batch : from <= row.ts /\ row.ts <= w.cursor /\ row.ts \in Int
    BY <1>2, <1>7, MinutesIs, EvenIs DEF Answers, Rows
  <2>2. ASSUME NEW t \in Open(w)
        PROVE  \/ \E r \in batch : r.ts = t
               \/ <<w.sym, t>> \in excused'
               \/ \A row \in batch : t < row.ts
    <3>1. CASE from <= t
      <4>1. PICK row \in all : row.ts = t /\ row.sym = w.sym  BY <1>13, <1>22, <3>1
      <4>2. CASE row \in batch  BY <4>1, <4>2
      <4>3. CASE row \notin batch
        <5>1. <<w.sym, t>> \in Keys(all \ batch)  BY <4>1, <4>3 DEF Keys, Key
        <5> QED  BY <1>12, <5>1
      <4> QED  BY <4>2, <4>3
    <3>2. CASE ~ (from <= t)
      BY <1>22, <2>1, <3>2
    <3> QED  BY <3>1, <3>2
  <2> QED  BY <1>4, <1>17, <1>18, <1>21, <2>1, <2>2 DEF BackwardJob
<1>24. ForwardJob(v)' /\ BatchStaged(v)'
  BY <1>17, <1>21 DEF ForwardJob, BatchStaged
<1>25. JobInv(v)'  BY <1>19, <1>20, <1>23, <1>24 DEF JobInv
<1>26. \A sym : Asked(v, sym) = Asked(w, sym)  BY <1>4, <1>17, <1>21 DEF Asked
<1>27. Leaves(j, v)  BY <1>26 DEF Leaves
<1>28. Joins(v)
  <2>1. ASSUME NEW sym \in Symbols, NEW t \in Known(sym)' \union Asked(v, sym)
        PROVE  t \in Covered(sym)
    <3>1. CASE t \in Asked(v, sym)  BY <1>26, <3>1, CoveredIs
    <3>2. CASE t \in Known(sym)' /\ t \notin Known(sym)
      <4>1. Times(sym)' = Times(sym)  BY <1>12 DEF Times, Of
      <4>2. t \in Minutes /\ <<sym, t>> \in Keys(all \ batch)
        BY <1>12, <1>18, <3>2, <4>1 DEF Known
      <4>3. sym = w.sym /\ from <= t /\ t <= w.cursor  BY <1>14, <4>2
      <4>4. t \in Open(w)
        <5>1. t \in Even /\ t \in Int  BY <1>2, <4>2, MinutesIs, EvenIs
        <5>2. First <= t  BY <1>2, <4>2, MinutesIs
        <5> QED  BY <1>2, <1>3, <1>4, <4>3, <5>1, <5>2, OpenIs
      <4>5. t \in Asked(w, sym)  BY <1>4, <4>3, <4>4 DEF Asked
      <4> QED  BY <4>5, CoveredIs
    <3>3. CASE t \in Known(sym)  BY <3>3, CoveredIs
    <3> QED  BY <2>1, <3>1, <3>2, <3>3
  <2> QED  BY <2>1 DEF Joins, Joined
<1> QED  BY <1>1, <1>10, <1>12, <1>15, <1>25, <1>27, <1>28, TablesKept

LEMMA FetchStep ==
    ASSUME Inductive, NEW j \in Jobs, Fetch(j)
    PROVE  Inductive'
<1>1. PICK w : w = job[j]  OBVIOUS
<1> QED  BY <1>1, FetchForward, FetchBackward

LEMMA FetchFailsStep ==
    ASSUME Inductive, NEW j \in Jobs, FetchFails(j)
    PROVE  Inductive'
<1>1. PICK w : w = job[j]  OBVIOUS
<1>2. JobInv(w) /\ w.pc \in {"check", "fetch"} /\ w.rest \in SUBSET Symbols /\ w.sym \in Symbols
      /\ w.cursor \in Int
  <2>1. JobInv(w) /\ w.pc \in {"check", "fetch"}  BY <1>1 DEF Inductive, FetchFails
  <2> QED  BY <2>1 DEF JobInv, JobShape
<1>3. Stores /\ minute \in Int  BY DEF Inductive, Stores
<1>4. PICK v : v = Ended(w)  OBVIOUS
<1>5. /\ job' = [job EXCEPT ![j] = v] /\ UNCHANGED <<minute, candles, staging, cache>>
      /\ excused' = IF Backward(w) THEN excused \union Unasked(w) ELSE excused
  BY <1>1, <1>2, <1>4 DEF FetchFails, Set, Backward, Working
<1>6. JobInv(v) /\ v.pc \in {"idle", "read"}  BY <1>2, <1>4, EndedAs
<1>7. Backward(w) => Open(w) \subseteq Minutes
  BY <1>2, <1>3, OpenMinutes DEF JobInv
<1>8. \A sym, t : <<sym, t>> \in Unasked(w) <=> sym = w.sym /\ t \in Open(w)  BY UnaskedIs
<1>9. excused' \subseteq Symbols \X Minutes
  <2>1. Backward(w) => Unasked(w) \subseteq Symbols \X Minutes
    BY <1>2, <1>7 DEF Unasked, Open
  <2> QED  BY <1>3, <1>5, <2>1 DEF Stores
<1>10. Onward  BY <1>3, <1>5, OnwardFrom
<1>11. BatchStaged(v)'  BY <1>6 DEF BatchStaged
<1>12. JobInv(v)'  BY <1>6, <1>10, <1>11, JobKept
<1>13. Minutes' = Minutes /\ \A sym : Times(sym)' = Times(sym)
  BY <1>5 DEF Minutes, Times, Of
<1>14. Leaves(j, v)
  <2> SUFFICES ASSUME NEW sym \in Symbols, NEW t \in Asked(w, sym) PROVE t \in Known(sym)'
    BY <1>1 DEF Leaves
  <2>1. Backward(w) /\ w.sym = sym /\ t \in Open(w)  BY DEF Asked
  <2> QED  BY <1>5, <1>7, <1>8, <1>13, <2>1 DEF Known
<1>15. Joins(v)
  <2>1. ASSUME NEW sym \in Symbols, NEW t \in Known(sym)' \union Asked(v, sym)
        PROVE  t \in Covered(sym)
    <3>1. t \in Known(sym)'
      <4>1. Asked(v, sym) = {}  BY <1>6, NotBackward DEF Working
      <4> QED  BY <2>1, <4>1
    <3>2. CASE t \in Known(sym)  BY <3>2, CoveredIs
    <3>3. CASE t \notin Known(sym)
      <4>1. Backward(w) /\ <<sym, t>> \in Unasked(w)  BY <1>5, <1>13, <3>1, <3>3 DEF Known
      <4>2. t \in Asked(w, sym)  BY <1>8, <4>1 DEF Asked
      <4> QED  BY <1>1, <4>2, CoveredIs
    <3> QED  BY <3>2, <3>3
  <2> QED  BY <2>1 DEF Joins, Joined
<1>16. job[j].pc # "merge"  BY <1>1, <1>2
<1> QED  BY <1>5, <1>9, <1>12, <1>14, <1>15, <1>16, TablesKept

-----------------------------------------------------------------------------
(* The staging table.                                                      *)

(* The minutes of a batch: those of a backward job are covered, those of a *)
(* forward job join a known minute.                                        *)
LEMMA BatchCovered ==
    ASSUME Inductive, NEW k \in Jobs, NEW row \in job[k].batch
    PROVE  /\ row \in Rows /\ row.sym = job[k].sym /\ row.sym \in Symbols
           /\ \/ row.ts \in Covered(row.sym)
              \/ \E y \in Covered(row.sym) : \A b \in Even : Between(y, b, row.ts) =>
                     b = y \/ \E r \in job[k].batch : r.ts = b
<1>1. PICK w : w = job[k]  OBVIOUS
<1>2. JobInv(w)  BY <1>1 DEF Inductive
<1>3. Stores /\ minute \in Int /\ Now \in Int /\ First \in Int
  BY CandleAssumption DEF Inductive, Stores, Now, Minute, First
<1>4. row \in w.batch /\ row \in Rows /\ row.sym = w.sym /\ row.sym \in Symbols /\ row.ts \in Minutes
      /\ w.cursor \in Int
  BY <1>1, <1>2 DEF JobInv, JobShape, Rows
<1>5. row.ts \in Even /\ row.ts \in Int /\ First <= row.ts  BY <1>3, <1>4, MinutesIs, EvenIs
<1>6. w.pc \in {"clear", "append", "merge"}
  BY <1>2, <1>4 DEF JobInv, JobShape
<1>7. w.pc \in Working  BY <1>6 DEF Working
<1>8. CASE ~ Forward(w)
  <2>1. Backward(w)  BY <1>7, <1>8 DEF Backward
  <2>2. w.start = First /\ row.ts <= w.cursor  BY <1>2, <1>4, <2>1 DEF JobInv, BackwardJob
  <2>3. row.ts \in Open(w)  BY <1>3, <1>4, <1>5, <2>2, OpenIs
  <2>4. row.ts \in Asked(w, row.sym)  BY <1>4, <2>1, <2>3 DEF Asked
  <2>5. row.ts \in Covered(row.sym)  BY <1>1, <2>4, CoveredIs
  <2> QED  BY <1>1, <1>4, <2>5
<1>9. CASE Forward(w)
  <2>1. /\ w.cursor - Minute \in Known(w.sym) /\ w.cursor <= row.ts
        /\ \A t \in Even : w.cursor <= t /\ t <= row.ts => \E r \in w.batch : r.ts = t
    BY <1>2, <1>4, <1>7, <1>9 DEF JobInv, ForwardJob
  <2>2. PICK y : y = w.cursor - Minute  OBVIOUS
  <2>3. y \in Covered(row.sym) /\ y \in Even
    BY <1>3, <1>4, <2>1, <2>2, CoveredIs, KnownMinutes, MinutesIs
  <2>4. ASSUME NEW b \in Even, Between(y, b, row.ts)
        PROVE  b = y \/ \E r \in w.batch : r.ts = b
    <3>1. b \in Int /\ y \in Int /\ b % 2 = 0 /\ y % 2 = 0  BY <2>3, EvenIs DEF Minute
    <3>2. y <= b /\ b <= row.ts  BY <1>4, <1>5, <2>1, <2>2, <2>4, <3>1 DEF Between, Minute
    <3>3. b = y \/ y + 2 <= b  BY <3>1, <3>2
    <3>4. y + 2 <= b => w.cursor <= b  BY <1>4, <2>2, <3>1 DEF Minute
    <3> QED  BY <2>1, <3>2, <3>3, <3>4
  <2> QED  BY <1>1, <1>4, <2>3, <2>4
<1> QED  BY <1>8, <1>9

LEMMA NextPlace ==
    ASSUME NEW w, JobShape(w), EndsKnown(w), ForwardJob(w), BackwardJob(w),
           w.pc \in {"clear", "append"}, NEW pc \in {"append", "merge"},
           NEW v, v = [w EXCEPT !.pc = pc]
    PROVE  /\ JobShape(v) /\ EndsKnown(v) /\ ForwardJob(v) /\ BackwardJob(v)
           /\ v.pc = pc /\ v.batch = w.batch /\ \A sym : Asked(v, sym) = Asked(w, sym)
<1>1. DOMAIN w = DOMAIN Idle  BY DEF JobShape
<1>2. /\ DOMAIN v = DOMAIN Idle /\ v.pc = pc /\ v.phase = w.phase /\ v.cursor = w.cursor
      /\ v.end = w.end /\ v.rest = w.rest /\ v.sym = w.sym /\ v.kind = w.kind /\ v.first = w.first
      /\ v.last = w.last /\ v.start = w.start /\ v.batch = w.batch
  BY <1>1 DEF Idle
<1>3. w.pc \in Working /\ v.pc \in Working /\ w.pc # "idle" /\ v.pc # "idle"
  BY <1>2 DEF Working
<1>4. JobShape(v)
  <2>1. /\ w.sym \in Symbols /\ w.batch \subseteq Rows /\ w.batch # {}
        /\ \A row \in w.batch : row.sym = w.sym
        /\ w.rest \subseteq Symbols /\ w.cursor \in Int /\ w.start \in Int /\ w.end \in Int
        /\ w.first \in Int /\ w.last \in Int
    BY <1>3 DEF JobShape
  <2>2. \/ w.kind = "ingest" /\ w.phase = "recent"
        \/ w.kind = "update" /\ w.phase \in {"forward", "backfill"}
    BY <1>3 DEF JobShape
  <2>3. v.pc \notin {"idle", "read", "check"} /\ v.pc \in {"clear", "append", "merge"}
    BY <1>2
  <2> QED  BY <1>2, <1>3, <2>1, <2>2, <2>3 DEF JobShape
<1>5. Forward(v) = Forward(w) /\ Backward(v) = Backward(w) /\ Open(v) = Open(w)
  BY <1>2, <1>3 DEF Forward, Backward, Open
<1>6. EndsKnown(v)  BY <1>2, <1>3 DEF EndsKnown
<1>7. ForwardJob(v)  BY <1>2, <1>3, <1>5 DEF ForwardJob
<1>8. BackwardJob(v)  BY <1>2, <1>5 DEF BackwardJob
<1>9. \A sym : Asked(v, sym) = Asked(w, sym)  BY <1>2, <1>5 DEF Asked
<1> QED  BY <1>2, <1>4, <1>6, <1>7, <1>8, <1>9

LEMMA ClearStep ==
    ASSUME Inductive, NEW j \in Jobs, Clear(j)
    PROVE  Inductive'
<1>1. PICK w : w = job[j]  OBVIOUS
<1>2. JobInv(w) /\ w.pc = "clear"  BY <1>1 DEF Inductive, Clear
<1>3. Stores /\ minute \in Int  BY DEF Inductive, Stores
<1>4. PICK v : v = [w EXCEPT !.pc = "append"]  OBVIOUS
<1>5. /\ job' = [job EXCEPT ![j] = v] /\ UNCHANGED <<minute, candles, cache>>
      /\ staging' = {} /\ excused' = excused \union UNION {Staged(k) : k \in Jobs \ {j}}
  BY <1>1, <1>4 DEF Clear, Set
<1>6. /\ JobShape(v) /\ EndsKnown(v) /\ ForwardJob(v) /\ BackwardJob(v)
      /\ v.pc = "append" /\ \A sym : Asked(v, sym) = Asked(w, sym)
  BY <1>2, <1>4, NextPlace DEF JobInv
<1>7. \A sym, t : <<sym, t>> \in excused' =>
          \/ <<sym, t>> \in excused
          \/ \E k \in Jobs \ {j} : job[k].pc = "merge" /\ \E row \in job[k].batch :
                 row.sym = sym /\ row.ts = t
  <2>1. ASSUME NEW sym, NEW t, NEW k \in Jobs \ {j}, <<sym, t>> \in Staged(k)
        PROVE  job[k].pc = "merge" /\ \E row \in job[k].batch : row.sym = sym /\ row.ts = t
    BY <2>1 DEF Staged, Keys, Key
  <2> SUFFICES ASSUME NEW sym, NEW t, <<sym, t>> \in excused', <<sym, t>> \notin excused
               PROVE  \E k \in Jobs \ {j} : job[k].pc = "merge" /\ \E row \in job[k].batch :
                          row.sym = sym /\ row.ts = t
    OBVIOUS
  <2>2. PICK k \in Jobs \ {j} : <<sym, t>> \in Staged(k)  BY <1>5
  <2> QED  BY <2>1, <2>2
<1>8. \A k \in Jobs \ {j} : job[k].pc = "merge" => Keys(job[k].batch) \subseteq excused'
  BY <1>5 DEF Staged
<1>9. Minutes' = Minutes /\ Rows' = Rows /\ \A sym : Times(sym)' = Times(sym)
  BY <1>5 DEF Minutes, Rows, Times, Of
<1>10. excused' \subseteq Symbols \X Minutes
  <2> SUFFICES ASSUME NEW e \in excused', e \notin excused PROVE e \in Symbols \X Minutes
    BY <1>3 DEF Stores
  <2>1. PICK k \in Jobs : e \in Staged(k)  BY <1>5
  <2>2. PICK row \in job[k].batch : e = <<row.sym, row.ts>>  BY <2>1 DEF Staged, Keys, Key
  <2>3. row \in Rows  BY <2>2, BatchCovered
  <2> QED  BY <2>2, <2>3 DEF Rows
<1>11. Stores'
  <2>1. \A r, s \in candles' : Key(r) = Key(s) => r = s  BY <1>3, <1>5 DEF Stores
  <2> QED  BY <1>3, <1>5, <1>9, <1>10, <2>1 DEF Stores
<1>12. Onward  BY <1>3, <1>5, OnwardFrom
<1>13. BatchStaged(v)'  BY <1>6 DEF BatchStaged
<1>14. JobInv(v)'  BY <1>6, <1>12, <1>13, JobMoved
<1>15. DOMAIN job = Jobs  BY DEF Inductive
<1>16. \A k \in Jobs \ {j} : BatchStaged(job[k])'
  <2> SUFFICES ASSUME NEW k \in Jobs \ {j} PROVE BatchStaged(job[k])'  OBVIOUS
  <2>1. job'[k] = job[k]  BY <1>5, <1>15
  <2> QED  BY <1>8, <2>1 DEF BatchStaged
<1>17. StagedKnown'  BY <1>5 DEF StagedKnown
<1>18. CachedStored'  BY <1>5 DEF Inductive, CachedStored
<1>19. Leaves(j, v)  BY <1>1, <1>6 DEF Leaves
<1>20. Joins(v)
  <2>1. ASSUME NEW sym \in Symbols, NEW t \in Known(sym)' \union Asked(v, sym)
        PROVE  Joined(v, sym, t)
    <3>1. CASE t \in Asked(v, sym) \/ t \in Known(sym)
      <4>1. t \in Covered(sym)  BY <1>1, <1>6, <3>1, CoveredIs
      <4> QED  BY <4>1 DEF Joined
    <3>2. CASE t \in Known(sym)' /\ t \notin Known(sym)
      <4>1. <<sym, t>> \in excused' /\ <<sym, t>> \notin excused
        BY <1>9, <3>2 DEF Known
      <4>2. PICK k \in Jobs \ {j} : job[k].pc = "merge" /\ \E row \in job[k].batch :
                 row.sym = sym /\ row.ts = t
        BY <1>7, <4>1
      <4>3. PICK row \in job[k].batch : row.sym = sym /\ row.ts = t  BY <4>2
      <4>4. CASE t \in Covered(sym)  BY <4>4 DEF Joined
      <4>5. CASE \E y \in Covered(sym) : \A b \in Even : Between(y, b, t) =>
                     b = y \/ \E r \in job[k].batch : r.ts = b
        <5>1. \A r \in job[k].batch : r.ts \in Known(sym)'
          <6> TAKE r \in job[k].batch
          <6>1. r.sym = sym /\ r.ts \in Minutes  BY <4>3, BatchCovered DEF Rows
          <6>2. <<r.sym, r.ts>> \in excused'  BY <1>8, <4>2 DEF Keys, Key
          <6> QED  BY <1>9, <6>1, <6>2 DEF Known
        <5> QED  BY <4>5, <5>1 DEF Joined
      <4> QED  BY <4>3, <4>4, <4>5, BatchCovered
    <3> QED  BY <2>1, <3>1, <3>2
  <2> QED  BY <2>1 DEF Joins
<1> QED  BY <1>5, <1>11, <1>12, <1>14, <1>16, <1>17, <1>18, <1>19, <1>20, OneJob

LEMMA AppendStep ==
    ASSUME Inductive, NEW j \in Jobs, Append2Staging(j)
    PROVE  Inductive'
<1>1. PICK w : w = job[j]  OBVIOUS
<1>2. JobInv(w) /\ w.pc = "append" /\ DOMAIN w = DOMAIN Idle
  BY <1>1 DEF Inductive, Append2Staging, JobInv, JobShape
<1>3. Stores /\ minute \in Int  BY DEF Inductive, Stores
<1>4. PICK v : v = [w EXCEPT !.pc = "merge"]  OBVIOUS
<1>5. /\ job' = [job EXCEPT ![j] = v] /\ UNCHANGED <<minute, candles, cache, excused>>
      /\ staging' = staging \union w.batch
  BY <1>1, <1>4 DEF Append2Staging, Set
<1>6. /\ JobShape(v) /\ EndsKnown(v) /\ ForwardJob(v) /\ BackwardJob(v)
      /\ v.pc = "merge" /\ v.batch = w.batch /\ \A sym : Asked(v, sym) = Asked(w, sym)
  BY <1>2, <1>4, NextPlace DEF JobInv
<1>7. Minutes' = Minutes /\ Rows' = Rows /\ \A sym : Known(sym)' = Known(sym)
  BY <1>5 DEF Minutes, Rows, Known, Times, Of
<1>8. w.batch \subseteq Rows  BY <1>2 DEF JobInv, JobShape
<1>9. Stores'
  <2>1. \A r, s \in candles' : Key(r) = Key(s) => r = s  BY <1>3, <1>5 DEF Stores
  <2> QED  BY <1>3, <1>5, <1>7, <1>8, <2>1 DEF Stores
<1>10. Onward  BY <1>3, <1>5, OnwardFrom
<1>11. BatchStaged(v)'
  <2>1. Keys(v.batch) \subseteq Keys(staging')  BY <1>5, <1>6 DEF Keys
  <2> QED  BY <2>1 DEF BatchStaged
<1>12. JobInv(v)'  BY <1>6, <1>10, <1>11, JobMoved
<1>13. DOMAIN job = Jobs  BY DEF Inductive
<1>14. \A k \in Jobs \ {j} : BatchStaged(job[k])'
  <2> SUFFICES ASSUME NEW k \in Jobs \ {j} PROVE BatchStaged(job[k])'  OBVIOUS
  <2>1. job'[k] = job[k] /\ BatchStaged(job[k])  BY <1>5, <1>13 DEF Inductive, JobInv
  <2>2. Keys(staging) \subseteq Keys(staging')  BY <1>5 DEF Keys
  <2> QED  BY <1>5, <2>1, <2>2 DEF BatchStaged
<1>15. StagedKnown'
  <2> SUFFICES ASSUME NEW row \in staging'
               PROVE  \/ row.ts \in Known(row.sym)'
                      \/ \E k \in Jobs : job'[k].pc = "merge" /\ Key(row) \in Keys(job'[k].batch)
    BY DEF StagedKnown
  <2>1. CASE row \in w.batch
    <3>1. job'[j] = v  BY <1>5, <1>13
    <3>2. Key(row) \in Keys(v.batch)  BY <1>6, <2>1 DEF Keys
    <3> QED  BY <1>6, <3>1, <3>2
  <2>2. CASE row \in staging
    <3>1. CASE row.ts \in Known(row.sym)  BY <1>7, <3>1
    <3>2. CASE \E k \in Jobs : job[k].pc = "merge" /\ Key(row) \in Keys(job[k].batch)
      <4>1. PICK k \in Jobs : job[k].pc = "merge" /\ Key(row) \in Keys(job[k].batch)  BY <3>2
      <4>2. k # j  BY <1>1, <1>2, <4>1
      <4>3. job'[k] = job[k]  BY <1>5, <1>13, <4>2
      <4> QED  BY <4>1, <4>3
    <3> QED  BY <2>2, <3>1, <3>2 DEF Inductive, StagedKnown
  <2> QED  BY <1>5, <2>1, <2>2
<1>16. CachedStored'  BY <1>5 DEF Inductive, CachedStored
<1>17. Leaves(j, v)  BY <1>1, <1>6 DEF Leaves
<1>18. Joins(v)
  <2>1. ASSUME NEW sym \in Symbols, NEW t \in Known(sym)' \union Asked(v, sym)
        PROVE  t \in Covered(sym)
    BY <1>1, <1>6, <1>7, <2>1, CoveredIs
  <2> QED  BY <2>1 DEF Joins, Joined
<1> QED  BY <1>5, <1>9, <1>10, <1>12, <1>14, <1>15, <1>16, <1>17, <1>18, OneJob

-----------------------------------------------------------------------------
(* Merging.                                                                *)
LEMMA MergedRows ==
    ASSUME Stores, candles' \in Merged(staging)
    PROVE  /\ candles \subseteq candles' /\ candles' \subseteq candles \union staging
           /\ \A row \in staging : \E r \in candles' : Key(r) = Key(row)
           /\ \A r, s \in candles' : Key(r) = Key(s) => r = s
<1> DEFINE new == {row \in staging : Key(row) \notin Keys(candles)}
<1>1. PICK s \in SUBSET new : /\ candles' = candles \union s /\ Keys(s) = Keys(new)
                              /\ \A r, t \in s : Key(r) = Key(t) => r = t
  BY DEF Merged
<1>2. candles \subseteq candles' /\ candles' \subseteq candles \union staging  BY <1>1
<1>3. ASSUME NEW row \in staging PROVE \E r \in candles' : Key(r) = Key(row)
  <2>1. CASE Key(row) \in Keys(candles)
    <3>1. PICK r \in candles : Key(r) = Key(row)  BY <2>1 DEF Keys
    <3> QED  BY <1>2, <3>1
  <2>2. CASE Key(row) \notin Keys(candles)
    <3>1. Key(row) \in Keys(s)  BY <1>1, <2>2 DEF Keys
    <3>2. PICK r \in s : Key(r) = Key(row)  BY <3>1 DEF Keys
    <3> QED  BY <1>1, <3>2
  <2> QED  BY <2>1, <2>2
<1>4. ASSUME NEW r \in candles', NEW t \in candles', Key(r) = Key(t) PROVE r = t
  <2>1. \A x \in s : Key(x) \notin Keys(candles)  OBVIOUS
  <2>2. \A x \in candles : Key(x) \in Keys(candles)  BY DEF Keys
  <2>3. (r \in candles /\ t \in candles) \/ (r \in s /\ t \in s)  BY <1>1, <1>4, <2>1, <2>2
  <2> QED  BY <1>1, <1>4, <2>3 DEF Stores
<1> QED  BY <1>2, <1>3, <1>4

(* All that has been staged is known after the merge, and nothing that was *)
(* stored is lost.                                                         *)
MergeKeeps(j) ==
    /\ Stores' /\ Onward /\ CachedStored' /\ StagedKnown'
    /\ \A k \in Jobs : job[k].pc = "merge" =>
           \A row \in job[k].batch : row.ts \in Known(row.sym)'
    /\ \A sym : \A t \in Known(sym)' \ Known(sym) : \E row \in staging : row.sym = sym /\ row.ts = t

LEMMA MergeTables ==
    ASSUME Inductive, NEW j \in Jobs, Merge(j)
    PROVE  MergeKeeps(j)
<1>1. Stores /\ minute \in Int  BY DEF Inductive, Stores
<1>2. UNCHANGED <<minute, staging, cache, excused>> /\ candles' \in Merged(staging)  BY DEF Merge
<1>3. /\ candles \subseteq candles' /\ candles' \subseteq candles \union staging
      /\ \A row \in staging : \E r \in candles' : Key(r) = Key(row)
      /\ \A r, s \in candles' : Key(r) = Key(s) => r = s
  BY <1>1, <1>2, MergedRows
<1>4. Minutes' = Minutes /\ Rows' = Rows  BY <1>2 DEF Minutes, Rows
<1>5. Stores'  BY <1>1, <1>2, <1>3, <1>4 DEF Stores
<1>6. Onward  BY <1>1, <1>2, <1>3, OnwardFrom
<1>7. CachedStored'
  <2>1. CachedStored  BY DEF Inductive
  <2>2. \A sym, b : {row \in candles : row.sym = sym /\ BarOf(row.ts) = b}
                       \subseteq {row \in candles' : row.sym = sym /\ BarOf(row.ts) = b}
    BY <1>3
  <2> QED  BY <1>2, <2>1, <2>2 DEF CachedStored
<1>8. \A sym, t : t \in Times(sym)' <=> \E row \in candles' : row.sym = sym /\ row.ts = t
  BY DEF Times, Of
<1>9. ASSUME NEW row \in staging PROVE row.ts \in Known(row.sym)'
  <2>1. PICK r \in candles' : Key(r) = Key(row)  BY <1>3
  <2>2. r.sym = row.sym /\ r.ts = row.ts  BY <2>1 DEF Key
  <2>3. row.ts \in Times(row.sym)'  BY <1>8, <2>1, <2>2
  <2> QED  BY <2>3 DEF Known
<1>10. StagedKnown'  BY <1>2, <1>9 DEF StagedKnown
<1>11. ASSUME NEW k \in Jobs, job[k].pc = "merge", NEW row \in job[k].batch
       PROVE  row.ts \in Known(row.sym)'
  <2>1. Keys(job[k].batch) \subseteq Keys(staging) \union excused
    BY <1>11 DEF Inductive, JobInv, BatchStaged
  <2>2. <<row.sym, row.ts>> \in Keys(staging) \union excused  BY <1>11, <2>1 DEF Keys, Key
  <2>3. CASE <<row.sym, row.ts>> \in Keys(staging)
    <3>1. PICK s \in staging : s.sym = row.sym /\ s.ts = row.ts  BY <2>3, KeyIs
    <3> QED  BY <1>9, <3>1
  <2>4. CASE <<row.sym, row.ts>> \in excused
    <3>1. row.ts \in Minutes  BY <1>11, BatchCovered DEF Rows
    <3> QED  BY <1>2, <1>4, <2>4, <3>1 DEF Known
  <2> QED  BY <2>2, <2>3, <2>4
<1>12. ASSUME NEW sym, NEW t \in Known(sym)' \ Known(sym)
       PROVE  \E row \in staging : row.sym = sym /\ row.ts = t
  <2>1. t \in Times(sym)' /\ t \notin Times(sym)  BY <1>2, <1>4 DEF Known
  <2>2. PICK row \in candles' : row.sym = sym /\ row.ts = t  BY <1>8, <2>1
  <2>3. row \notin candles  BY <2>1, <2>2, TimesAre
  <2> QED  BY <1>3, <2>2, <2>3
<1> QED  BY <1>5, <1>6, <1>7, <1>10, <1>11, <1>12 DEF MergeKeeps

(* Nothing that the merge stores lies behind a gap.                        *)
LEMMA MergeJoins ==
    ASSUME Inductive, NEW j \in Jobs, Merge(j), NEW v, NEW sym \in Symbols, NEW t \in Known(sym)'
    PROVE  Joined(v, sym, t)
<1>1. MergeKeeps(j)  BY MergeTables
<1>2. CASE t \in Known(sym)  BY <1>2, CoveredIs DEF Joined
<1>3. CASE t \notin Known(sym)
  <2>1. PICK row \in staging : row.sym = sym /\ row.ts = t  BY <1>1, <1>3 DEF MergeKeeps
  <2>2. PICK k \in Jobs : job[k].pc = "merge" /\ Key(row) \in Keys(job[k].batch)
    BY <1>3, <2>1 DEF Inductive, StagedKnown
  <2>3. PICK s \in job[k].batch : s.sym = sym /\ s.ts = t
    BY <2>1, <2>2 DEF Keys, Key
  <2>4. \A r \in job[k].batch : r.sym = sym /\ r.ts \in Known(sym)'
    <3>1. \A r \in job[k].batch : r.sym = job[k].sym /\ r.ts \in Known(r.sym)'
      BY <1>1, <2>2, BatchCovered DEF MergeKeeps
    <3> QED  BY <2>3, <3>1
  <2>5. CASE t \in Covered(sym)  BY <2>5 DEF Joined
  <2>6. CASE \E y \in Covered(sym) : \A b \in Even : Between(y, b, t) =>
                 b = y \/ \E r \in job[k].batch : r.ts = b
    BY <2>4, <2>6 DEF Joined
  <2> QED  BY <2>3, <2>5, <2>6, BatchCovered
<1> QED  BY <1>2, <1>3

LEMMA BatchEnds ==
    ASSUME minute \in Int, NEW batch, batch \subseteq Rows, batch # {},
           NEW T, T = {row.ts : row \in batch}
    PROVE  /\ Min(T) \in Even /\ \E row \in batch : row.ts = Min(T)
           /\ Max(T) \in Even /\ \E row \in batch : row.ts = Max(T)
           /\ \A row \in batch : Min(T) <= row.ts
<1>1. T \subseteq Minutes /\ T # {}  BY DEF Rows
<1>2. PICK a \in Int, b \in Int : a = First /\ b = Now
  BY CandleAssumption DEF First, Now, Minute
<1>3. T \in SUBSET (a..b)
  <2>1. \A t \in T : t \in Int /\ a <= t /\ t <= b  BY <1>1, <1>2, MinutesIs, EvenIs
  <2> QED  BY <1>2, <2>1
<1>4. Min(T) \in T /\ \A x \in T : Min(T) <= x  BY <1>1, <1>3, Least
<1>5. Max(T) \in T  BY <1>1, <1>3, Greatest
<1>6. \A t \in T : t \in Even  BY <1>1, MinutesIs
<1> QED  BY <1>4, <1>5, <1>6

LEMMA MergeTo ==
    ASSUME Inductive, NEW j \in Jobs, Merge(j), NEW v, job' = [job EXCEPT ![j] = v],
           JobInv(v)', Leaves(j, v),
           \A sym \in Symbols : \A t \in Asked(v, sym) : Joined(v, sym, t)
    PROVE  Inductive'
<1>1. MergeKeeps(j)  BY MergeTables
<1>2. Joins(v)  BY MergeJoins DEF Joins
<1>3. DOMAIN job = Jobs  BY DEF Inductive
<1>4. UNCHANGED <<minute, staging, excused>>  BY DEF Merge
<1>5. \A k \in Jobs \ {j} : BatchStaged(job[k])'
  <2> SUFFICES ASSUME NEW k \in Jobs \ {j} PROVE BatchStaged(job[k])'  OBVIOUS
  <2>1. job'[k] = job[k] /\ BatchStaged(job[k])  BY <1>3 DEF Inductive, JobInv
  <2> QED  BY <1>4, <2>1 DEF BatchStaged
<1> QED  BY <1>1, <1>2, <1>4, <1>5, OneJob DEF MergeKeeps

LEMMA MergeForward ==
    ASSUME Inductive, NEW j \in Jobs, NEW w, w = job[j], Forward(w), Merge(j)
    PROVE  Inductive'
<1>1. JobInv(w) /\ w.pc = "merge" /\ DOMAIN w = DOMAIN Idle
  BY DEF Inductive, Merge, JobInv, JobShape
<1>2. Stores /\ minute \in Int  BY DEF Inductive, Stores
<1>3. /\ w.phase = "forward" /\ w.kind = "update" /\ w.sym \in Symbols /\ w.rest \in SUBSET Symbols
      /\ w.batch # {} /\ w.batch \subseteq Rows
      /\ w.start \in Int /\ w.end \in Int /\ w.first \in Int /\ w.last \in Int
  BY <1>1 DEF JobInv, JobShape, Forward, Working
<1>4. PICK T : T = {row.ts : row \in w.batch}  OBVIOUS
<1>5. PICK m : m = Max(T)  OBVIOUS
<1>6. m \in Int /\ \E row \in w.batch : row.ts = m
  BY <1>2, <1>3, <1>4, <1>5, BatchEnds, EvenIs
<1>7. PICK u : u = [w EXCEPT !.cursor = m + Minute]  OBVIOUS
<1>8. PICK v : v = Continued(u)  OBVIOUS
<1>9. job' = [job EXCEPT ![j] = v]
  <2>1. Moved(w) = u  BY <1>4, <1>5, <1>7 DEF Moved
  <2> QED  BY <1>8, <2>1 DEF Merge, Set
<1>10. /\ DOMAIN u = DOMAIN Idle /\ u.pc = "merge" /\ u.phase = "forward" /\ u.cursor = m + 2
       /\ u.end = w.end /\ u.rest = w.rest /\ u.sym = w.sym /\ u.kind = w.kind /\ u.first = w.first
       /\ u.last = w.last /\ u.start = w.start
  BY <1>1, <1>3, <1>7 DEF Idle, Minute
<1>11. MergeKeeps(j)  BY MergeTables
<1>12. Leaves(j, v)  BY DEF Leaves, Asked, Backward
<1>13. EndsKnown(w)  BY <1>1 DEF JobInv
<1>14. CASE u.cursor < u.end
  <2>1. v = [u EXCEPT !.pc = "fetch", !.batch = {}]  BY <1>8, <1>10, <1>14 DEF Continued, Forward
  <2>2. /\ DOMAIN v = DOMAIN Idle /\ v.pc = "fetch" /\ v.phase = "forward" /\ v.cursor = m + 2
        /\ v.end = w.end /\ v.rest = w.rest /\ v.sym = w.sym /\ v.kind = w.kind /\ v.first = w.first
        /\ v.last = w.last /\ v.start = w.start /\ v.batch = {}
    BY <1>10, <2>1 DEF Idle
  <2>3. JobShape(v)
    <3>1. v.cursor \in Int  BY <1>6, <2>2
    <3> QED  BY <1>3, <2>2, <3>1 DEF JobShape, Working
  <2>4. EndsKnown(v)'
    <3>1. EndsKnown(v)  BY <1>1, <1>13, <2>2 DEF EndsKnown
    <3> QED  BY <1>11, <2>2, <1>3, <3>1 DEF EndsKnown, MergeKeeps, Onward
  <2>5. ForwardJob(v)'
    <3>1. v.cursor - Minute = m  BY <1>6, <2>2 DEF Minute
    <3>2. PICK row \in w.batch : row.ts = m  BY <1>6
    <3>3. row.sym = w.sym  BY <1>1 DEF JobInv, JobShape
    <3>4. m \in Known(w.sym)'  BY <1>1, <1>11, <3>2, <3>3 DEF MergeKeeps
    <3> QED  BY <2>2, <3>1, <3>4 DEF ForwardJob
  <2>6. ~ Backward(v)  BY <2>2 DEF Backward, Forward
  <2>7. BackwardJob(v)' /\ BatchStaged(v)'
    BY <2>2, <2>6 DEF BackwardJob, BatchStaged
  <2>8. JobShape(v)'
    <3>1. Symbols' = Symbols  OBVIOUS
    <3> QED  BY <2>2, <2>3 DEF JobShape, Working
  <2>9. JobInv(v)'  BY <2>4, <2>5, <2>7, <2>8 DEF JobInv
  <2>10. \A sym : Asked(v, sym) = {}  BY <2>6 DEF Asked
  <2> QED  BY <1>9, <1>12, <2>9, <2>10, MergeTo
<1>15. CASE ~ (u.cursor < u.end)
  <2>1. PICK x : x = [u EXCEPT !.batch = {}]  OBVIOUS
  <2>2. v = Backfill(x)  BY <1>8, <1>10, <1>15, <2>1 DEF Continued, Forward
  <2>3. /\ DOMAIN x = DOMAIN Idle /\ x.pc = "merge" /\ x.cursor = m + 2
        /\ x.end = w.end /\ x.rest = w.rest /\ x.sym = w.sym /\ x.first = w.first
        /\ x.last = w.last /\ x.start = w.start /\ x.batch = {}
    BY <1>10, <2>1 DEF Idle
  <2>4. EndsKnown(x)  BY <1>1, <1>13, <2>3 DEF EndsKnown
  <2>5. Workable(x)
    <3>1. x.cursor \in Int  BY <1>6, <2>3
    <3> QED  BY <1>3, <2>3, <2>4, <3>1 DEF Workable
  <2>6. JobInv(v) /\ Asks(v) /\ Attached(v)  BY <1>2, <2>2, <2>5, BackfillAs
  <2>7. BatchStaged(v)'  BY <2>6 DEF BatchStaged, Asks
  <2>8. JobInv(v)'  BY <1>11, <2>6, <2>7, JobKept DEF MergeKeeps
  <2>9. \A sym \in Symbols : \A t \in Asked(v, sym) : Joined(v, sym, t)
    BY <2>6, CoveredIs DEF Attached, Joined
  <2> QED  BY <1>9, <1>12, <2>8, <2>9, MergeTo
<1> QED  BY <1>14, <1>15

LEMMA MergeBackward ==
    ASSUME Inductive, NEW j \in Jobs, NEW w, w = job[j], ~ Forward(w), Merge(j)
    PROVE  Inductive'
<1>1. JobInv(w) /\ w.pc = "merge" /\ DOMAIN w = DOMAIN Idle
  BY DEF Inductive, Merge, JobInv, JobShape
<1>2. Stores /\ minute \in Int /\ First \in Int /\ Now \in Int
  BY CandleAssumption DEF Inductive, Stores, First, Now, Minute
<1>3. /\ w.sym \in Symbols /\ w.rest \in SUBSET Symbols
      /\ w.batch # {} /\ w.batch \subseteq Rows /\ \A row \in w.batch : row.sym = w.sym
      /\ w.end \in Int /\ w.first \in Int /\ w.last \in Int /\ w.cursor \in Int
      /\ \/ w.kind = "ingest" /\ w.phase = "recent"
         \/ w.kind = "update" /\ w.phase = "backfill"
  <2>1. \/ w.kind = "ingest" /\ w.phase = "recent"
        \/ w.kind = "update" /\ w.phase = "backfill"
    BY <1>1 DEF JobInv, JobShape, Forward, Working
  <2> QED  BY <1>1, <2>1 DEF JobInv, JobShape
<1>4. Backward(w)  BY <1>1 DEF Backward, Working
<1>5. /\ w.start = First /\ First < w.cursor /\ w.cursor <= Now
      /\ \A row \in w.batch : row.ts <= w.cursor
      /\ \A t \in Open(w) : \/ \E r \in w.batch : r.ts = t
                            \/ <<w.sym, t>> \in excused
                            \/ \A row \in w.batch : t < row.ts
  BY <1>1, <1>4 DEF JobInv, BackwardJob
<1>6. PICK T : T = {row.ts : row \in w.batch}  OBVIOUS
<1>7. PICK m : m = Min(T)  OBVIOUS
<1>8. m \in Even /\ m \in Int /\ (\E row \in w.batch : row.ts = m) /\ \A row \in w.batch : m <= row.ts
  <2>1. /\ Min(T) \in Even /\ \E row \in w.batch : row.ts = Min(T)
        /\ \A row \in w.batch : Min(T) <= row.ts
    <3>1. PICK rows : rows = w.batch  OBVIOUS
    <3>2. minute \in Int /\ rows \subseteq Rows /\ rows # {} /\ T = {row.ts : row \in rows}
      BY <1>2, <1>3, <1>6, <3>1
    <3>3. /\ Min(T) \in Even /\ \E row \in rows : row.ts = Min(T)
          /\ \A row \in rows : Min(T) <= row.ts
      BY <3>2, BatchEnds
    <3> QED  BY <3>1, <3>3
  <2>2. /\ m \in Even /\ \E row \in w.batch : row.ts = m
        /\ \A row \in w.batch : m <= row.ts
    BY <1>7, <2>1
  <2>3. m \in Int  BY <2>2, EvenIs
  <2> QED  BY <2>2, <2>3
<1>9. PICK u : u = [w EXCEPT !.cursor = m - Minute]  OBVIOUS
<1>10. PICK v : v = Continued(u)  OBVIOUS
<1>11. job' = [job EXCEPT ![j] = v]
  <2>1. Moved(w) = u  BY <1>6, <1>7, <1>9 DEF Moved
  <2> QED  BY <1>10, <2>1 DEF Merge, Set
<1>12. /\ DOMAIN u = DOMAIN Idle /\ u.pc = "merge" /\ u.phase = w.phase /\ u.cursor = m - 2
       /\ u.end = w.end /\ u.rest = w.rest /\ u.sym = w.sym /\ u.kind = w.kind /\ u.first = w.first
       /\ u.last = w.last /\ u.start = First
  BY <1>1, <1>5, <1>9 DEF Idle, Minute
<1>13. MergeKeeps(j)  BY MergeTables
<1>14. EndsKnown(w)  BY <1>1 DEF JobInv
<1>15. ~ Forward(u)  BY <1>12 DEF Forward
<1>16. \A t \in Open(w) : t \in Known(w.sym)' \/ (t \in Even /\ First <= t /\ t <= m - 2)
  <2> SUFFICES ASSUME NEW t \in Open(w)
               PROVE  t \in Known(w.sym)' \/ (t \in Even /\ First <= t /\ t <= m - 2)
    OBVIOUS
  <2>1. t \in Even /\ First <= t /\ t \in Int  BY <1>2, <1>3, <1>5, OpenIs, EvenIs
  <2>2. CASE \E r \in w.batch : r.ts = t
    BY <1>1, <1>3, <1>13, <2>2 DEF MergeKeeps
  <2>3. CASE <<w.sym, t>> \in excused
    <3>1. t \in Minutes  BY <1>1, <1>2, <1>3, <1>4, OpenMinutes DEF JobInv
    <3>2. t \in Known(w.sym)  BY <2>3, <3>1 DEF Known
    <3> QED  BY <1>3, <1>13, <3>2 DEF MergeKeeps, Onward
  <2>4. CASE \A row \in w.batch : t < row.ts
    <3>1. t < m  BY <1>8, <2>4
    <3>2. t % 2 = 0 /\ m % 2 = 0  BY <1>8, <2>1, EvenIs DEF Minute
    <3>3. t <= m - 2  BY <1>8, <2>1, <3>1, <3>2
    <3> QED  BY <2>1, <3>3
  <2> QED  BY <1>5, <2>2, <2>3, <2>4
<1>17. m <= w.cursor  BY <1>5, <1>8
<1>18. \A sym, t : t \in Asked(w, sym) => sym = w.sym /\ t \in Open(w)  BY DEF Asked
<1>19. CASE u.cursor > u.start
  <2>1. v = [u EXCEPT !.pc = "fetch", !.batch = {}]  BY <1>10, <1>15, <1>19 DEF Continued
  <2>2. /\ DOMAIN v = DOMAIN Idle /\ v.pc = "fetch" /\ v.phase = w.phase /\ v.cursor = m - 2
        /\ v.end = w.end /\ v.rest = w.rest /\ v.sym = w.sym /\ v.kind = w.kind /\ v.first = w.first
        /\ v.last = w.last /\ v.start = First /\ v.batch = {}
    BY <1>12, <2>1 DEF Idle
  <2>3. JobShape(v)'
    <3>1. v.cursor \in Int /\ v.start \in Int  BY <1>2, <1>8, <2>2
    <3> QED  BY <1>3, <2>2, <3>1 DEF JobShape, Working
  <2>4. EndsKnown(v)'
    <3>1. EndsKnown(v)  BY <1>1, <1>14, <2>2 DEF EndsKnown
    <3> QED  BY <1>13, <2>2, <1>3, <3>1 DEF EndsKnown, MergeKeeps, Onward
  <2>5. Backward(v) /\ ~ Forward(v)  BY <1>12, <1>15, <2>2 DEF Backward, Forward, Working
  <2>6. First < m - 2 /\ m - 2 <= Now  BY <1>2, <1>3, <1>5, <1>8, <1>12, <1>17, <1>19
  <2>7. BackwardJob(v)'
    <3>1. Now' = Now  BY DEF Merge, Now
    <3> QED  BY <2>2, <2>6, <3>1 DEF BackwardJob
  <2>8. ForwardJob(v)' /\ BatchStaged(v)'
    BY <2>2, <2>5 DEF ForwardJob, BatchStaged
  <2>9. JobInv(v)'  BY <2>3, <2>4, <2>7, <2>8 DEF JobInv
  <2>10. \A t : t \in Open(v) <=> t \in Even /\ First <= t /\ t <= m - 2
    <3>1. v.cursor \in Int  BY <1>8, <2>2
    <3> QED  BY <1>2, <2>2, <3>1, OpenIs
  <2>11. \A sym, t : t \in Asked(v, sym) <=> sym = w.sym /\ t \in Open(v)
    BY <2>2, <2>5 DEF Asked
  <2>12. Leaves(j, v)  BY <1>16, <1>18, <2>10, <2>11 DEF Leaves
  <2>13. \A sym \in Symbols : \A t \in Asked(v, sym) : Joined(v, sym, t)
    <3> SUFFICES ASSUME NEW sym \in Symbols, NEW t \in Asked(v, sym) PROVE t \in Asked(w, sym)
      BY CoveredIs DEF Joined
    <3>1. sym = w.sym /\ t \in Even /\ First <= t /\ t <= m - 2  BY <2>10, <2>11
    <3>2. t <= w.cursor  BY <1>3, <1>8, <1>17, <3>1, EvenIs
    <3>3. t \in Open(w)  BY <1>2, <1>3, <1>5, <3>1, <3>2, OpenIs
    <3> QED  BY <1>4, <3>1, <3>3 DEF Asked
  <2> QED  BY <1>11, <2>9, <2>12, <2>13, MergeTo
<1>20. CASE ~ (u.cursor > u.start)
  <2>1. PICK x : x = [u EXCEPT !.batch = {}]  OBVIOUS
  <2>2. v = Backfill(x)  BY <1>10, <1>15, <1>20, <2>1 DEF Continued
  <2>3. /\ DOMAIN x = DOMAIN Idle /\ x.pc = "merge" /\ x.cursor = m - 2
        /\ x.end = w.end /\ x.rest = w.rest /\ x.sym = w.sym /\ x.first = w.first
        /\ x.last = w.last /\ x.start = First /\ x.batch = {}
    BY <1>12, <2>1 DEF Idle
  <2>4. EndsKnown(x)  BY <1>1, <1>14, <2>3 DEF EndsKnown
  <2>5. Workable(x)
    <3>1. x.cursor \in Int /\ x.start \in Int  BY <1>2, <1>8, <2>3
    <3> QED  BY <1>3, <2>3, <2>4, <3>1 DEF Workable
  <2>6. JobInv(v) /\ Asks(v) /\ Attached(v)  BY <1>2, <2>2, <2>5, BackfillAs
  <2>7. BatchStaged(v)'  BY <2>6 DEF BatchStaged, Asks
  <2>8. JobInv(v)'  BY <1>13, <2>6, <2>7, JobKept DEF MergeKeeps
  <2>9. \A sym \in Symbols : \A t \in Asked(v, sym) : Joined(v, sym, t)
    BY <2>6, CoveredIs DEF Attached, Joined
  <2>10. \A t \in Open(w) : t \in Known(w.sym)' \/ t = First
    <3>1. \A t \in Even : First <= t /\ t <= m - 2 => t = First
      BY <1>2, <1>8, <1>12, <1>20, EvenIs
    <3> QED  BY <1>16, <3>1
  <2>11. Leaves(j, v)  BY <1>18, <2>10 DEF Leaves
  <2> QED  BY <1>11, <2>8, <2>9, <2>11, MergeTo
<1> QED  BY <1>19, <1>20

LEMMA MergeStep ==
    ASSUME Inductive, NEW j \in Jobs, Merge(j)
    PROVE  Inductive'
<1>1. PICK w : w = job[j]  OBVIOUS
<1> QED  BY <1>1, MergeForward, MergeBackward

-----------------------------------------------------------------------------
(* The steps of nobody's job.                                              *)
LEMMA JobsRest ==
    ASSUME Inductive, Stores', Onward, CachedStored', UNCHANGED <<staging, job>>,
           \A sym \in Symbols : Known(sym)' = Known(sym)
    PROVE  Inductive'
<1>1. DOMAIN job' = Jobs  BY DEF Inductive
<1>2. ASSUME NEW w \in {job'[j] : j \in Jobs} PROVE JobInv(w)'
  <2>1. JobInv(w)  BY DEF Inductive
  <2>2. BatchStaged(w)'  BY <2>1, StagedKept DEF JobInv, Onward
  <2> QED  BY <2>1, <2>2, JobKept
<1>3. StagedKnown'
  <2> SUFFICES ASSUME NEW row \in staging
               PROVE  \/ row.ts \in Known(row.sym)'
                      \/ \E j \in Jobs : job[j].pc = "merge" /\ Key(row) \in Keys(job[j].batch)
    BY DEF StagedKnown
  <2>1. row.sym \in Symbols  BY DEF Inductive, Stores, Rows
  <2> QED  BY <2>1 DEF Inductive, StagedKnown
<1>4. NoGap'
  <2>1. ASSUME NEW sym \in Symbols PROVE Contiguous(Covered(sym)')
    <3>1. PICK I : I = Covered(sym)  OBVIOUS
    <3>2. PICK D : D = Covered(sym)'  OBVIOUS
    <3>3. \A t : t \in D <=> t \in Known(sym)' \/ \E k \in Jobs : t \in Asked(job[k], sym)
      BY <3>2 DEF Covered, Asked, Backward, Forward, Working, Open
    <3>4. \A t : t \in D <=> t \in I  BY <3>1, <3>3, CoveredIs
    <3>5. D = I  BY <3>4
    <3>6. Contiguous(I)  BY <3>1 DEF Inductive, NoGap
    <3> QED  BY <3>2, <3>5, <3>6
  <2> QED  BY <2>1 DEF NoGap
<1> QED  BY <1>1, <1>2, <1>3, <1>4 DEF Inductive

LEMMA DeleteStep ==
    ASSUME Inductive, NEW sym \in Symbols, DeleteSymbol(sym)
    PROVE  Inductive'
<1>1. Stores /\ minute \in Int  BY DEF Inductive, Stores
<1>2. /\ candles' = candles \ Of(candles, sym)
      /\ cache' = {[sym |-> c.sym, bars |-> c.bars, deleted |-> c.deleted \/ c.sym = sym] : c \in cache}
      /\ excused' = excused \union Keys(Of(candles, sym)) /\ UNCHANGED <<minute, staging, job>>
  BY DEF DeleteSymbol
<1>3. Minutes' = Minutes /\ Rows' = Rows  BY <1>2 DEF Minutes, Rows
<1>4. \A s, t : <<s, t>> \in excused' => \/ <<s, t>> \in excused
                                         \/ \E row \in candles : row.sym = s /\ row.ts = t
  BY <1>2, KeyIs DEF Of
<1>5. Stores'
  <2>1. Keys(Of(candles, sym)) \subseteq Symbols \X Minutes
    BY <1>1 DEF Keys, Key, Of, Stores, Rows
  <2>2. excused' \subseteq Symbols \X Minutes'  BY <1>1, <1>2, <1>3, <2>1 DEF Stores
  <2>3. \A r, s \in candles' : Key(r) = Key(s) => r = s  BY <1>1, <1>2 DEF Stores
  <2> QED  BY <1>1, <1>2, <1>3, <2>2, <2>3 DEF Stores
<1>6. Onward
  <2>1. \A row \in candles : row \in candles' \/ Key(row) \in excused'  BY <1>2 DEF Keys
  <2> QED  BY <1>1, <1>2, <2>1, OnwardFrom
<1>7. CachedStored'
  <2> SUFFICES ASSUME NEW c \in cache', ~ c.deleted, NEW b \in DOMAIN c.bars
               PROVE  /\ c.bars[b] # {}
                      /\ \A row \in c.bars[b] :
                            row \in candles' /\ row.sym = c.sym /\ BarOf(row.ts) = b
    BY DEF CachedStored
  <2>1. PICK d \in cache :
            c = [sym |-> d.sym, bars |-> d.bars, deleted |-> d.deleted \/ d.sym = sym]
    BY <1>2
  <2>2. c.sym = d.sym /\ c.bars = d.bars /\ ~ d.deleted /\ d.sym # sym  BY <2>1
  <2>3. c.bars[b] # {} /\ \A row \in c.bars[b] :
                               row \in candles /\ row.sym = c.sym /\ BarOf(row.ts) = b
    BY <2>2 DEF Inductive, CachedStored
  <2> QED  BY <1>2, <2>2, <2>3 DEF Of
<1>8. ASSUME NEW s \in Symbols PROVE Known(s)' = Known(s)
  <2>1. \A t : t \in Times(s)' => t \in Times(s)
    <3>1. \A t : t \in Times(s)' => \E row \in candles' : row.sym = s /\ row.ts = t
      BY DEF Times, Of
    <3> QED  BY <1>2, <3>1, TimesAre
  <2>2. \A t : t \in Known(s)' => t \in Known(s)
    BY <1>3, <1>4, <2>1, TimesAre DEF Known
  <2>3. Known(s) \subseteq Known(s)'  BY <1>6 DEF Onward
  <2> QED  BY <2>2, <2>3
<1> QED  BY <1>2, <1>5, <1>6, <1>7, <1>8, JobsRest

LEMMA TickStep ==
    ASSUME Inductive, Tick
    PROVE  Inductive'
<1>1. Stores /\ minute \in Int  BY DEF Inductive, Stores
<1>2. minute' = minute + 1 /\ UNCHANGED <<candles, staging, job, cache, excused>>  BY DEF Tick
<1>3. minute' \in Int /\ minute <= minute'
  <2>1. PICK m \in Int : m = minute  BY <1>1
  <2>2. m + 1 \in Int /\ m <= m + 1  OBVIOUS
  <2> QED  BY <1>2, <2>1, <2>2
<1>4. Minutes \subseteq Minutes' /\ Rows \subseteq Rows'  BY <1>1, <1>3, MinutesOn
<1>5. Stores'
  <2>1. \A r, s \in candles' : Key(r) = Key(s) => r = s  BY <1>1, <1>2 DEF Stores
  <2>2. candles' \subseteq Rows' /\ staging' \subseteq Rows'  BY <1>1, <1>2, <1>4 DEF Stores
  <2>3. excused' \subseteq Symbols \X Minutes'
    <3>1. Symbols \X Minutes \subseteq Symbols \X Minutes'  BY <1>4
    <3> QED  BY <1>1, <1>2, <3>1 DEF Stores
  <2> QED  BY <1>3, <2>1, <2>2, <2>3 DEF Stores
<1>6. Onward
  <2>1. \A row \in candles : row \in candles'  BY <1>2
  <2> QED  BY <1>1, <1>2, <1>3, <2>1, OnwardFrom
<1>7. CachedStored'  BY <1>2 DEF Inductive, CachedStored
<1>8. ASSUME NEW sym \in Symbols PROVE Known(sym)' = Known(sym)
  <2>1. Times(sym)' = Times(sym)  BY <1>2 DEF Times, Of
  <2>2. \A t : <<sym, t>> \in excused => t \in Minutes  BY <1>1 DEF Stores
  <2> QED  BY <1>2, <1>4, <2>1, <2>2 DEF Known
<1> QED  BY <1>2, <1>5, <1>6, <1>7, <1>8, JobsRest

LEMMA RunCachedStep ==
    ASSUME Inductive, NEW sym \in Symbols, RunCached(sym)
    PROVE  Inductive'
<1>1. Stores /\ minute \in Int  BY DEF Inductive, Stores
<1>2. /\ cache' = cache \union {[sym |-> sym, bars |-> LoadCandles(sym), deleted |-> FALSE]}
      /\ UNCHANGED <<minute, candles, staging, job, excused>>
  BY DEF RunCached
<1>3. Minutes' = Minutes /\ Rows' = Rows  BY <1>2 DEF Minutes, Rows
<1>4. Stores'
  <2>1. \A r, s \in candles' : Key(r) = Key(s) => r = s  BY <1>1, <1>2 DEF Stores
  <2> QED  BY <1>1, <1>2, <1>3, <2>1 DEF Stores
<1>5. Onward
  <2>1. \A row \in candles : row \in candles'  BY <1>2
  <2> QED  BY <1>1, <1>2, <2>1, OnwardFrom
<1>6. CachedStored'
  <2> SUFFICES ASSUME NEW c \in cache', ~ c.deleted, NEW b \in DOMAIN c.bars
               PROVE  /\ c.bars[b] # {}
                      /\ \A row \in c.bars[b] :
                            row \in candles' /\ row.sym = c.sym /\ BarOf(row.ts) = b
    BY DEF CachedStored
  <2>1. CASE c \in cache  BY <1>2, <2>1 DEF Inductive, CachedStored
  <2>2. CASE c.sym = sym /\ c.bars = LoadCandles(sym)
    <3>1. PICK ts \in Times(sym) : b = BarOf(ts)  BY <2>2 DEF LoadCandles
    <3>2. PICK row \in candles : row.sym = sym /\ row.ts = ts  BY <3>1, TimesAre
    <3>3. c.bars[b] = {r \in Of(candles, sym) : BarOf(r.ts) = b}  BY <2>2 DEF LoadCandles
    <3>4. row \in c.bars[b]  BY <3>1, <3>2, <3>3 DEF Of
    <3> QED  BY <1>2, <2>2, <3>3, <3>4 DEF Of
  <2> QED  BY <1>2, <2>1, <2>2
<1>7. \A s \in Symbols : Known(s)' = Known(s)  BY <1>2, <1>3 DEF Known, Times, Of
<1> QED  BY <1>2, <1>4, <1>5, <1>6, <1>7, JobsRest

LEMMA CrashStep ==
    ASSUME Inductive, Crash
    PROVE  Inductive'
<1>1. Stores /\ minute \in Int  BY DEF Inductive, Stores
<1>2. \A j \in Jobs : (job[j].pc # "idle" /\ job[j].phase \in {"recent", "backfill"}) <=> Backward(job[j])
  <2> SUFFICES ASSUME NEW j \in Jobs, NEW w, w = job[j]
               PROVE  (w.pc # "idle" /\ w.phase \in {"recent", "backfill"}) <=> Backward(w)
    OBVIOUS
  <2>1. JobShape(w)  BY DEF Inductive, JobInv
  <2>2. CASE w.pc \in Working
    <3>1. w.pc # "idle" /\ w.phase \in {"recent", "forward", "backfill"}
      BY <2>1, <2>2 DEF JobShape, Working
    <3> QED  BY <2>2, <3>1 DEF Backward, Forward
  <2>3. CASE w.pc \notin Working
    <3>1. w.pc = "idle" \/ w.phase = ""  BY <2>1, <2>3 DEF JobShape
    <3> QED  BY <2>3, <3>1 DEF Backward
  <2> QED  BY <2>2, <2>3
<1>3. /\ job' = [j \in Jobs |-> Idle] /\ staging' = {} /\ UNCHANGED <<minute, candles, cache>>
      /\ excused' = excused \union UNION {Unasked(job[j]) : j \in {k \in Jobs : Backward(job[k])}}
  BY <1>2 DEF Crash
<1>4. Minutes' = Minutes /\ Rows' = Rows /\ \A sym : Times(sym)' = Times(sym)
  BY <1>3 DEF Minutes, Rows, Times, Of
<1>5. \A sym, t : <<sym, t>> \in excused' <=>
          <<sym, t>> \in excused \/ \E j \in Jobs : Backward(job[j]) /\ <<sym, t>> \in Unasked(job[j])
  BY <1>3
<1>6. \A sym, t : <<sym, t>> \in excused' <=>
          <<sym, t>> \in excused \/ \E j \in Jobs : t \in Asked(job[j], sym)
  BY <1>5, UnaskedIs DEF Asked
<1>7. \A j \in Jobs, sym \in Symbols : Asked(job[j], sym) \subseteq Minutes
  <2> SUFFICES ASSUME NEW j \in Jobs, NEW sym \in Symbols PROVE Asked(job[j], sym) \subseteq Minutes
    OBVIOUS
  <2>1. PICK w : w = job[j]  OBVIOUS
  <2>2. JobInv(w)  BY <2>1 DEF Inductive
  <2> QED  BY <1>1, <2>1, <2>2, AskedMinutes
<1>8. excused' \subseteq Symbols \X Minutes
  <2> SUFFICES ASSUME NEW j \in Jobs, Backward(job[j]) PROVE Unasked(job[j]) \subseteq Symbols \X Minutes
    BY <1>1, <1>3 DEF Stores
  <2>1. job[j].sym \in Symbols  BY DEF Inductive, JobInv, JobShape, Backward, Working
  <2>2. Open(job[j]) \subseteq Minutes  BY <1>7, <2>1 DEF Asked
  <2> QED  BY <2>1, <2>2 DEF Unasked, Open
<1>9. Stores'
  <2>1. \A r, s \in candles' : Key(r) = Key(s) => r = s  BY <1>1, <1>3 DEF Stores
  <2> QED  BY <1>1, <1>3, <1>4, <1>8, <2>1 DEF Stores
<1>10. JobInv(Idle)'
  <2>1. PICK v : v = Idle  OBVIOUS
  <2>2. PICK w : w = [rest |-> {}]  OBVIOUS
  <2>3. w.rest \in SUBSET Symbols /\ v = Ended(w)  BY <2>1, <2>2 DEF Ended
  <2>4. JobInv(v)  BY <2>3, EndedAs
  <2>5. BatchStaged(v)'  BY <2>1 DEF BatchStaged, Idle
  <2>6. \A row \in candles : row \in candles'  BY <1>3
  <2>7. Onward  BY <1>1, <1>3, <2>6, OnwardFrom
  <2>8. JobInv(v)'  BY <2>4, <2>5, <2>7, JobKept
  <2>9. Idle' = Idle  BY DEF Idle, None
  <2> QED  BY <2>1, <2>8
<1>11. DOMAIN job' = Jobs /\ \A w \in {job'[j] : j \in Jobs} : JobInv(w)'
  <2>1. \A w \in {job'[j] : j \in Jobs} : w = Idle  BY <1>3
  <2> QED  BY <1>3, <1>10, <2>1
<1>12. StagedKnown' /\ CachedStored'  BY <1>3 DEF Inductive, CachedStored, StagedKnown
<1>13. NoGap'
  <2>1. ASSUME NEW sym \in Symbols PROVE Contiguous(Covered(sym)')
    <3>1. PICK I : I = Covered(sym)  OBVIOUS
    <3>2. PICK D : D = Covered(sym)'  OBVIOUS
    <3>3. \A t : t \in D <=> t \in Known(sym)' \/ \E k \in Jobs : t \in Asked(job'[k], sym)
      BY <3>2 DEF Covered, Asked, Backward, Forward, Working, Open
    <3>4. \A k \in Jobs : Asked(job'[k], sym) = {}  BY <1>3 DEF Asked, Backward, Working, Idle
    <3>5. \A t : t \in D <=> t \in Times(sym) \/ (t \in Minutes /\ <<sym, t>> \in excused')
      BY <1>4, <3>3, <3>4 DEF Known
    <3>6. \A t : t \in I <=> \/ t \in Times(sym) \/ (t \in Minutes /\ <<sym, t>> \in excused)
                             \/ \E k \in Jobs : t \in Asked(job[k], sym)
      BY <3>1, CoveredIs DEF Known
    <3>7. \A t : t \in D <=> t \in I  BY <1>6, <1>7, <3>5, <3>6
    <3>8. D = I  BY <3>7
    <3>9. Contiguous(I)  BY <3>1 DEF Inductive, NoGap
    <3> QED  BY <3>2, <3>8, <3>9
  <2> QED  BY <2>1 DEF NoGap
<1> QED  BY <1>9, <1>11, <1>12, <1>13 DEF Inductive

-----------------------------------------------------------------------------
(* The invariant of the store.                                             *)
LEMMA InductiveInit == Init => Inductive
<1> SUFFICES ASSUME Init PROVE Inductive  OBVIOUS
<1>1. minute \in Int /\ minute = LastMinute - 1  BY CandleAssumption DEF Init
<1>2. /\ staging = {} /\ job = [j \in Jobs |-> Idle] /\ cache = {} /\ excused = {}
      /\ \/ candles = {}
         \/ candles = UNION {{[sym |-> sym, ts |-> Minute * m, final |-> TRUE] :
                                 m \in (Earliest + 1)..(minute - 1)} : sym \in Symbols}
  BY DEF Init
<1>3. \A row \in candles :
          \E sym \in Symbols, m \in (Earliest + 1)..(minute - 1) :
              row = [sym |-> sym, ts |-> Minute * m, final |-> TRUE]
  BY <1>2
<1>4. candles \subseteq Rows
  <2> SUFFICES ASSUME NEW sym \in Symbols, NEW m \in (Earliest + 1)..(minute - 1)
               PROVE  [sym |-> sym, ts |-> Minute * m, final |-> TRUE] \in Rows
    BY <1>3
  <2>1. m \in Earliest..minute  BY <1>1, CandleAssumption
  <2>2. Minute * m \in Minutes  BY <2>1 DEF Minutes
  <2> QED  BY <2>2 DEF Rows
<1>5. \A r, s \in candles : Key(r) = Key(s) => r = s
  <2> SUFFICES ASSUME NEW r \in candles, NEW s \in candles, Key(r) = Key(s) PROVE r = s
    OBVIOUS
  <2>1. PICK x \in Symbols, m \in (Earliest + 1)..(minute - 1) :
            r = [sym |-> x, ts |-> Minute * m, final |-> TRUE]
    BY <1>3
  <2>2. PICK y \in Symbols, n \in (Earliest + 1)..(minute - 1) :
            s = [sym |-> y, ts |-> Minute * n, final |-> TRUE]
    BY <1>3
  <2>3. PICK a, b : a = Minute * m /\ b = Minute * n  OBVIOUS
  <2>4. Key(r) = <<x, a>> /\ Key(s) = <<y, b>>  BY <2>1, <2>2, <2>3 DEF Key
  <2>5. <<x, a>> = <<y, b>>  BY <2>4
  <2>6. x = y /\ a = b  BY <2>5
  <2> QED  BY <2>1, <2>2, <2>3, <2>6
<1>6. Stores  BY <1>1, <1>2, <1>4, <1>5 DEF Stores
<1>7. JobInv(Idle)
  <2>1. PICK v : v = Idle  OBVIOUS
  <2>2. PICK w : w = [rest |-> {}]  OBVIOUS
  <2>3. w.rest \in SUBSET Symbols /\ v = Ended(w)  BY <2>1, <2>2 DEF Ended
  <2> QED  BY <2>1, <2>3, EndedAs
<1>8. StagedKnown /\ CachedStored  BY <1>2 DEF StagedKnown, CachedStored
<1>9. NoGap
  <2> SUFFICES ASSUME NEW sym \in Symbols PROVE Contiguous(Covered(sym))  BY DEF NoGap
  <2>1. \A k \in Jobs : Asked(job[k], sym) = {}  BY <1>2 DEF Asked, Backward, Working, Idle
  <2>2. \A t : t \in Covered(sym) <=> t \in Times(sym)  BY <1>2, <2>1, CoveredIs DEF Known
  <2>3. PICK I : I = Covered(sym)  OBVIOUS
  <2>4. CASE candles = {}
    <3>1. I = {}  BY <2>2, <2>3, <2>4, TimesAre
    <3>2. Contiguous(I)  BY <3>1 DEF Contiguous
    <3> QED  BY <2>3, <3>2
  <2>5. CASE candles = UNION {{[sym |-> s, ts |-> Minute * m, final |-> TRUE] :
                                 m \in (Earliest + 1)..(minute - 1)} : s \in Symbols}
    <3>1. \A t : t \in I <=> \E m \in (Earliest + 1)..(minute - 1) : t = 2 * m
      <4> SUFFICES ASSUME NEW t
                   PROVE  t \in I <=> \E m \in (Earliest + 1)..(minute - 1) : t = 2 * m
        OBVIOUS
      <4>1. t \in I <=> \E row \in candles : row.sym = sym /\ row.ts = t  BY <2>2, <2>3, TimesAre
      <4>2. ASSUME NEW row \in candles, row.ts = t
            PROVE  \E m \in (Earliest + 1)..(minute - 1) : t = 2 * m
        BY <1>3, <4>2 DEF Minute
      <4>3. ASSUME NEW m \in (Earliest + 1)..(minute - 1), t = 2 * m
            PROVE  \E row \in candles : row.sym = sym /\ row.ts = t
        <5>0. [sym |-> sym, ts |-> Minute * m, final |-> TRUE]
                  \in {[sym |-> sym, ts |-> Minute * n, final |-> TRUE] : n \in (Earliest + 1)..(minute - 1)}
          OBVIOUS
        <5>1. [sym |-> sym, ts |-> Minute * m, final |-> TRUE] \in candles  BY <2>5, <5>0
        <5> QED  BY <4>3, <5>1 DEF Minute
      <4> QED  BY <4>1, <4>2, <4>3
    <3> SUFFICES ASSUME NEW a \in I, NEW c \in I, NEW b \in Even, a < b, b < c PROVE b \in I
      BY <2>3 DEF Contiguous
    <3>2. PICK k \in Int : b = 2 * k  BY DEF Even, Minute
    <3>3. PICK p \in (Earliest + 1)..(minute - 1) : a = 2 * p  BY <3>1
    <3>4. PICK q \in (Earliest + 1)..(minute - 1) : c = 2 * q  BY <3>1
    <3>5. Earliest \in Int  BY CandleAssumption
    <3>6. p < k /\ k < q  BY <3>2, <3>3, <3>4, <3>5, <1>1
    <3>7. k \in (Earliest + 1)..(minute - 1)  BY <1>1, <3>5, <3>6
    <3> QED  BY <3>1, <3>2, <3>7
  <2> QED  BY <1>2, <2>4, <2>5
<1>10. DOMAIN job = Jobs /\ \A w \in {job[j] : j \in Jobs} : JobInv(w)
  <2>1. \A w \in {job[j] : j \in Jobs} : w = Idle  BY <1>2
  <2> QED  BY <1>2, <1>7, <2>1
<1> QED  BY <1>6, <1>8, <1>9, <1>10 DEF Inductive

LEMMA InductiveKept ==
    ASSUME Inductive, UNCHANGED vars
    PROVE  Inductive'
<1>1. Stores /\ minute \in Int  BY DEF Inductive, Stores
<1>2. UNCHANGED <<minute, candles, staging, job, cache, excused>>  BY DEF vars
<1>3. Minutes' = Minutes /\ Rows' = Rows  BY <1>2 DEF Minutes, Rows
<1>4. Stores'
  <2>1. \A r, s \in candles' : Key(r) = Key(s) => r = s  BY <1>1, <1>2 DEF Stores
  <2> QED  BY <1>1, <1>2, <1>3, <2>1 DEF Stores
<1>5. Onward
  <2>1. \A row \in candles : row \in candles'  BY <1>2
  <2> QED  BY <1>1, <1>2, <2>1, OnwardFrom
<1>6. CachedStored'  BY <1>2 DEF Inductive, CachedStored
<1>7. \A s \in Symbols : Known(s)' = Known(s)  BY <1>2, <1>3 DEF Known, Times, Of
<1> QED  BY <1>2, <1>4, <1>5, <1>6, <1>7, JobsRest

LEMMA InductiveNext == Inductive /\ [Next]_vars => Inductive'
<1> SUFFICES ASSUME Inductive, [Next]_vars PROVE Inductive'  OBVIOUS
<1>1. CASE UNCHANGED vars  BY <1>1, InductiveKept
<1>2. ASSUME NEW j \in Jobs, Works(j) PROVE Inductive'
  BY <1>2, ReadStep, CheckStep, FetchStep, ClearStep, AppendStep, MergeStep DEF Works
<1>3. ASSUME NEW j \in Jobs, FetchFails(j) \/ StartUpdateAll(j) PROVE Inductive'
  BY <1>3, FetchFailsStep, StartUpdateAllStep
<1>4. ASSUME NEW j \in Jobs, NEW sym \in Symbols, StartIngest(j, sym) \/ StartUpdate(j, sym)
      PROVE  Inductive'
  BY <1>4, StartIngestStep, StartUpdateStep
<1>5. ASSUME NEW sym \in Symbols, DeleteSymbol(sym) \/ RunCached(sym) PROVE Inductive'
  BY <1>5, DeleteStep, RunCachedStep
<1>6. CASE Crash \/ Tick  BY <1>6, CrashStep, TickStep
<1> QED  BY <1>1, <1>2, <1>3, <1>4, <1>5, <1>6 DEF Next

(* The minutes known and to be asked for leave no gap, in every state.     *)
LEMMA InductiveHolds == Spec => []Inductive
BY InductiveInit, InductiveNext, PTL DEF Spec

(* A minute that is missing between two stored ones was excused, or a      *)
(* backward job (backfillCandles) has still to ask for it.                 *)
THEOREM HolesHaveACauseHolds == Spec => []HolesHaveACause
<1>1. Inductive => HolesHaveACause
  <2> SUFFICES ASSUME Inductive, NEW sym \in Symbols, NEW ts \in FirstTs(sym)..LastTs(sym),
                      ts % Minute = 0, ts \notin Times(sym)
               PROVE  <<sym, ts>> \in excused \/ StillAsked(<<sym, ts>>)
    BY DEF HolesHaveACause
  <2>1. Stores /\ minute \in Int  BY DEF Inductive, Stores
  <2>2. FirstTs(sym) \in Int /\ LastTs(sym) \in Int /\ Times(sym) \subseteq Minutes  BY <2>1, EndsOf
  <2>3. ts \in Int /\ ts \in Even /\ FirstTs(sym) <= ts /\ ts <= LastTs(sym)  BY <2>2, EvenIs
  <2>4. Times(sym) # {}
    <3>1. ASSUME Times(sym) = {} PROVE FALSE
      <4>1. FirstTs(sym) = -1 /\ LastTs(sym) = -1  BY <2>1, <3>1, EndsOf DEF None
      <4>2. ts = -1  BY <2>3, <4>1
      <4> QED  BY <2>3, <4>2 DEF Minute
    <3> QED  BY <3>1
  <2>5. PICK a \in Times(sym), c \in Times(sym) : a = FirstTs(sym) /\ c = LastTs(sym)
    BY <2>1, <2>4, EndsOf
  <2>6. a < ts /\ ts < c  BY <2>2, <2>3, <2>5
  <2>7. ts \in Covered(sym)
    <3>1. a \in Covered(sym) /\ c \in Covered(sym)  BY CoveredIs DEF Known
    <3> QED  BY <2>3, <2>6, <3>1 DEF Inductive, NoGap, Contiguous
  <2>8. CASE ts \in Known(sym)  BY <2>8 DEF Known
  <2>9. ASSUME NEW k \in Jobs, ts \in Asked(job[k], sym) PROVE StillAsked(<<sym, ts>>)
    <3>1. Backward(job[k]) /\ job[k].sym = sym /\ ts \in Open(job[k])  BY <2>9 DEF Asked
    <3>2. <<sym, ts>> \in Unasked(job[k])  BY <3>1, UnaskedIs
    <3> QED  BY <3>1, <3>2 DEF StillAsked, Backward, Working
  <2> QED  BY <2>7, <2>8, <2>9, CoveredIs
<1> QED  BY <1>1, InductiveHolds, PTL

(* A symbol has finitely many bars.                                        *)
LEMMA FinitelyManyBars ==
    ASSUME Inductive, NEW sym
    PROVE  IsFiniteSet(DOMAIN LoadCandles(sym))
<1>1. Stores /\ minute \in Int  BY DEF Inductive, Stores
<1>2. IsFiniteSet(Earliest..minute)  BY <1>1, CandleAssumption, FS_Interval
<1>3. IsFiniteSet(Minutes)
  <2> DEFINE f == [m \in Earliest..minute |-> Minute * m]
  <2>1. f \in Surjection(Earliest..minute, Minutes)
    BY DEF Surjection, Minutes
  <2> QED  BY <1>2, <2>1, FS_Surjection
<1>4. Times(sym) \subseteq Minutes  BY <1>1, TimesAre DEF Stores, Rows
<1>5. IsFiniteSet(Times(sym))  BY <1>3, <1>4, FS_Subset
<1>6. DOMAIN LoadCandles(sym) = {BarOf(ts) : ts \in Times(sym)}  BY DEF LoadCandles
<1>7. IsFiniteSet({BarOf(ts) : ts \in Times(sym)})
  <2> DEFINE f == [ts \in Times(sym) |-> BarOf(ts)]
  <2>1. f \in Surjection(Times(sym), {BarOf(ts) : ts \in Times(sym)})
    BY DEF Surjection
  <2> QED  BY <1>5, <2>1, FS_Surjection
<1> QED  BY <1>6, <1>7

(* computeDatasetId sees every bar that is added to the data of a symbol,  *)
(* wherever it is added: INSERT OR IGNORE takes no row away, so the bars   *)
(* only become more, and the id holds their number.                        *)
THEOREM AddedBarsMissHolds == Spec => []AddedBarsMiss
<1>1. Inductive => AddedBarsMiss
  <2> SUFFICES ASSUME Inductive, NEW c \in cache, ~ c.deleted, Hit(c)
               PROVE  /\ DOMAIN LoadCandles(c.sym) = DOMAIN c.bars
                      /\ \A b \in DOMAIN c.bars : c.bars[b] \subseteq LoadCandles(c.sym)[b]
    BY DEF AddedBarsMiss
  <2>1. PICK sym : sym = c.sym  OBVIOUS
  <2>2. PICK new : new = LoadCandles(sym)  OBVIOUS
  <2>3. \A b : b \in DOMAIN new <=> \E ts \in Times(sym) : b = BarOf(ts)
    BY <2>2 DEF LoadCandles
  <2>4. \A b \in DOMAIN new : new[b] = {row \in Of(candles, sym) : BarOf(row.ts) = b}
    BY <2>2 DEF LoadCandles
  <2>5. ASSUME NEW b \in DOMAIN c.bars
        PROVE  b \in DOMAIN new /\ c.bars[b] \subseteq new[b]
    <3>1. /\ c.bars[b] # {}
          /\ c.bars[b] \subseteq {row \in candles : row.sym = sym /\ BarOf(row.ts) = b}
      BY <2>1 DEF Inductive, CachedStored
    <3>2. PICK row \in candles : row.sym = sym /\ BarOf(row.ts) = b  BY <3>1
    <3>3. row.ts \in Times(sym)  BY <3>2, TimesAre
    <3>4. b \in DOMAIN new  BY <2>3, <3>2, <3>3
    <3> QED  BY <2>4, <3>1, <3>4 DEF Of
  <2>6. Cardinality(DOMAIN new) = Cardinality(DOMAIN c.bars)
    BY <2>1, <2>2 DEF Hit, DatasetId
  <2>7. IsFiniteSet(DOMAIN new)  BY <2>2, FinitelyManyBars
  <2>8. DOMAIN c.bars \subseteq DOMAIN new  BY <2>5
  <2>9. DOMAIN new = DOMAIN c.bars  BY <2>6, <2>7, <2>8, FS_Subset
  <2> QED  BY <2>1, <2>2, <2>5, <2>9
<1> QED  BY <1>1, InductiveHolds, PTL
=============================================================================
