--------------------------- MODULE BacktestProofs ---------------------------
(***************************************************************************)
(* The properties of the runtime's backtest and of the scripts on a chart  *)
(* (MCBacktest), for all bars, costs and specs.                            *)
(***************************************************************************)
EXTENDS MCBacktest, FiniteSetTheorems, WellFoundedInduction, TLAPS

-----------------------------------------------------------------------------
(* What recursive functions over 0 .. n compute.                           *)

LEMMA HasSmallest ==
    ASSUME NEW n \in Nat, NEW S \in SUBSET (0 .. n), S # {}
    PROVE  \E k \in S : \A h \in S : k <= h
<1> DEFINE Segments == {0 .. k : k \in S}
<1>1. IsWellFoundedOn(StrictSubsetOrdering(Int), FiniteSubsetsOf(Int))
  BY FS_StrictSubsetOrderingWellFounded
<1>2. Segments \subseteq FiniteSubsetsOf(Int) /\ Segments # {}
  <2>1. ASSUME NEW k \in S PROVE 0 .. k \in FiniteSubsetsOf(Int)
    <3>1. IsFiniteSet(0 .. k)  BY FS_Interval
    <3> QED  BY <3>1 DEF FiniteSubsetsOf
  <2> QED  BY <2>1
<1>3. PICK U \in Segments : \A V \in Segments : <<V, U>> \notin StrictSubsetOrdering(Int)
  <2> HIDE DEF Segments
  <2> QED  BY <1>1, <1>2, WFMin
<1>4. PICK k \in S : U = 0 .. k  BY <1>3
<1>5. ASSUME NEW h \in S, ~(k <= h) PROVE FALSE
  <2>1. 0 .. h \in Segments  OBVIOUS
  <2>2. 0 .. h \subseteq 0 .. k /\ k \in 0 .. k /\ k \notin 0 .. h  BY <1>5
  <2>3. <<0 .. h, 0 .. k>> \in StrictSubsetOrdering(Int)  BY <2>2 DEF StrictSubsetOrdering
  <2> QED  BY <1>3, <1>4, <2>1, <2>3
<1> QED  BY <1>5

LEMMA StagesStayIn ==
    ASSUME NEW n \in Nat, NEW D, NEW f, f[0] \in D,
           \A k \in 1 .. n : f[k - 1] \in D => f[k] \in D
    PROVE  \A k \in 0 .. n : f[k] \in D
<1> DEFINE Bad == {k \in 0 .. n : f[k] \notin D}
<1> SUFFICES ASSUME Bad # {} PROVE FALSE  OBVIOUS
<1>1. PICK k \in Bad : \A h \in Bad : k <= h
  <2>1. Bad \in SUBSET (0 .. n)  OBVIOUS
  <2> HIDE DEF Bad
  <2> QED  BY <2>1, HasSmallest
<1>2. k \in 1 .. n  OBVIOUS
<1>3. k - 1 \in 0 .. n /\ ~(k <= k - 1)  BY <1>2
<1>4. f[k - 1] \in D  BY <1>1, <1>3
<1> QED  BY <1>2, <1>4

(* A function is defined by its first value and the step to the next one.  *)
IsStages(n, b, step, f) ==
    /\ f = [k \in 0 .. n |-> f[k]] /\ f[0] = b
    /\ \A k \in 1 .. n : f[k] = step[<<k, f[k - 1]>>]

Steps(n, D) == [(1 .. n) \X D -> D]

LEMMA StagesExist ==
    ASSUME NEW n \in Nat, NEW D, NEW b \in D, NEW step \in Steps(n, D)
    PROVE  \E f \in [0 .. n -> D] : IsStages(n, b, step, f)
<1> DEFINE Has(k) == \E f \in [0 .. k -> D] : IsStages(k, b, step, f)
           Bad == {k \in 0 .. n : ~Has(k)}
<1> SUFFICES ASSUME ~Has(n) PROVE FALSE  OBVIOUS
<1>0. Bad # {}
  <2>1. n \in 0 .. n  OBVIOUS
  <2> HIDE DEF Has
  <2> QED  BY <2>1
<1>1. PICK k \in Bad : \A h \in Bad : k <= h
  <2>1. Bad \in SUBSET (0 .. n)  OBVIOUS
  <2> HIDE DEF Bad
  <2> QED  BY <1>0, <2>1, HasSmallest
<1>2. k \in 0 .. n /\ ~Has(k)  OBVIOUS
<1>3. CASE k = 0
  <2> DEFINE f == [h \in 0 .. 0 |-> b]
  <2>1. f \in [0 .. 0 -> D] /\ IsStages(0, b, step, f)  BY DEF IsStages
  <2> QED  BY <1>2, <1>3, <2>1
<1>4. CASE k # 0
  <2>1. k - 1 \in 0 .. n /\ k \in 1 .. n /\ ~(k <= k - 1)  BY <1>2, <1>4
  <2>2. Has(k - 1)
    <3>1. k - 1 \notin Bad
      <4> HIDE DEF Bad
      <4> QED  BY <1>1, <2>1
    <3> QED  BY <2>1, <3>1
  <2>3. PICK f \in [0 .. k - 1 -> D] : IsStages(k - 1, b, step, f)  BY <2>2
  <2> DEFINE r == step[<<k, f[k - 1]>>]
             g == [h \in 0 .. k |-> IF h = k THEN r ELSE f[h]]
  <2>4. f[k - 1] \in D  BY <2>1, <2>3
  <2>5. r \in D  BY <2>1, <2>4 DEF Steps
  <2>6. g \in [0 .. k -> D]
    <3> HIDE DEF r
    <3> QED  BY <2>1, <2>3, <2>5
  <2>7. g[0] = b  BY <2>1, <2>3 DEF IsStages
  <2>8. ASSUME NEW h \in 1 .. k PROVE g[h] = step[<<h, g[h - 1]>>]
    <3>1. g[h - 1] = f[h - 1]  BY <2>1, <2>8
    <3>2. CASE h = k
      <4>1. g[h] = r  BY <2>1, <2>8, <3>2
      <4> QED  BY <3>1, <3>2, <4>1
    <3>3. CASE h # k
      <4>1. h \in 1 .. k - 1 /\ g[h] = f[h]  BY <2>1, <2>8, <3>3
      <4> QED  BY <2>3, <3>1, <4>1 DEF IsStages
    <3> QED  BY <3>2, <3>3
  <2>9. g = [h \in 0 .. k |-> g[h]]  OBVIOUS
  <2> HIDE DEF g, r
  <2>10. IsStages(k, b, step, g)  BY <2>7, <2>8, <2>9 DEF IsStages
  <2> QED  BY <1>2, <2>6, <2>10
<1> QED  BY <1>3, <1>4

LEMMA TotalIsInt ==
    ASSUME NEW m \in Seq(Int)
    PROVE  Test!Total(m) \in Int
<1> DEFINE Sums(f) == f = [n \in 0 .. Len(m) |-> IF n = 0 THEN 0 ELSE f[n - 1] + m[n]]
           sum == CHOOSE f : Sums(f)
           step == [x \in (1 .. Len(m)) \X Int |-> x[2] + m[x[1]]]
<1>0. Len(m) \in Nat /\ \A n \in 1 .. Len(m) : m[n] \in Int  OBVIOUS
<1>1. step \in Steps(Len(m), Int)  BY <1>0 DEF Steps
<1>2. PICK f \in [0 .. Len(m) -> Int] : IsStages(Len(m), 0, step, f)
  <2>1. PICK D : D = Int  OBVIOUS
  <2>2. PICK n \in Nat : n = Len(m)  BY <1>0
  <2>3. 0 \in D /\ step \in Steps(n, D)  BY <1>1, <2>1, <2>2
  <2> HIDE DEF step
  <2>4. \E f \in [0 .. n -> D] : IsStages(n, 0, step, f)  BY <2>3, StagesExist
  <2> QED  BY <2>1, <2>2, <2>4
<1>3. ASSUME NEW n \in 0 .. Len(m) PROVE f[n] = IF n = 0 THEN 0 ELSE f[n - 1] + m[n]
  <2>1. CASE n = 0  BY <1>2, <2>1 DEF IsStages
  <2>2. CASE n # 0
    <3>1. n \in 1 .. Len(m) /\ n - 1 \in 0 .. Len(m)  BY <1>0, <2>2
    <3>2. f[n] = step[<<n, f[n - 1]>>] /\ f[n - 1] \in Int  BY <1>2, <3>1 DEF IsStages
    <3> QED  BY <3>1, <3>2, <2>2
  <2> QED  BY <2>1, <2>2
<1>4. f = [n \in 0 .. Len(m) |-> f[n]]  BY <1>2
<1>5. Sums(f)
  <2> HIDE DEF step
  <2> QED  BY <1>3, <1>4
<1>6. Sums(sum)
  <2> HIDE DEF Sums, step
  <2> QED  BY <1>5
<1>7. Test!Total(m) = sum[Len(m)]  BY DEF Test!Total
<1> HIDE DEF sum
<1>8. sum[0] = 0 /\ \A n \in 1 .. Len(m) : sum[n] = sum[n - 1] + m[n]
  <2>1. \A n \in 0 .. Len(m) : sum[n] = IF n = 0 THEN 0 ELSE sum[n - 1] + m[n]  BY <1>6
  <2> QED  BY <1>0, <2>1
<1>9. \A n \in 0 .. Len(m) : sum[n] \in Int
  <2>1. ASSUME NEW n \in 1 .. Len(m), sum[n - 1] \in Int PROVE sum[n] \in Int
    <3>1. m[n] \in Int  OBVIOUS
    <3>2. sum[n] = sum[n - 1] + m[n]  BY <1>8
    <3> QED  BY <2>1, <3>1, <3>2
  <2>2. sum[0] \in Int  BY <1>8
  <2> QED  BY <1>0, <2>1, <2>2, StagesStayIn
<1> QED  BY <1>0, <1>7, <1>9

LEMMA Quotient == ASSUME NEW a \in Int, NEW b \in Int, b > 0 PROVE a \div b \in Int
  OBVIOUS
LEMMA Product == ASSUME NEW a \in Int, NEW b \in Int PROVE a * b \in Int
  OBVIOUS
LEMMA PositiveProduct == ASSUME NEW a \in Int, NEW b \in Int, a > 0, b > 0 PROVE a * b > 0
  OBVIOUS

-----------------------------------------------------------------------------
(* Sizes are numbers.                                                      *)

PowerOf(b, n, f) == f = [k \in 0 .. n |-> IF k = 0 THEN 1 ELSE b * f[k - 1]]
Power(b, n) == (CHOOSE f : PowerOf(b, n, f))[n]

LEMMA PowerIsInt ==
    ASSUME NEW b \in Int, NEW n \in Nat
    PROVE  Power(b, n) \in Int
<1> DEFINE power == CHOOSE f : PowerOf(b, n, f)
           step == [x \in (1 .. n) \X Int |-> b * x[2]]
<1>1. step \in Steps(n, Int)  
  <2>1. \A x \in (1 .. n) \X Int : b * x[2] \in Int  BY Product
  <2> QED BY <2>1 DEF Steps
<1>2. PICK f : f \in [0 .. n -> Int] /\ IsStages(n, 1, step, f)
  <2>1. PICK D : D = Int  OBVIOUS
  <2>2. 1 \in D /\ step \in Steps(n, D)  BY <1>1, <2>1
  <2> HIDE DEF step
  <2>3. \E f \in [0 .. n -> D] : IsStages(n, 1, step, f)  BY <2>2, StagesExist
  <2> QED  BY <2>1, <2>3
<1>3. ASSUME NEW k \in 0 .. n PROVE f[k] = IF k = 0 THEN 1 ELSE b * f[k - 1]
  <2>1. CASE k = 0  BY <1>2, <2>1 DEF IsStages
  <2>2. CASE k # 0
    <3>1. k \in 1 .. n /\ k - 1 \in 0 .. n  BY <2>2
    <3>2. f[k] = step[<<k, f[k - 1]>>] /\ f[k - 1] \in Int  BY <1>2, <3>1 DEF IsStages
    <3> QED  BY <3>1, <3>2, <2>2
  <2> QED  BY <2>1, <2>2
<1>4. f = [k \in 0 .. n |-> f[k]]  BY <1>2
<1>5. PowerOf(b, n, f)
  <2> HIDE DEF step
  <2> QED  BY <1>3, <1>4 DEF PowerOf
<1>6. PowerOf(b, n, power)  BY <1>5
<1> HIDE DEF power, step
<1>7. \A k \in 0 .. n : power[k] \in Int
  <2>0. \A k \in 0 .. n : power[k] = IF k = 0 THEN 1 ELSE b * power[k - 1]  BY <1>6 DEF PowerOf
  <2>1. power[0] \in Int  BY <2>0
  <2>2. ASSUME NEW k \in 1 .. n, power[k - 1] \in Int PROVE power[k] \in Int
    <3>1. power[k] = b * power[k - 1]  BY <2>0
    <3> QED  BY <2>2, <3>1, Product
  <2> QED  BY <2>1, <2>2, StagesStayIn
<1> QED  BY <1>7 DEF Power, power

(* The statistics of the closed trades.                                    *)
Stats ==
    {t \in [trades : Nat, wins : Nat, losses : Nat, sumWin : Nat, sumLoss : Nat,
            worst : Int, streak : Int, curve : Seq(Int)] :
        /\ t.wins + t.losses <= t.trades
        /\ t.wins > 0 => t.sumWin > 0}

LEMMA NoStatsType == Test!NoStats \in Stats
  BY DEF Test!NoStats, Stats

LEMMA MinMaxIsInt ==
    ASSUME NEW a \in Int, NEW b \in Int
    PROVE  Test!SizeMin(a, b) \in Int /\ Test!SizeMax(a, b) \in Int
  BY DEF Test!SizeMin, Test!SizeMax

LEMMA WithTradeType ==
    ASSUME NEW t \in Stats, NEW pnl \in Int, NEW equity \in Int
    PROVE  Test!WithTrade(t, pnl, equity) \in Stats
<1>1. Append(t.curve, equity) \in Seq(Int)  BY DEF Stats
<1> DEFINE u == Test!WithTrade(t, pnl, equity)
<1>0. /\ t.trades \in Nat /\ t.wins \in Nat /\ t.losses \in Nat /\ t.sumWin \in Nat /\ t.sumLoss \in Nat
      /\ t.worst \in Int /\ t.streak \in Int
      /\ t.wins + t.losses <= t.trades /\ (t.wins > 0 => t.sumWin > 0)
  <2>1. t \in [trades : Nat, wins : Nat, losses : Nat, sumWin : Nat, sumLoss : Nat,
                worst : Int, streak : Int, curve : Seq(Int)]
    BY Zenon DEF Stats
  <2>2. t.wins + t.losses <= t.trades /\ (t.wins > 0 => t.sumWin > 0)
    BY Zenon DEF Stats
  <2> QED  BY <2>1, <2>2
<1>2. Test!SizeMax(t.worst, -pnl) \in Int /\ Test!SizeMax(t.streak, 0) \in Int /\ Test!SizeMin(t.streak, 0) \in Int
  <2>1. -pnl \in Int /\ 0 \in Int  OBVIOUS
  <2> QED  BY Zenon, <1>0, <2>1, MinMaxIsInt
<1>9. /\ u.trades = t.trades + 1
      /\ u.wins = IF pnl > 0 THEN t.wins + 1 ELSE t.wins
      /\ u.losses = IF pnl < 0 THEN t.losses + 1 ELSE t.losses
  BY DEF Test!WithTrade
<1>10. /\ u.sumWin = IF pnl > 0 THEN t.sumWin + pnl ELSE t.sumWin
       /\ u.sumLoss = IF pnl < 0 THEN t.sumLoss - pnl ELSE t.sumLoss
  BY DEF Test!WithTrade
<1>11. /\ u.worst = Test!SizeMax(t.worst, -pnl)
       /\ u.streak = CASE pnl > 0 -> Test!SizeMax(t.streak, 0) + 1
                        [] pnl < 0 -> Test!SizeMin(t.streak, 0) - 1
                        [] OTHER -> t.streak
       /\ u.curve = Append(t.curve, equity)
  BY DEF Test!WithTrade
<1> HIDE DEF u
<1>3. /\ u.trades \in Nat /\ u.wins \in Nat /\ u.losses \in Nat
      /\ u.wins + u.losses <= u.trades
  <2>1. PICK e \in Nat, w \in Nat, l \in Nat : e = t.trades /\ w = t.wins /\ l = t.losses /\ w + l <= e
    BY <1>0
  <2>2. /\ u.trades = e + 1 /\ u.wins = IF pnl > 0 THEN w + 1 ELSE w
        /\ u.losses = IF pnl < 0 THEN l + 1 ELSE l
    BY Zenon, <1>9, <2>1
  <2>3. e + 1 \in Nat /\ w + 1 \in Nat /\ l + 1 \in Nat  OBVIOUS
  <2>4. u.trades \in Nat /\ u.wins \in Nat /\ u.losses \in Nat  BY Zenon, <2>2, <2>3
  <2>5. CASE pnl > 0  BY <2>1, <2>2, <2>4, <2>5
  <2>6. CASE ~(pnl > 0)  BY <2>1, <2>2, <2>4, <2>6
  <2> QED  BY <2>4, <2>5, <2>6
<1>4. u.sumWin \in Nat /\ u.sumLoss \in Nat /\ (u.wins > 0 => u.sumWin > 0)
  <2>1. PICK w \in Nat, g \in Nat, l \in Nat : w = t.wins /\ g = t.sumWin /\ l = t.sumLoss /\ (w > 0 => g > 0)
    BY <1>0
  <2>2. /\ u.wins = IF pnl > 0 THEN w + 1 ELSE w
        /\ u.sumWin = IF pnl > 0 THEN g + pnl ELSE g
        /\ u.sumLoss = IF pnl < 0 THEN l - pnl ELSE l
    BY Zenon, <1>9, <1>10, <2>1
  <2>3. CASE pnl > 0  BY <2>1, <2>2, <2>3
  <2>4. CASE pnl < 0  BY <2>1, <2>2, <2>4
  <2>5. CASE pnl = 0  BY <2>1, <2>2, <2>5
  <2> QED  BY <2>3, <2>4, <2>5
<1>5. u.worst \in Int /\ u.streak \in Int /\ u.curve \in Seq(Int)
  <2>1. PICK e \in Int, k \in Int :
            e = Test!SizeMax(t.streak, 0) /\ k = Test!SizeMin(t.streak, 0)
    BY <1>2
  <2>2. e + 1 \in Int /\ k - 1 \in Int  OBVIOUS
  <2>3. u.streak \in {e + 1, k - 1, t.streak}  BY <1>11, <2>1
  <2>4. u.streak \in Int  BY Zenon, <1>0, <2>2, <2>3
  <2> QED  BY Zenon, <1>1, <1>2, <1>11, <2>4
<1>6. u = [trades |-> u.trades, wins |-> u.wins, losses |-> u.losses, sumWin |-> u.sumWin,
           sumLoss |-> u.sumLoss, worst |-> u.worst, streak |-> u.streak, curve |-> u.curve]
  BY DEF Test!WithTrade, u
<1>7. u \in [trades : Nat, wins : Nat, losses : Nat, sumWin : Nat, sumLoss : Nat,
            worst : Int, streak : Int, curve : Seq(Int)]
  BY <1>3, <1>4, <1>5, <1>6
<1>8. u \in Stats  BY <1>3, <1>4, <1>7 DEF Stats
<1> QED  BY <1>8 DEF u

(* What openPosition passes to the sizing block.                           *)
Contexts == {c \in [fill : Int, equity : Int, initial : Int, stop : Int, atr : Int, stats : Stats] : c.fill > 0}

LEMMA BuysInt ==
    ASSUME NEW money \in Int, NEW fill \in Int, fill > 0
    PROVE  Test!Buys(money, fill) \in Int
<1>1. 100 * fill \in Int /\ 100 * fill > 0  OBVIOUS
<1> QED  BY <1>1, Quotient DEF Test!Buys

LEMMA ShareOfEquity ==
    ASSUME NEW c \in Contexts, NEW pct \in Int
    PROVE  Test!Buys((c.equity * pct) \div 100, c.fill) \in Int
<1>1. c.equity * pct \in Int  BY Product DEF Contexts
<1>2. (c.equity * pct) \div 100 \in Int  BY <1>1, Quotient
<1> QED  BY <1>2, BuysInt DEF Contexts

LEMMA KellyPctIsInt ==
    ASSUME NEW t \in Stats, t.losses # 0
    PROVE  Test!KellyPct(t) \in Int
<1>1. CASE t.wins = 0  BY <1>1 DEF Test!KellyPct
<1>2. CASE t.wins # 0
  <2>1. /\ t.wins \in Int /\ t.sumWin \in Int /\ t.losses \in Int /\ t.trades \in Int /\ t.sumLoss \in Int
        /\ t.trades > 0 /\ t.sumWin > 0 /\ t.losses > 0
    BY <1>2 DEF Stats
  <2>2. t.trades * t.sumWin \in Int /\ t.trades * t.sumWin > 0  BY <2>1, Product, PositiveProduct
  <2>3. t.trades * t.sumWin * t.losses \in Int /\ t.trades * t.sumWin * t.losses > 0
    BY <2>1, <2>2, Product, PositiveProduct
  <2>4. t.wins * t.sumWin \in Int /\ (t.trades - t.wins) * t.sumLoss \in Int  BY <2>1, Product
  <2>5. t.wins * t.sumWin * t.losses \in Int /\ (t.trades - t.wins) * t.sumLoss * t.wins \in Int
    BY <2>1, <2>4, Product
  <2>6. 100 * (t.wins * t.sumWin * t.losses - (t.trades - t.wins) * t.sumLoss * t.wins) \in Int
    BY <2>5, Product
  <2> QED  BY <1>2, <2>3, <2>6, Quotient DEF Test!KellyPct
<1> QED  BY <1>1, <1>2

LEMMA EscalatedIsInt ==
    ASSUME NEW c \in Contexts, NEW p, {p.basePct, p.stepMult, p.maxMult} \subseteq Int, NEW n \in Nat
    PROVE  Test!Escalated(c, p, n) \in Int
<1>1. Power(p.stepMult, n) \in Int  BY PowerIsInt
<1>2. Test!SizeMin(Power(p.stepMult, n), p.maxMult) \in Int  BY <1>1, MinMaxIsInt
<1>3. c.equity * p.basePct \in Int  BY Product DEF Contexts
<1>4. c.equity * p.basePct * Test!SizeMin(Power(p.stepMult, n), p.maxMult) \in Int
  BY <1>2, <1>3, Product
<1>5. Test!Buys((c.equity * p.basePct * Test!SizeMin(Power(p.stepMult, n), p.maxMult)) \div 100, c.fill) \in Int
  BY <1>4, Quotient, BuysInt DEF Contexts
<1> QED  BY <1>5 DEF Test!Escalated, Power, PowerOf

LEMMA FlatIsInt ==
    ASSUME NEW c \in Contexts, NEW p, Test!IsSizing(p), p.id = "flat"
    PROVE  Test!Flat(c, p) \in Int
<1>1. p.amount \in Int  BY DEF Test!IsSizing, Test!SizingNumbers
<1> QED  BY <1>1, BuysInt DEF Test!Flat, Contexts

LEMMA PctIsInt ==
    ASSUME NEW c \in Contexts, NEW p, Test!IsSizing(p), p.id \in {"pctOfEquity", "pctOfInitial"}
    PROVE  Test!PctOfEquity(c, p) \in Int /\ Test!PctOfInitial(c, p) \in Int
<1>1. p.pct \in Int  BY DEF Test!IsSizing, Test!SizingNumbers
<1>2. c.initial * p.pct \in Int  BY <1>1, Product DEF Contexts
<1>3. (c.initial * p.pct) \div 100 \in Int  BY <1>2, Quotient
<1>4. Test!Buys((c.initial * p.pct) \div 100, c.fill) \in Int  BY <1>3, BuysInt DEF Contexts
<1>5. Test!Buys((c.equity * p.pct) \div 100, c.fill) \in Int  BY <1>1, ShareOfEquity
<1> QED  BY <1>4, <1>5 DEF Test!PctOfEquity, Test!PctOfInitial

LEMMA AtrRiskIsInt ==
    ASSUME NEW c \in Contexts, NEW p, Test!IsSizing(p), p.id = "atrRisk"
    PROVE  Test!AtrRisk(c, p) \in Int
<1>1. p.riskPct \in Int  BY DEF Test!IsSizing, Test!SizingNumbers
<1>2. c.initial * p.riskPct \in Int /\ c.equity * p.riskPct \in Int  BY <1>1, Product DEF Contexts
<1>3. c.stop > 0 => 10000 * c.stop \in Int /\ 10000 * c.stop > 0  BY DEF Contexts
<1>4. c.stop > 0 => /\ (c.initial * p.riskPct) \div (10000 * c.stop) \in Int
                    /\ (c.equity * p.riskPct) \div (10000 * c.stop) \in Int
  BY <1>2, <1>3, Quotient
<1> QED  BY <1>4 DEF Test!AtrRisk

LEMMA VolTargetIsInt ==
    ASSUME NEW c \in Contexts, NEW p, Test!IsSizing(p), p.id = "volTargetSizing"
    PROVE  Test!VolTarget(c, p) \in Int
<1>1. p.targetVolPct \in Int /\ p.hardCapPct \in Int
  BY DEF Test!IsSizing, Test!SizingNumbers
<1>2. c.equity * p.targetVolPct \in Int  BY <1>1, Product DEF Contexts
<1>3. c.atr > 0 => 10000 * c.atr \in Int /\ 10000 * c.atr > 0  BY DEF Contexts
<1>4. c.atr > 0 => (c.equity * p.targetVolPct) \div (10000 * c.atr) \in Int
  BY <1>2, <1>3, Quotient
<1>5. Test!Buys((c.equity * p.hardCapPct) \div 100, c.fill) \in Int  BY <1>1, ShareOfEquity
<1> QED  BY <1>4, <1>5, MinMaxIsInt DEF Test!VolTarget

LEMMA FixedFractionalIsInt ==
    ASSUME NEW c \in Contexts, NEW p, Test!IsSizing(p), p.id = "fixedFractional"
    PROVE  Test!FixedFractional(c, p) \in Int
<1>1. p.f \in Int /\ p.minWorstLoss \in Int /\ p.minWorstLoss > 0
  BY DEF Test!IsSizing, Test!SizingNumbers
<1>2. c.equity * p.f \in Int  BY <1>1, Product DEF Contexts
<1>3. c.stats.worst \in Int  BY DEF Contexts, Stats
<1>4. Test!SizeMax(c.stats.worst, p.minWorstLoss) \in Int /\ Test!SizeMax(c.stats.worst, p.minWorstLoss) > 0
  BY <1>1, <1>3 DEF Test!SizeMax
<1>5. /\ 100 * Test!SizeMax(c.stats.worst, p.minWorstLoss) \in Int
      /\ 100 * Test!SizeMax(c.stats.worst, p.minWorstLoss) > 0
  BY <1>4
<1> QED  BY <1>2, <1>5, Quotient DEF Test!FixedFractional

LEMMA KellyIsInt ==
    ASSUME NEW c \in Contexts, NEW p, Test!IsSizing(p), p.id = "kelly"
    PROVE  Test!Kelly(c, p) \in Int
<1>1. p.warmupPct \in Int /\ p.fractionPct \in Int /\ p.maxPct \in Int
  BY DEF Test!IsSizing, Test!SizingNumbers
<1>2. c.stats \in Stats  BY DEF Contexts
<1>3. Test!Buys((c.equity * p.warmupPct) \div 100, c.fill) \in Int  BY <1>1, ShareOfEquity
<1>4. ASSUME c.stats.losses # 0
      PROVE  Test!Buys((c.equity * Test!SizeMin((Test!KellyPct(c.stats) * p.fractionPct) \div 100, p.maxPct))
                           \div 100, c.fill) \in Int
  <2>1. Test!KellyPct(c.stats) \in Int  BY <1>2, <1>4, KellyPctIsInt
  <2>2. Test!KellyPct(c.stats) * p.fractionPct \in Int  BY <1>1, <2>1, Product
  <2>3. (Test!KellyPct(c.stats) * p.fractionPct) \div 100 \in Int  BY <2>2, Quotient
  <2>4. Test!SizeMin((Test!KellyPct(c.stats) * p.fractionPct) \div 100, p.maxPct) \in Int
    BY <1>1, <2>3, MinMaxIsInt
  <2> QED  BY <2>4, ShareOfEquity
<1> QED  BY <1>3, <1>4 DEF Test!Kelly

LEMMA EquityCurveIsInt ==
    ASSUME NEW c \in Contexts, NEW p, Test!IsSizing(p), p.id = "equityCurveTrading"
    PROVE  Test!EquityCurve(c, p) \in Int
<1>1. p.basePct \in Int /\ p.onPct \in Int /\ p.offPct \in Int
  BY DEF Test!IsSizing, Test!SizingNumbers
<1>2. /\ Test!Buys((c.equity * p.basePct) \div 100, c.fill) \in Int
      /\ Test!Buys((c.equity * p.onPct) \div 100, c.fill) \in Int
      /\ Test!Buys((c.equity * p.offPct) \div 100, c.fill) \in Int
  BY <1>1, ShareOfEquity
<1> QED  BY <1>2 DEF Test!EquityCurve

LEMMA StreakSizesAreInt ==
    ASSUME NEW c \in Contexts, NEW p, Test!IsSizing(p), p.id \in {"martingale", "antiMartingale"}
    PROVE  Test!Martingale(c, p) \in Int /\ Test!AntiMartingale(c, p) \in Int
<1>1. {p.basePct, p.stepMult, p.maxMult} \subseteq Int
  BY DEF Test!IsSizing, Test!SizingNumbers
<1>2. c.stats.streak \in Int  BY DEF Contexts, Stats
<1>3. PICK n \in Nat : n = Test!SizeMax(0, -c.stats.streak)  BY <1>2 DEF Test!SizeMax
<1>4. PICK m \in Nat : m = Test!SizeMax(0, c.stats.streak)  BY <1>2 DEF Test!SizeMax
<1>5. Test!Escalated(c, p, n) \in Int /\ Test!Escalated(c, p, m) \in Int  BY <1>1, EscalatedIsInt
<1> QED  BY <1>3, <1>4, <1>5 DEF Test!Martingale, Test!AntiMartingale

(* A size is a whole number of units, whatever block computes it.          *)
LEMMA ComputeSizeIsInt ==
    ASSUME NEW c \in Contexts, NEW p, Test!IsSizing(p)
    PROVE  Test!ComputeSize(c, p) \in Int
<1>1. CASE p.id = "flat"  BY <1>1, FlatIsInt DEF Test!ComputeSize
<1>2. CASE p.id = "pctOfEquity"  BY <1>2, PctIsInt DEF Test!ComputeSize
<1>3. CASE p.id = "pctOfInitial"  BY <1>3, PctIsInt DEF Test!ComputeSize
<1>4. CASE p.id = "atrRisk"  BY <1>4, AtrRiskIsInt DEF Test!ComputeSize
<1>5. CASE p.id = "volTargetSizing"  BY <1>5, VolTargetIsInt DEF Test!ComputeSize
<1>6. CASE p.id = "fixedFractional"  BY <1>6, FixedFractionalIsInt DEF Test!ComputeSize
<1>7. CASE p.id = "kelly"  BY <1>7, KellyIsInt DEF Test!ComputeSize
<1>8. CASE p.id = "martingale"  BY <1>8, StreakSizesAreInt DEF Test!ComputeSize
<1>9. CASE p.id = "antiMartingale"  BY <1>9, StreakSizesAreInt DEF Test!ComputeSize
<1>10. CASE p.id = "equityCurveTrading"  BY <1>10, EquityCurveIsInt DEF Test!ComputeSize
<1> QED
  BY <1>1, <1>2, <1>3, <1>4, <1>5, <1>6, <1>7, <1>8, <1>9, <1>10 DEF Test!IsSizing

-----------------------------------------------------------------------------
(* The account.                                                            *)

SubUnits == [units : Int, closed : BOOLEAN, target : Int]
Positions == [dir : {1, -1, 0}, price : Int, opened : Int, atr : Int, subs : Seq(SubUnits),
              triggered : BOOLEAN, tp1 : Int]
Accounts == [equity : Nat, peak : Int, maxDD : Int, pos : Positions, pendingEntry : {1, -1, 0},
             pendingClose : {Test!NoSignal, "SL", "Time", "Reversal", "Structural"},
             trades : Int, positions : Int, profit : Int, loss : Int, base : Nat \cup {-1},
             stats : Stats, atr : Int, floored : BOOLEAN]

(* The books in bar n of a spec whose fitness region begins at start: from *)
(* the first bar of the region on, equity and counted trades fit together, *)
(* and the drawdown is at least what has been lost since then.             *)
Booked(a, start, n) ==
    /\ a.base # -1 <=> n >= start
    /\ a.base = -1 => a.profit = 0 /\ a.loss = 0
    /\ a.base # -1 => /\ a.floored \/ a.equity - a.base = a.profit - a.loss
                      /\ a.base - a.equity <= a.maxDD
                      /\ a.base <= a.peak

(* What a change of the subs leaves alone.                                 *)
SameButSubs(a, b) ==
    /\ b.pendingEntry = a.pendingEntry /\ b.pendingClose = a.pendingClose
    /\ b.base = a.base /\ b.atr = a.atr /\ b.positions = a.positions
    /\ b.pos.dir = a.pos.dir /\ b.pos.price = a.pos.price /\ b.pos.opened = a.pos.opened
    /\ b.pos.atr = a.pos.atr /\ b.pos.triggered = a.pos.triggered /\ b.pos.tp1 = a.pos.tp1
    /\ Len(b.pos.subs) = Len(a.pos.subs)

LEMMA PnlIsInt ==
    ASSUME NEW q \in Positions, NEW units \in Int, NEW exit \in Int
    PROVE  Test!Pnl(q, units, exit) \in Int
<1>0. CommissionPct \in Int /\ q.dir \in Int /\ q.price \in Int  BY CostsAssumption DEF Positions
<1>1. 100 * units * q.dir \in Int /\ exit - q.price \in Int  BY <1>0, Product
<1>2. 100 * units * q.dir * (exit - q.price) \in Int  BY <1>1, Product
<1>3. CommissionPct * units \in Int  BY <1>0, Product
<1>4. CommissionPct * units * q.price \in Int /\ CommissionPct * units * exit \in Int
  BY <1>0, <1>3, Product
<1> QED  BY <1>2, <1>4 DEF Test!Pnl, Test!Commission

LEMMA MaxBounds ==
    ASSUME NEW x \in Int, NEW y \in Int
    PROVE  /\ Test!SizeMax(x, y) \in Int /\ Test!SizeMax(x, y) >= x /\ Test!SizeMax(x, y) >= y
           /\ y \in Nat => Test!SizeMax(x, y) \in Nat
           /\ x \in Nat => Test!SizeMax(x, y) \in Nat
  BY DEF Test!SizeMax

LEMMA DrawnType ==
    ASSUME NEW a \in Accounts, NEW value \in Int
    PROVE  /\ Test!Drawn(a, value) \in Accounts
           /\ Test!Drawn(a, value) = [a EXCEPT !.peak = Test!Drawn(a, value).peak,
                                               !.maxDD = Test!Drawn(a, value).maxDD]
           /\ Test!Drawn(a, value).peak >= a.peak /\ Test!Drawn(a, value).maxDD >= a.maxDD
           /\ Test!Drawn(a, value).maxDD >= a.peak - value
<1> DEFINE peak == Test!SizeMax(a.peak, value)
           dd == Test!SizeMax(a.maxDD, peak - value)
<1>0. a.peak \in Int /\ a.maxDD \in Int  BY DEF Accounts
<1>1. peak \in Int /\ peak >= a.peak /\ dd \in Int /\ dd >= a.maxDD /\ dd >= a.peak - value
  <2>1. peak \in Int /\ peak >= a.peak  BY <1>0, MaxBounds
  <2>2. peak - value \in Int  BY <2>1
  <2> HIDE DEF peak
  <2>3. dd \in Int /\ dd >= a.maxDD /\ dd >= peak - value  BY <1>0, <2>2, MaxBounds
  <2> QED  BY <1>0, <2>1, <2>3
<1>2. Test!Drawn(a, value) = [a EXCEPT !.peak = peak, !.maxDD = dd]  BY DEF Test!Drawn
<1> HIDE DEF peak, dd
<1>3. /\ [a EXCEPT !.peak = peak, !.maxDD = dd] \in Accounts
      /\ [a EXCEPT !.peak = peak, !.maxDD = dd].peak = peak
      /\ [a EXCEPT !.peak = peak, !.maxDD = dd].maxDD = dd
  BY <1>1 DEF Accounts
<1> QED  BY <1>1, <1>2, <1>3

(* A trade enters the account and, from the first bar of the fitness       *)
(* region on, the books.                                                   *)
LEMMA CloseSubType ==
    ASSUME NEW a \in Accounts, NEW sp, Test!IsSizing(sp.sizing), NEW s \in 1 .. Len(a.pos.subs),
           NEW exit \in Int, NEW n \in Int, sp.fitnessStart \in Int,
           Booked(a, sp.fitnessStart, n)
    PROVE  /\ Test!CloseSub(a, sp, s, exit, n) \in Accounts
           /\ Booked(Test!CloseSub(a, sp, s, exit, n), sp.fitnessStart, n)
           /\ SameButSubs(a, Test!CloseSub(a, sp, s, exit, n))
<1> DEFINE pnl == Test!Pnl(a.pos, a.pos.subs[s].units, exit)
           counted == n >= sp.fitnessStart
           equity == Test!SizeMax(0, a.equity + pnl)
           fl == a.floored \/ a.equity + pnl < 0
           tr == IF counted THEN a.trades + 1 ELSE a.trades
           pr == IF counted /\ pnl > 0 THEN a.profit + pnl ELSE a.profit
           lo == IF counted /\ pnl <= 0 THEN a.loss - pnl ELSE a.loss
           st == IF Test!ReadsStats(sp.sizing) THEN Test!WithTrade(a.stats, pnl, equity) ELSE a.stats
           subs == [a.pos.subs EXCEPT ![s].closed = TRUE]
           q == [a.pos EXCEPT !.subs = subs]
           c == [a EXCEPT !.equity = equity, !.pos = q, !.floored = fl, !.trades = tr, !.profit = pr,
                          !.loss = lo, !.stats = st]
<1>0. a.pos \in Positions /\ a.pos.subs \in Seq(SubUnits) /\ a.pos.subs[s] \in SubUnits
  <2>1. a.pos \in Positions  BY DEF Accounts
  <2>2. a.pos.subs \in Seq(SubUnits)  BY <2>1 DEF Positions
  <2> QED  BY <2>1, <2>2
<1>1. CASE a.pos.subs[s].closed
  <2>1. Test!CloseSub(a, sp, s, exit, n) = a  BY <1>1 DEF Test!CloseSub
  <2> QED  BY <2>1 DEF SameButSubs
<1>2. CASE ~ a.pos.subs[s].closed
  <2>1. a.pos \in Positions /\ a.pos.subs \in Seq(SubUnits) /\ a.pos.subs[s] \in SubUnits
    BY <1>0
  <2>2. pnl \in Int
    <3>1. a.pos.subs[s].units \in Int  BY <2>1 DEF SubUnits
    <3> QED  BY <2>1, <3>1, PnlIsInt
  <2>3. Test!CloseSub(a, sp, s, exit, n) = Test!Drawn(c, equity)
    BY <1>2 DEF Test!CloseSub
  <2> HIDE DEF pnl
  <2>4. /\ a.equity \in Nat /\ a.trades \in Int /\ a.profit \in Int /\ a.loss \in Int
        /\ a.floored \in BOOLEAN /\ a.stats \in Stats
    BY DEF Accounts
  <2>5. equity \in Nat /\ (equity = a.equity + pnl \/ fl)
    BY <2>2, <2>4 DEF Test!SizeMax
  <2>6. tr \in Int /\ pr \in Int /\ lo \in Int /\ fl \in BOOLEAN  BY <2>2, <2>4
  <2>7. st \in Stats
    <3>1. equity \in Int  BY <2>5
    <3> HIDE DEF equity
    <3> QED  BY <2>2, <2>4, <3>1, WithTradeType
  <2>8. subs \in Seq(SubUnits) /\ Len(subs) = Len(a.pos.subs)
    <3>1. [a.pos.subs[s] EXCEPT !.closed = TRUE] \in SubUnits  BY <2>1 DEF SubUnits
    <3> QED  BY <2>1, <3>1
  <2>9. (a.floored => fl) /\ pr - lo = IF counted THEN a.profit - a.loss + pnl ELSE a.profit - a.loss
    BY <2>2, <2>4
  <2>10. ~ counted => pr = a.profit /\ lo = a.loss  OBVIOUS
  <2> HIDE DEF subs, fl, tr, pr, lo, st, equity
  <2>11. q \in Positions /\ q.subs = subs /\ SameButSubs(a, [a EXCEPT !.pos = q])
    <3>1. q = [a.pos EXCEPT !.subs = subs]  OBVIOUS
    <3>2. q \in Positions /\ q.subs = subs  BY <2>1, <2>8, <3>1 DEF Positions
    <3>3. /\ q.dir = a.pos.dir /\ q.price = a.pos.price /\ q.opened = a.pos.opened
          /\ q.atr = a.pos.atr /\ q.triggered = a.pos.triggered /\ q.tp1 = a.pos.tp1
      BY <2>1, <3>1 DEF Positions
    <3> HIDE DEF q
    <3> QED  BY <2>8, <3>2, <3>3 DEF SameButSubs, Accounts
  <2> HIDE DEF q
  <2>12. /\ c \in Accounts /\ c.equity = equity /\ c.pos = q /\ c.floored = fl
         /\ c.profit = pr /\ c.loss = lo /\ c.base = a.base /\ c.peak = a.peak /\ c.maxDD = a.maxDD
         /\ c.pendingEntry = a.pendingEntry /\ c.pendingClose = a.pendingClose
         /\ c.atr = a.atr /\ c.positions = a.positions
    BY <2>5, <2>6, <2>7, <2>11 DEF Accounts
  <2> HIDE DEF c
  <2> DEFINE d == Test!Drawn(c, equity)
  <2>13. /\ d \in Accounts /\ d = [c EXCEPT !.peak = d.peak, !.maxDD = d.maxDD]
         /\ d.peak >= c.peak /\ d.maxDD >= c.maxDD /\ d.maxDD >= c.peak - equity
    <3>1. equity \in Int  BY <2>5
    <3> QED  BY <2>12, <3>1, DrawnType
  <2> HIDE DEF d
  <2>14. /\ d.equity = equity /\ d.pos = q /\ d.floored = fl /\ d.profit = pr /\ d.loss = lo
         /\ d.base = a.base /\ d.pendingEntry = a.pendingEntry /\ d.pendingClose = a.pendingClose
         /\ d.atr = a.atr /\ d.positions = a.positions
    <3> DEFINE e == [c EXCEPT !.peak = d.peak, !.maxDD = d.maxDD]
    <3>1. /\ e.equity = c.equity /\ e.pos = c.pos /\ e.floored = c.floored /\ e.profit = c.profit
          /\ e.loss = c.loss /\ e.base = c.base /\ e.pendingEntry = c.pendingEntry
          /\ e.pendingClose = c.pendingClose /\ e.atr = c.atr /\ e.positions = c.positions
      BY <2>12 DEF Accounts
    <3>2. d = e  BY <2>13
    <3> HIDE DEF e
    <3> QED  BY <2>12, <3>1, <3>2
  <2>15. SameButSubs(a, d)
    <3>1. [a EXCEPT !.pos = q].pos = q  BY DEF Accounts
    <3> QED  BY <2>11, <2>14, <3>1 DEF SameButSubs
  <2>16. Booked(d, sp.fitnessStart, n)
    <3>1. d.base # -1 <=> n >= sp.fitnessStart  BY <2>14 DEF Booked
    <3>2. d.base = -1 => d.profit = 0 /\ d.loss = 0
      BY <2>10, <2>14, <3>1 DEF Booked
    <3>3. ASSUME d.base # -1
          PROVE  /\ d.floored \/ d.equity - d.base = d.profit - d.loss
                 /\ d.base - d.equity <= d.maxDD /\ d.base <= d.peak
      <4>1. /\ counted /\ a.base \in Int /\ a.peak \in Int /\ a.base <= a.peak
            /\ a.floored \/ a.equity - a.base = a.profit - a.loss
        <5>1. counted /\ a.base # -1  BY <2>14, <3>1, <3>3
        <5>2. a.base \in Nat \cup {-1} /\ a.peak \in Int  BY DEF Accounts
        <5> QED  BY <5>1, <5>2 DEF Booked
      <4>2. d.peak \in Int /\ d.maxDD \in Int  BY <2>13 DEF Accounts
      <4>3. d.base <= d.peak  BY <2>12, <2>13, <2>14, <4>1, <4>2
      <4>4. d.base - d.equity <= d.maxDD  BY <2>5, <2>12, <2>13, <2>14, <4>1, <4>2
      <4>5. fl \/ equity - a.base = pr - lo
        <5>1. CASE fl  BY <5>1
        <5>2. CASE ~fl
          <6>1. ~ a.floored  BY <2>6, <5>2, <2>9
          <6>2. equity = a.equity + pnl  BY <2>5, <5>2
          <6>3. pr - lo = a.profit - a.loss + pnl  BY <2>9, <4>1
          <6>4. a.equity - a.base = a.profit - a.loss  BY <4>1, <6>1
          <6>5. a.equity \in Int /\ pnl \in Int  BY <2>2, <2>4
          <6> QED  BY <4>1, <6>2, <6>3, <6>4, <6>5
        <5> QED  BY <5>1, <5>2
      <4> QED  BY <2>14, <4>3, <4>4, <4>5
    <3> QED  BY <3>1, <3>2, <3>3 DEF Booked
  <2> QED  BY <2>3, <2>13, <2>15, <2>16 DEF d
<1>3. a.pos.subs[s].closed \in BOOLEAN  BY <1>0 DEF SubUnits
<1> QED  BY <1>1, <1>2

LEMMA CloseSubsStayIn ==
    ASSUME NEW D, NEW a \in D, Len(a.pos.subs) \in Nat, NEW sp, NEW exits, NEW n,
           \A b \in D : \A s \in 1 .. Len(a.pos.subs) :
               s \in DOMAIN exits => Test!CloseSub(b, sp, s, exits[s], n) \in D
    PROVE  Test!CloseSubs(a, sp, exits, n) \in D
<1> DEFINE Does(b, s) == IF s \in DOMAIN exits THEN Test!CloseSub(b, sp, s, exits[s], n) ELSE b
           Closes(f) == f = [s \in 0 .. Len(a.pos.subs) |-> IF s = 0 THEN a ELSE Does(f[s - 1], s)]
           done == CHOOSE f : Closes(f)
           step == [x \in (1 .. Len(a.pos.subs)) \X D |-> Does(x[2], x[1])]
<1>1. \A b \in D : \A s \in 1 .. Len(a.pos.subs) : Does(b, s) \in D  OBVIOUS
<1>2. Test!CloseSubs(a, sp, exits, n) = done[Len(a.pos.subs)]  BY DEF Test!CloseSubs
<1> HIDE DEF Does
<1>3. PICK m \in Nat : m = Len(a.pos.subs)  OBVIOUS
<1>4. step \in Steps(m, D)  BY <1>1, <1>3 DEF Steps
<1>5. PICK f \in [0 .. m -> D] : IsStages(m, a, step, f)
  <2> HIDE DEF step
  <2> QED  BY <1>4, StagesExist
<1>6. ASSUME NEW s \in 0 .. m PROVE f[s] = IF s = 0 THEN a ELSE Does(f[s - 1], s)
  <2>1. CASE s = 0  BY <1>5, <2>1 DEF IsStages
  <2>2. CASE s # 0
    <3>1. s \in 1 .. m /\ s - 1 \in 0 .. m  BY <1>3, <2>2
    <3>2. f[s] = step[<<s, f[s - 1]>>] /\ f[s - 1] \in D  BY <1>5, <3>1 DEF IsStages
    <3>3. step[<<s, f[s - 1]>>] = Does(f[s - 1], s)  BY <1>3, <3>1, <3>2
    <3> QED  BY <3>1, <3>2, <3>3, <2>2
  <2> QED  BY <2>1, <2>2
<1>7. f = [s \in 0 .. m |-> f[s]]  BY <1>5
<1>8. Closes(f)
  <2> HIDE DEF step
  <2> QED  BY <1>3, <1>6, <1>7
<1>9. Closes(done)
  <2> HIDE DEF Closes, step
  <2> QED  BY <1>8
<1> HIDE DEF done, step
<1>10. done[0] = a /\ \A s \in 1 .. m : done[s] = Does(done[s - 1], s)
  <2>1. \A s \in 0 .. m : done[s] = IF s = 0 THEN a ELSE Does(done[s - 1], s)  BY <1>3, <1>9
  <2> QED  BY <1>3, <2>1
<1>11. \A s \in 0 .. m : done[s] \in D
  <2>1. done[0] \in D /\ \A s \in 1 .. m : done[s - 1] \in D => done[s] \in D
    BY <1>1, <1>3, <1>10
  <2> QED  BY <2>1, StagesStayIn
<1> QED  BY <1>2, <1>3, <1>11

LEMMA CloseSubsType ==
    ASSUME NEW a \in Accounts, NEW sp, Test!IsSizing(sp.sizing), NEW exits,
           \A s \in DOMAIN exits : exits[s] \in Int, NEW n \in Int, sp.fitnessStart \in Int,
           Booked(a, sp.fitnessStart, n)
    PROVE  /\ Test!CloseSubs(a, sp, exits, n) \in Accounts
           /\ Booked(Test!CloseSubs(a, sp, exits, n), sp.fitnessStart, n)
           /\ SameButSubs(a, Test!CloseSubs(a, sp, exits, n))
<1> DEFINE D == {b \in Accounts : Booked(b, sp.fitnessStart, n) /\ SameButSubs(a, b)}
<1>1. a \in D  BY DEF SameButSubs
<1>2. ASSUME NEW b \in D, NEW s \in 1 .. Len(a.pos.subs), s \in DOMAIN exits
      PROVE  Test!CloseSub(b, sp, s, exits[s], n) \in D
  <2>1. b \in Accounts /\ Booked(b, sp.fitnessStart, n) /\ SameButSubs(a, b)  OBVIOUS
  <2>2. s \in 1 .. Len(b.pos.subs) /\ exits[s] \in Int  BY <1>2, <2>1 DEF SameButSubs
  <2>3. PICK e \in Int : e = exits[s]  BY <2>2
  <2>4. /\ Test!CloseSub(b, sp, s, e, n) \in Accounts
        /\ Booked(Test!CloseSub(b, sp, s, e, n), sp.fitnessStart, n)
        /\ SameButSubs(b, Test!CloseSub(b, sp, s, e, n))
    BY <2>1, <2>2, CloseSubType
  <2>5. SameButSubs(a, Test!CloseSub(b, sp, s, e, n))  BY <2>1, <2>4 DEF SameButSubs
  <2> QED  BY <2>3, <2>4, <2>5
<1>3. Len(a.pos.subs) \in Nat
  <2>1. a.pos.subs \in Seq(SubUnits)  BY DEF Accounts, Positions
  <2> QED  BY <2>1
<1>4. Test!CloseSubs(a, sp, exits, n) \in D
  <2> HIDE DEF D
  <2> QED  BY <1>1, <1>2, <1>3, CloseSubsStayIn
<1> QED  BY <1>4

LEMMA FieldsOfAccount ==
    ASSUME NEW a \in Accounts
    PROVE  /\ a.equity \in Nat /\ a.peak \in Int /\ a.maxDD \in Int /\ a.pos \in Positions
           /\ a.trades \in Int /\ a.positions \in Int /\ a.profit \in Int /\ a.loss \in Int
           /\ a.base \in Int /\ a.stats \in Stats /\ a.atr \in Int
           /\ a.pos.dir \in {1, -1, 0} /\ a.pos.price \in Int /\ a.pos.opened \in Int
           /\ a.pos.atr \in Int /\ a.pos.subs \in Seq(SubUnits) /\ a.pos.triggered \in BOOLEAN
           /\ a.pos.tp1 \in Int /\ DOMAIN a.pos.subs = 1 .. Len(a.pos.subs) /\ Len(a.pos.subs) \in Nat
<1>1. /\ a.equity \in Nat /\ a.peak \in Int /\ a.maxDD \in Int /\ a.pos \in Positions
      /\ a.trades \in Int /\ a.positions \in Int /\ a.profit \in Int /\ a.loss \in Int
      /\ a.base \in Int /\ a.stats \in Stats /\ a.atr \in Int
  <2>1. /\ a.equity \in Nat /\ a.peak \in Int /\ a.maxDD \in Int /\ a.pos \in Positions
        /\ a.base \in Nat \cup {-1} /\ a.stats \in Stats /\ a.atr \in Int
    BY DEF Accounts
  <2>2. a.trades \in Int /\ a.positions \in Int /\ a.profit \in Int /\ a.loss \in Int
    BY DEF Accounts
  <2> QED  BY <2>1, <2>2
<1>2. /\ a.pos.dir \in {1, -1, 0} /\ a.pos.price \in Int /\ a.pos.opened \in Int
      /\ a.pos.atr \in Int /\ a.pos.subs \in Seq(SubUnits) /\ a.pos.triggered \in BOOLEAN
      /\ a.pos.tp1 \in Int
  BY <1>1 DEF Positions
<1>3. DOMAIN a.pos.subs = 1 .. Len(a.pos.subs) /\ Len(a.pos.subs) \in Nat  BY <1>2
<1> QED  BY <1>1, <1>2, <1>3

LEMMA NoPositionType == Test!NoPosition \in Positions
<1>1. << >> \in Seq(SubUnits)  OBVIOUS
<1> QED  BY <1>1 DEF Test!NoPosition, Test!NoDir, Test!Unset, Positions

LEMMA CloseAllType ==
    ASSUME NEW a \in Accounts, NEW sp, Test!IsSizing(sp.sizing), NEW exit \in Int, NEW n \in Int,
           sp.fitnessStart \in Int, Booked(a, sp.fitnessStart, n)
    PROVE  /\ Test!CloseAll(a, sp, exit, n) \in Accounts
           /\ Booked(Test!CloseAll(a, sp, exit, n), sp.fitnessStart, n)
           /\ Test!CloseAll(a, sp, exit, n).pos = Test!NoPosition
           /\ Test!CloseAll(a, sp, exit, n).pendingClose = a.pendingClose
           /\ Test!CloseAll(a, sp, exit, n).pendingEntry = a.pendingEntry
           /\ Test!CloseAll(a, sp, exit, n).base = a.base
<1> DEFINE exits == [s \in DOMAIN a.pos.subs |-> exit]
           b == Test!CloseSubs(a, sp, exits, n)
<1>1. \A s \in DOMAIN exits : exits[s] \in Int  OBVIOUS
<1>2. b \in Accounts /\ Booked(b, sp.fitnessStart, n) /\ SameButSubs(a, b)
  <2> HIDE DEF exits
  <2> QED  BY <1>1, CloseSubsType
<1>3. Test!CloseAll(a, sp, exit, n) = [b EXCEPT !.pos = Test!NoPosition]  BY DEF Test!CloseAll
<1> HIDE DEF b
<1>4. /\ [b EXCEPT !.pos = Test!NoPosition] \in Accounts
      /\ [b EXCEPT !.pos = Test!NoPosition].pos = Test!NoPosition
      /\ [b EXCEPT !.pos = Test!NoPosition].pendingClose = b.pendingClose
      /\ [b EXCEPT !.pos = Test!NoPosition].pendingEntry = b.pendingEntry
      /\ [b EXCEPT !.pos = Test!NoPosition].base = b.base
      /\ Booked([b EXCEPT !.pos = Test!NoPosition], sp.fitnessStart, n)
  BY <1>2, NoPositionType DEF Accounts, Booked
<1> QED  BY <1>2, <1>3, <1>4 DEF SameButSubs

(* The first bar of the fitness region opens the books.                    *)
LEMMA EnterRegionType ==
    ASSUME NEW a \in Accounts, NEW sp, sp.fitnessStart \in Int, NEW n \in Int,
           Booked(a, sp.fitnessStart, n) \/ (a.base = -1 /\ a.profit = 0 /\ a.loss = 0)
    PROVE  /\ Test!EnterRegion(a, sp, n) \in Accounts
           /\ Booked(Test!EnterRegion(a, sp, n), sp.fitnessStart, n)
           /\ Test!EnterRegion(a, sp, n).pos = a.pos
           /\ Test!EnterRegion(a, sp, n).pendingClose = a.pendingClose
           /\ Test!EnterRegion(a, sp, n).pendingEntry = a.pendingEntry
<1> DEFINE b == [a EXCEPT !.base = a.equity, !.peak = a.equity, !.maxDD = 0]
<1>0. a.equity \in Nat  BY DEF Accounts
<1>1. CASE a.base = -1 /\ n >= sp.fitnessStart
  <2>1. Test!EnterRegion(a, sp, n) = b  BY <1>1 DEF Test!EnterRegion, Test!Unset
  <2>2. a.profit = 0 /\ a.loss = 0  BY <1>1 DEF Booked
  <2>3. /\ b \in Accounts /\ b.base = a.equity /\ b.equity = a.equity /\ b.peak = a.equity
        /\ b.maxDD = 0 /\ b.profit = 0 /\ b.loss = 0 /\ b.pos = a.pos
        /\ b.pendingClose = a.pendingClose /\ b.pendingEntry = a.pendingEntry
    <3>1. PICK e \in Nat : e = a.equity  BY <1>0
    <3>2. b = [a EXCEPT !.base = e, !.peak = e, !.maxDD = 0]  BY <3>1
    <3>3. b \in Accounts
      <4>1. e \in Int /\ e \in Nat \cup {-1} /\ 0 \in Int  OBVIOUS
      <4> QED  BY <3>2, <4>1 DEF Accounts
    <3>4. /\ b.base = e /\ b.equity = a.equity /\ b.peak = e /\ b.maxDD = 0
          /\ b.profit = a.profit /\ b.loss = a.loss /\ b.pos = a.pos
          /\ b.pendingClose = a.pendingClose /\ b.pendingEntry = a.pendingEntry
      BY <3>2 DEF Accounts
    <3> QED  BY <2>2, <3>1, <3>3, <3>4
  <2> HIDE DEF b
  <2>4. Booked(b, sp.fitnessStart, n)  BY <1>0, <1>1, <2>3 DEF Booked
  <2> QED  BY <2>1, <2>3, <2>4
<1>2. CASE ~(a.base = -1 /\ n >= sp.fitnessStart)
  <2>1. Test!EnterRegion(a, sp, n) = a  BY <1>2 DEF Test!EnterRegion, Test!Unset
  <2>2. Booked(a, sp.fitnessStart, n)  BY <1>2 DEF Booked
  <2> QED  BY <2>1, <2>2
<1> QED  BY <1>1, <1>2

LEMMA ExecuteCloseType ==
    ASSUME NEW a \in Accounts, NEW sp, Test!IsSizing(sp.sizing), sp.fitnessStart \in Int,
           NEW n \in Int, NEW bar, bar.open \in Int, Booked(a, sp.fitnessStart, n)
    PROVE  /\ Test!ExecuteClose(a, sp, n, bar) \in Accounts
           /\ Booked(Test!ExecuteClose(a, sp, n, bar), sp.fitnessStart, n)
           /\ Test!ExecuteClose(a, sp, n, bar).pendingClose = Test!NoSignal
           /\ Test!ExecuteClose(a, sp, n, bar).pendingEntry = a.pendingEntry
           /\ Test!ExecuteClose(a, sp, n, bar).pos =
                  IF a.pendingClose # Test!NoSignal THEN IF a.pos.dir # 0 THEN Test!NoPosition ELSE a.pos ELSE a.pos
<1> DEFINE exit == bar.open - a.pos.dir * Slippage
           b == IF a.pendingClose # Test!NoSignal /\ Test!IsOpen(a) THEN Test!CloseAll(a, sp, exit, n) ELSE a
<1>1. exit \in Int
  <2>1. a.pos.dir \in Int /\ Slippage \in Int  BY FieldsOfAccount, CostsAssumption
  <2> QED  BY <2>1, Product
<1> HIDE DEF exit
<1>2. /\ b \in Accounts /\ Booked(b, sp.fitnessStart, n) /\ b.pendingEntry = a.pendingEntry
      /\ b.pos = IF a.pendingClose # Test!NoSignal THEN IF a.pos.dir # 0 THEN Test!NoPosition ELSE a.pos ELSE a.pos
  <2>1. CASE a.pendingClose # Test!NoSignal /\ a.pos.dir # 0
    <3>1. b = Test!CloseAll(a, sp, exit, n)  BY <2>1 DEF Test!IsOpen, Test!NoDir
    <3> HIDE DEF b
    <3>2. PICK e \in Int : e = exit  BY <1>1
    <3>3. /\ Test!CloseAll(a, sp, e, n) \in Accounts
          /\ Booked(Test!CloseAll(a, sp, e, n), sp.fitnessStart, n)
          /\ Test!CloseAll(a, sp, e, n).pos = Test!NoPosition
          /\ Test!CloseAll(a, sp, e, n).pendingEntry = a.pendingEntry
      BY CloseAllType
    <3> QED  BY <2>1, <3>1, <3>2, <3>3
  <2>2. CASE ~(a.pendingClose # Test!NoSignal /\ a.pos.dir # 0)
    <3>1. b = a  BY <2>2 DEF Test!IsOpen, Test!NoDir
    <3> HIDE DEF b
    <3> QED  BY <2>2, <3>1
  <2> QED  BY <2>1, <2>2
<1>3. Test!ExecuteClose(a, sp, n, bar) = [b EXCEPT !.pendingClose = Test!NoSignal]
  BY DEF Test!ExecuteClose, exit
<1> HIDE DEF b
<1>4. /\ [b EXCEPT !.pendingClose = Test!NoSignal] \in Accounts
      /\ [b EXCEPT !.pendingClose = Test!NoSignal].pendingClose = Test!NoSignal
      /\ [b EXCEPT !.pendingClose = Test!NoSignal].pendingEntry = b.pendingEntry
      /\ [b EXCEPT !.pendingClose = Test!NoSignal].pos = b.pos
      /\ Booked([b EXCEPT !.pendingClose = Test!NoSignal], sp.fitnessStart, n)
  BY <1>2 DEF Accounts, Booked
<1> QED  BY <1>2, <1>3, <1>4

(* The tranches of a position are made of whole units.                     *)
LEMMA SubsType ==
    ASSUME NEW sp \in Specs, NEW atr \in Int, NEW dir \in {1, -1}, NEW fill \in Int, NEW units \in Int
    PROVE  Test!Subs(sp, atr, dir, fill, units) \in Seq(SubUnits)
<1> DEFINE active == Test!Tranches(sp)
           pctSum == Test!PctSum(active)
           Share(k) == (units * active[k].pct) \div pctSum
           shares == [k \in 1 .. Len(active) - 1 |-> Share(k)]
           before == Test!Total(shares)
           Limit(k) == fill + dir * atr * active[k].mult
           one == << [units |-> units, closed |-> FALSE, target |-> 0] >>
           many == [k \in 1 .. Len(active) |->
                       [units  |-> IF k = Len(active) THEN units - before ELSE Share(k),
                        closed |-> FALSE,
                        target |-> Limit(k)]]
<1>1. one \in Seq(SubUnits)
  <2>1. [units |-> units, closed |-> FALSE, target |-> 0] \in SubUnits  BY DEF SubUnits
  <2> QED  BY <2>1
<1>2. ASSUME active # << >> PROVE many \in Seq(SubUnits)
  <2>1. /\ DOMAIN active = 1 .. Len(active) /\ pctSum > 0
        /\ \A k \in DOMAIN active : active[k].pct \in Int /\ active[k].mult \in Int
    BY <1>2, SpecsAssumption
  <2>2. pctSum \in Int
    <3>1. [k \in DOMAIN active |-> active[k].pct] \in Seq(Int)
      <4> HIDE DEF active
      <4>1. [k \in 1 .. Len(active) |-> active[k].pct] \in Seq(Int)  BY <2>1
      <4>2. [k \in DOMAIN active |-> active[k].pct] = [k \in 1 .. Len(active) |-> active[k].pct]
        BY <2>1
      <4> QED  BY <4>1, <4>2
    <3> QED  BY <3>1, TotalIsInt DEF Test!PctSum
  <2> HIDE DEF active, pctSum
  <2>3. Len(active) \in Nat  OBVIOUS
  <2>4. ASSUME NEW k \in 1 .. Len(active) PROVE Share(k) \in Int /\ Limit(k) \in Int
    <3>1. active[k].pct \in Int /\ active[k].mult \in Int  BY <2>1
    <3>2. units * active[k].pct \in Int /\ dir * atr \in Int  BY <3>1, Product
    <3>3. dir * atr * active[k].mult \in Int  BY <3>1, <3>2, Product
    <3> QED  BY <2>1, <2>2, <3>2, <3>3, Quotient
  <2> HIDE DEF Share, Limit
  <2>5. shares \in Seq(Int)
    <3>1. CASE Len(active) = 0
      <4>1. shares = << >>  BY <3>1
      <4>2. << >> \in Seq(Int)  OBVIOUS
      <4> HIDE DEF shares
      <4> QED  BY <4>1, <4>2
    <3>2. CASE Len(active) # 0
      <4>1. Len(active) - 1 \in Nat /\ \A k \in 1 .. Len(active) - 1 : Share(k) \in Int  BY <2>3, <2>4, <3>2
      <4> QED  BY <4>1
    <3> QED  BY <3>1, <3>2
  <2>6. before \in Int
    <3> HIDE DEF shares
    <3> QED  BY <2>5, TotalIsInt
  <2> HIDE DEF before
  <2>7. ASSUME NEW k \in 1 .. Len(active) PROVE many[k] \in SubUnits
    BY <2>4, <2>6 DEF SubUnits
  <2>8. many = [k \in 1 .. Len(active) |-> many[k]]  OBVIOUS
  <2> HIDE DEF many
  <2> QED  BY <2>3, <2>7, <2>8
<1>3. Test!Subs(sp, atr, dir, fill, units) =
          IF "target" \notin sp.exits \/ atr = 0 \/ active = << >> THEN one ELSE many
  BY DEF Test!Subs
<1> HIDE DEF active, one, many
<1> QED  BY <1>1, <1>2, <1>3

(* A fill opens a position of this bar or nothing.                         *)
Opens(a, b, start, dir, n) ==
    /\ b \in Accounts
    /\ Booked(b, start, n)
    /\ b.pendingClose = a.pendingClose
    /\ b.pos # a.pos => b.pos.dir = dir /\ b.pos.opened = n /\ b.pos.triggered = FALSE

LEMMA OpenPositionType ==
    ASSUME NEW a \in Accounts, NEW sp \in Specs, NEW dir \in {1, -1}, NEW fill \in Int, fill > 0,
           NEW n \in Int, Booked(a, sp.fitnessStart, n)
    PROVE  Opens(a, Test!OpenPosition(a, sp, dir, fill, n), sp.fitnessStart, dir, n)
<1> DEFINE ctx == [fill |-> fill, equity |-> a.equity, initial |-> InitialCapital,
                   stop |-> Test!PlanStop(a, sp), atr |-> a.atr, stats |-> a.stats]
           wanted == Test!ComputeSize(ctx, sp.sizing)
           cap == Test!Buys((IF a.equity > 0 THEN a.equity ELSE InitialCapital) * Leverage, fill)
           units == Test!SizeMin(wanted, cap)
           q == [dir |-> dir, price |-> fill, opened |-> n, atr |-> a.atr,
                 subs |-> Test!Subs(sp, a.atr, dir, fill, units), triggered |-> FALSE, tp1 |-> Test!Unset]
           more == IF n >= sp.fitnessStart THEN a.positions + 1 ELSE a.positions
           b == [a EXCEPT !.pos = q, !.positions = more]
<1>1. /\ a.equity \in Nat /\ a.atr \in Int /\ a.stats \in Stats /\ a.positions \in Int
      /\ a.pos \in Positions
  BY FieldsOfAccount
<1>2. Test!IsSizing(sp.sizing) /\ sp.atrSL \in Int /\ sp.fitnessStart \in Int  BY SpecsAssumption
<1>3. Test!PlanStop(a, sp) \in Int
  <2>1. a.atr * sp.atrSL \in Int  BY <1>1, <1>2, Product
  <2> QED  BY <2>1 DEF Test!PlanStop
<1>4. ctx \in Contexts  BY <1>1, <1>3, CostsAssumption DEF Contexts
<1>5. wanted \in Int
  <2> HIDE DEF ctx
  <2> QED  BY <1>2, <1>4, ComputeSizeIsInt
<1>6. cap \in Int
  <2>1. (IF a.equity > 0 THEN a.equity ELSE InitialCapital) \in Int  BY <1>1, CostsAssumption
  <2>2. (IF a.equity > 0 THEN a.equity ELSE InitialCapital) * Leverage \in Int
    BY <2>1, CostsAssumption, Product
  <2> QED  BY <2>2, BuysInt
<1>7. Test!OpenPosition(a, sp, dir, fill, n) = IF units <= 0 THEN a ELSE b
  BY DEF Test!OpenPosition
<1> HIDE DEF wanted, cap
<1>8. units \in Int  BY <1>5, <1>6, MinMaxIsInt
<1> HIDE DEF units
<1>9. Test!Subs(sp, a.atr, dir, fill, units) \in Seq(SubUnits)
  <2>1. PICK u \in Int : u = a.atr  BY <1>1
  <2>2. PICK v \in Int : v = units  BY <1>8
  <2>3. Test!Subs(sp, u, dir, fill, v) \in Seq(SubUnits)  BY SubsType
  <2> QED  BY <2>1, <2>2, <2>3
<1>10. /\ q \in Positions /\ q.dir = dir /\ q.opened = n /\ q.triggered = FALSE
  BY <1>1, <1>9 DEF Positions, Test!Unset
<1>11. more \in Int  BY <1>1, <1>2
<1> HIDE DEF q, more
<1>12. /\ b \in Accounts /\ b.pos = q /\ b.pendingClose = a.pendingClose
       /\ b.base = a.base /\ b.profit = a.profit /\ b.loss = a.loss /\ b.floored = a.floored
       /\ b.equity = a.equity /\ b.maxDD = a.maxDD /\ b.peak = a.peak
  BY <1>10, <1>11 DEF Accounts
<1> HIDE DEF b
<1>13. Booked(b, sp.fitnessStart, n)  BY <1>12 DEF Booked
<1>14. CASE units <= 0  BY <1>7, <1>14 DEF Opens
<1>15. CASE ~(units <= 0)  BY <1>7, <1>10, <1>12, <1>13, <1>15 DEF Opens
<1> QED  BY <1>14, <1>15

Fills(a, b, start, n) ==
    /\ b \in Accounts
    /\ Booked(b, start, n)
    /\ b.pendingClose = Test!NoSignal
    /\ b.pos # a.pos => /\ a.pos.dir = 0 /\ b.pos.dir # 0
                        /\ b.pos.opened = n /\ b.pos.triggered = FALSE

LEMMA ExecuteEntryType ==
    ASSUME NEW a \in Accounts, NEW sp \in Specs, NEW n \in Int, NEW bar, bar.open \in Int,
           Booked(a, sp.fitnessStart, n), a.pendingClose = Test!NoSignal
    PROVE  Fills(a, Test!ExecuteEntry(a, sp, n, bar), sp.fitnessStart, n)
<1> DEFINE fill == bar.open + a.pendingEntry * Slippage
           taken == [a EXCEPT !.pendingEntry = 0]
<1>1. a.pendingEntry \in {1, -1, 0} /\ a.pos \in Positions /\ a.equity \in Nat  BY DEF Accounts
<1>2. fill \in Int
  <2>1. PICK d \in Int : d = a.pendingEntry  BY <1>1
  <2>2. PICK e \in Int : e = Slippage  BY CostsAssumption
  <2>3. d * e \in Int  BY Product
  <2>4. fill = bar.open + d * e  BY <2>1, <2>2
  <2> QED  BY <2>3, <2>4
<1>3. /\ taken \in Accounts /\ Booked(taken, sp.fitnessStart, n) /\ taken.pendingClose = Test!NoSignal
      /\ taken.pos = a.pos
  BY DEF Accounts, Booked
<1>4. Test!ExecuteEntry(a, sp, n, bar) =
          IF a.pendingEntry = 0 THEN a
          ELSE IF a.equity <= 0 THEN taken
          ELSE IF a.pos.dir # 0 THEN a
          ELSE IF fill > 0 THEN Test!OpenPosition(taken, sp, a.pendingEntry, fill, n) ELSE taken
  BY DEF Test!ExecuteEntry, Test!NoDir, Test!IsOpen
<1> HIDE DEF fill, taken
<1>5. CASE a.pendingEntry # 0 /\ ~(a.equity <= 0) /\ ~(a.pos.dir # 0) /\ fill > 0
  <2>1. PICK dir \in {1, -1} : dir = a.pendingEntry  BY <1>1, <1>5
  <2>2. PICK f \in Int : f = fill /\ f > 0  BY <1>2, <1>5
  <2>3. PICK t \in Accounts : t = taken  BY <1>3
  <2> DEFINE b == Test!OpenPosition(t, sp, dir, f, n)
  <2>4. /\ b \in Accounts /\ Booked(b, sp.fitnessStart, n) /\ b.pendingClose = t.pendingClose
        /\ b.pos # t.pos => /\ b.pos.dir = dir /\ b.pos.opened = n /\ b.pos.triggered = FALSE
    <3>1. Booked(t, sp.fitnessStart, n)  BY <1>3, <2>3
    <3>2. f > 0 /\ dir \in {1, -1}  BY <2>2
    <3>3. Opens(t, b, sp.fitnessStart, dir, n)  BY <3>1, <3>2, OpenPositionType
    <3> HIDE DEF b
    <3> QED  BY <3>3 DEF Opens
  <2>5. Test!ExecuteEntry(a, sp, n, bar) = b  BY <1>4, <1>5, <2>1, <2>2, <2>3
  <2>6. t.pos = a.pos /\ t.pendingClose = Test!NoSignal  BY <1>3, <2>3
  <2>7. a.pos.dir = 0 /\ dir # 0  BY <1>5
  <2> HIDE DEF b
  <2> QED  BY <2>4, <2>5, <2>6, <2>7 DEF Fills
<1>6. CASE ~(a.pendingEntry # 0 /\ ~(a.equity <= 0) /\ ~(a.pos.dir # 0) /\ fill > 0)
  <2>1. Test!ExecuteEntry(a, sp, n, bar) \in {a, taken}  BY <1>4, <1>6
  <2> QED  BY <1>3, <2>1 DEF Fills
<1> QED  BY <1>5, <1>6

LEMMA SignalsDiffer == Test!NoSignal # "SL"
  BY Zenon DEF Test!NoSignal

(* Once a stop is queued, no exit is evaluated.                            *)
LEMMA QueuedIsDeaf ==
    ASSUME NEW x, x.pendingClose = "SL", NEW sp
    PROVE  \A slot : ~ Test!Evaluates(x, sp, slot)
<1>1. x.pendingClose # Test!NoSignal  BY SignalsDiffer
<1> QED  BY Zenon, <1>1 DEF Test!Evaluates

-----------------------------------------------------------------------------
(* The parts of a bar.                                                     *)

(* The account inside bar n: a stop is armed on an open position of a spec *)
(* with a hard stop, and no position is from a later bar.                  *)
Armed(a, sp) == a.pos.dir # 0 /\ "hardStop" \in sp.exits /\ a.pos.atr # 0
Sound(a, sp, n) ==
    /\ a \in Accounts
    /\ Booked(a, sp.fitnessStart, n)
    /\ a.pos.triggered => Armed(a, sp)
    /\ a.pos.opened <= n

(* Exits leave the position or go flat; a queued close stays queued.       *)
Leaves(a, b) ==
    /\ b.pos.dir = 0 \/ (b.pos.dir = a.pos.dir /\ b.pos.opened = a.pos.opened)
    /\ a.pendingClose # Test!NoSignal => b.pendingClose = a.pendingClose

LEMMA LeavesTransitive ==
    ASSUME NEW a, NEW b, NEW c, Leaves(a, b), Leaves(b, c)
    PROVE  Leaves(a, c)
  BY DEF Leaves

LEMMA FlatIsSound ==
    ASSUME NEW a \in Accounts, NEW sp, NEW n \in Nat, Booked(a, sp.fitnessStart, n),
           a.pos = Test!NoPosition
    PROVE  Sound(a, sp, n) /\ a.pos.dir = 0
<1>1. a.pos.triggered = FALSE /\ a.pos.opened = 0 /\ a.pos.dir = 0
  BY DEF Test!NoPosition, Test!NoDir
<1> QED  BY <1>1 DEF Sound

LEMMA EmergencyPriceIsInt ==
    ASSUME NEW a \in Accounts, NEW sp \in Specs
    PROVE  /\ Test!EmergencyPrice(a.pos, sp) \in Int
           /\ Test!EmergencyPrice(a.pos, sp) - a.pos.dir * Slippage \in Int
<1>1. /\ a.pos.dir \in Int /\ a.pos.price \in Int /\ sp.emergencyPct \in Int /\ Slippage \in Int
  BY FieldsOfAccount, SpecsAssumption, CostsAssumption
<1>2. a.pos.dir * sp.emergencyPct \in Int /\ a.pos.dir * Slippage \in Int  BY <1>1, Product
<1>3. 100 - a.pos.dir * sp.emergencyPct \in Int  BY <1>2
<1>4. a.pos.price * (100 - a.pos.dir * sp.emergencyPct) \in Int  BY <1>1, <1>3, Product
<1>5. Test!EmergencyPrice(a.pos, sp) \in Int  BY <1>4, Quotient DEF Test!EmergencyPrice
<1> QED  BY <1>2, <1>5

LEMMA HardStopType ==
    ASSUME NEW a, NEW sp \in Specs, NEW n \in Nat, NEW bar, Sound(a, sp, n)
    PROVE  /\ Sound(Test!HardStop(a, sp, n, bar), sp, n)
           /\ Leaves(a, Test!HardStop(a, sp, n, bar))
           /\ a.pos.triggered /\ a.pendingClose = Test!NoSignal =>
                  \/ Test!HardStop(a, sp, n, bar).pos.dir = 0
                  \/ Test!HardStop(a, sp, n, bar).pendingClose = "SL"
<1> DEFINE esl == Test!EmergencyPrice(a.pos, sp)
           exit == esl - a.pos.dir * Slippage
           beyond == 1000 * a.pos.dir * bar.close <= a.pos.dir * Test!StopPrice1000(a.pos, sp, n)
           out == Test!CloseAll(a, sp, exit, n)
           queued == [a EXCEPT !.pos.triggered = FALSE, !.pendingClose = "SL"]
           armed == [a EXCEPT !.pos.triggered = beyond]
           skips == ~ Test!Evaluates(a, sp, "hardStop") \/ a.pos.atr = 0
           b == Test!HardStop(a, sp, n, bar)
<1>1. /\ a \in Accounts /\ Booked(a, sp.fitnessStart, n) /\ (a.pos.triggered => Armed(a, sp))
      /\ a.pos.opened <= n
  BY DEF Sound
<1>2. Test!IsSizing(sp.sizing) /\ sp.fitnessStart \in Int  BY SpecsAssumption
<1>3. Test!Evaluates(a, sp, "hardStop") <=>
          "hardStop" \in sp.exits /\ a.pos.dir # 0 /\ a.pendingClose = Test!NoSignal
  BY DEF Test!Evaluates, Test!IsOpen, Test!NoDir
<1>4. b = IF skips THEN a
          ELSE IF Test!Falls(a.pos, bar, esl) THEN out
          ELSE IF a.pos.triggered THEN queued ELSE armed
  BY DEF Test!HardStop
<1>5. beyond \in BOOLEAN  OBVIOUS
<1> SUFFICES /\ Sound(b, sp, n) /\ Leaves(a, b)
             /\ a.pos.triggered /\ a.pendingClose = Test!NoSignal =>
                    b.pos.dir = 0 \/ b.pendingClose = "SL"
  OBVIOUS
<1>6. CASE skips
  <2>1. b = a  BY <1>4, <1>6
  <2>2. ~(a.pos.triggered /\ a.pendingClose = Test!NoSignal)  BY <1>1, <1>3, <1>6 DEF Armed
  <2> HIDE DEF b
  <2> QED  BY <2>1, <2>2 DEF Leaves
<1>7. CASE ~ skips
  <2>0. "hardStop" \in sp.exits /\ a.pos.dir # 0 /\ a.pendingClose = Test!NoSignal /\ a.pos.atr # 0
    BY <1>3, <1>7
  <2>1. CASE Test!Falls(a.pos, bar, esl)
    <3>1. b = out  BY <1>4, <1>7, <2>1
    <3>2. PICK e \in Int : e = exit  BY <1>1, EmergencyPriceIsInt
    <3>3. /\ out \in Accounts /\ Booked(out, sp.fitnessStart, n) /\ out.pos = Test!NoPosition
          /\ out.pendingClose = a.pendingClose
      <4>1. out = Test!CloseAll(a, sp, e, n)  BY <3>2
      <4> QED  BY <1>1, <1>2, <4>1, CloseAllType
    <3> HIDE DEF out, b
    <3>4. Sound(out, sp, n) /\ out.pos.dir = 0  BY <3>3, FlatIsSound
    <3> QED  BY <3>1, <3>3, <3>4 DEF Leaves
  <2>2. CASE ~ Test!Falls(a.pos, bar, esl) /\ a.pos.triggered
    <3>1. b = queued  BY <1>4, <1>7, <2>2
    <3>2. /\ queued \in Accounts /\ queued.pendingClose = "SL" /\ queued.pos.dir = a.pos.dir
          /\ queued.pos.opened = a.pos.opened /\ queued.pos.triggered = FALSE
      BY <1>1 DEF Accounts, Positions
    <3>3. Booked(queued, sp.fitnessStart, n)  BY <1>1 DEF Booked, Accounts
    <3> HIDE DEF queued, b
    <3> QED  BY <1>1, <2>0, <3>1, <3>2, <3>3 DEF Leaves, Sound
  <2>3. CASE ~ Test!Falls(a.pos, bar, esl) /\ ~ a.pos.triggered
    <3>1. b = armed  BY <1>4, <1>7, <2>3
    <3> HIDE DEF beyond, b
    <3>2. /\ armed \in Accounts /\ armed.pendingClose = a.pendingClose /\ armed.pos.dir = a.pos.dir
          /\ armed.pos.opened = a.pos.opened /\ armed.pos.atr = a.pos.atr
      BY <1>1, <1>5 DEF Accounts, Positions
    <3>3. Booked(armed, sp.fitnessStart, n)  BY <1>1 DEF Booked, Accounts
    <3> HIDE DEF armed
    <3> QED  BY <1>1, <2>0, <2>3, <3>1, <3>2, <3>3 DEF Leaves, Sound, Armed
  <2> QED  BY <2>1, <2>2, <2>3
<1> QED  BY <1>6, <1>7

SameButTp1(a, b) ==
    /\ b.pendingClose = a.pendingClose /\ b.pos.dir = a.pos.dir /\ b.pos.opened = a.pos.opened
    /\ b.pos.atr = a.pos.atr /\ b.pos.triggered = a.pos.triggered

LEMMA TargetType ==
    ASSUME NEW a, NEW sp \in Specs, NEW n \in Nat, NEW bar, Sound(a, sp, n)
    PROVE  Sound(Test!Target(a, sp, n, bar), sp, n) /\ Leaves(a, Test!Target(a, sp, n, bar))
<1> DEFINE hit == {s \in DOMAIN a.pos.subs : /\ ~ a.pos.subs[s].closed
                                             /\ a.pos.subs[s].target > 0
                                             /\ Test!Reaches(a.pos, bar, a.pos.subs[s].target)}
           noted == IF 1 \in hit THEN [a EXCEPT !.pos.tp1 = n] ELSE a
           exits == [s \in hit |-> a.pos.subs[s].target]
           done == Test!CloseSubs(noted, sp, exits, n)
           out == [done EXCEPT !.pos = Test!NoPosition]
           skips == ~ Test!Evaluates(a, sp, "target") \/ n <= a.pos.opened
           b == Test!Target(a, sp, n, bar)
<1>1. /\ a \in Accounts /\ Booked(a, sp.fitnessStart, n) /\ (a.pos.triggered => Armed(a, sp))
      /\ a.pos.opened <= n
  BY DEF Sound
<1>2. Test!IsSizing(sp.sizing) /\ sp.fitnessStart \in Int  BY SpecsAssumption
<1>3. b = IF skips THEN a ELSE IF Test!AllSubsClosed(done) THEN out ELSE done
  BY DEF Test!Target
<1> SUFFICES Sound(b, sp, n) /\ Leaves(a, b)  OBVIOUS
<1> HIDE DEF b, skips
<1>4. \A s \in DOMAIN exits : exits[s] \in Int
  <2>1. a.pos.subs \in Seq(SubUnits) /\ DOMAIN a.pos.subs = 1 .. Len(a.pos.subs)
    BY <1>1, FieldsOfAccount
  <2>2. \A s \in hit : a.pos.subs[s] \in SubUnits  BY <2>1
  <2>3. \A s \in hit : a.pos.subs[s].target \in Int  BY <2>2 DEF SubUnits
  <2> HIDE DEF hit
  <2> QED  BY <2>3
<1> HIDE DEF exits, hit
<1>5. noted \in Accounts /\ Booked(noted, sp.fitnessStart, n) /\ SameButTp1(a, noted)
  <2>1. CASE 1 \in hit
    <3> DEFINE c == [a EXCEPT !.pos.tp1 = n]
    <3>1. c \in Accounts /\ SameButTp1(a, c)
      <4>1. n \in Int  OBVIOUS
      <4> QED  BY <1>1, <4>1 DEF Accounts, Positions, SameButTp1
    <3>2. Booked(c, sp.fitnessStart, n)  BY <1>1 DEF Booked, Accounts
    <3>3. noted = c  BY <2>1
    <3> HIDE DEF c, noted
    <3> QED  BY <3>1, <3>2, <3>3
  <2>2. CASE 1 \notin hit
    <3>1. noted = a  BY <2>2
    <3> HIDE DEF noted
    <3> QED  BY <1>1, <3>1 DEF SameButTp1
  <2> QED  BY <2>1, <2>2
<1> HIDE DEF noted
<1>6. done \in Accounts /\ Booked(done, sp.fitnessStart, n) /\ SameButSubs(noted, done)
  <2>1. PICK c \in Accounts : c = noted  BY <1>5
  <2>2. Booked(c, sp.fitnessStart, n) /\ n \in Int  BY <1>5, <2>1
  <2>3. PICK e : e = exits  OBVIOUS
  <2>4. \A s \in DOMAIN e : e[s] \in Int  BY <1>4, <2>3
  <2>5. /\ Test!CloseSubs(c, sp, e, n) \in Accounts
        /\ Booked(Test!CloseSubs(c, sp, e, n), sp.fitnessStart, n)
        /\ SameButSubs(c, Test!CloseSubs(c, sp, e, n))
    BY <1>2, <2>2, <2>4, CloseSubsType
  <2> QED  BY <2>1, <2>3, <2>5
<1> HIDE DEF done
<1>7. Sound(done, sp, n) /\ Leaves(a, done)
  BY <1>1, <1>5, <1>6 DEF Sound, Leaves, Armed, SameButSubs, SameButTp1
<1>8. /\ out \in Accounts /\ Booked(out, sp.fitnessStart, n) /\ out.pos = Test!NoPosition
      /\ out.pendingClose = done.pendingClose
  BY <1>6, NoPositionType DEF Accounts, Booked
<1> HIDE DEF out
<1>9. Sound(out, sp, n) /\ out.pos.dir = 0  BY <1>8, FlatIsSound
<1>10. Leaves(a, out)  BY <1>7, <1>8, <1>9 DEF Leaves
<1>11. Leaves(a, a)  BY DEF Leaves
<1> QED  BY <1>3, <1>7, <1>9, <1>10, <1>11

LEMMA TrailType ==
    ASSUME NEW a, NEW sp \in Specs, NEW n \in Nat, NEW bar, Sound(a, sp, n)
    PROVE  Sound(Test!Trail(a, sp, n, bar), sp, n) /\ Leaves(a, Test!Trail(a, sp, n, bar))
<1> DEFINE signal == IF n - a.pos.opened >= sp.maxBars - 1 THEN "Time"
                     ELSE IF -a.pos.dir \in Test!Signals(sp, bar) THEN "Reversal"
                     ELSE IF a.pos.dir \in bar.breaks THEN "Structural"
                     ELSE Test!NoSignal
           c == [a EXCEPT !.pendingClose = signal]
           b == Test!Trail(a, sp, n, bar)
<1>1. /\ a \in Accounts /\ Booked(a, sp.fitnessStart, n) /\ (a.pos.triggered => Armed(a, sp))
      /\ a.pos.opened <= n
  BY DEF Sound
<1>2. signal \in {Test!NoSignal, "SL", "Time", "Reversal", "Structural"}
  OBVIOUS
<1>3. b = IF Test!Evaluates(a, sp, "trail") THEN c ELSE a  BY DEF Test!Trail
<1> SUFFICES Sound(b, sp, n) /\ Leaves(a, b)  OBVIOUS
<1> HIDE DEF b, signal
<1>4. /\ c \in Accounts /\ c.pos = a.pos  BY <1>1, <1>2 DEF Accounts
<1>5. Booked(c, sp.fitnessStart, n)  BY <1>1 DEF Booked, Accounts
<1> HIDE DEF c
<1>6. Sound(c, sp, n)  BY <1>1, <1>4, <1>5 DEF Sound, Armed
<1>7. Test!Evaluates(a, sp, "trail") => a.pendingClose = Test!NoSignal  BY DEF Test!Evaluates
<1> QED  BY <1>3, <1>4, <1>6, <1>7 DEF Leaves

LEMMA QueueEntryType ==
    ASSUME NEW a, NEW sp \in Specs, NEW n \in Nat, NEW bar, Sound(a, sp, n)
    PROVE  Sound(Test!QueueEntry(a, sp, bar), sp, n) /\ Leaves(a, Test!QueueEntry(a, sp, bar))
<1> DEFINE chosen == IF Test!Long \in Test!Signals(sp, bar) THEN Test!Long ELSE Test!Short
           c == [a EXCEPT !.pendingEntry = chosen]
           b == Test!QueueEntry(a, sp, bar)
<1>1. /\ a \in Accounts /\ Booked(a, sp.fitnessStart, n) /\ (a.pos.triggered => Armed(a, sp))
      /\ a.pos.opened <= n
  BY DEF Sound
<1>2. chosen \in {1, -1, 0}  BY DEF Test!Long, Test!Short
<1>3. b \in {a, c}  BY DEF Test!QueueEntry
<1> SUFFICES Sound(b, sp, n) /\ Leaves(a, b)  OBVIOUS
<1> HIDE DEF b, chosen
<1>4. /\ c \in Accounts /\ c.pos = a.pos /\ c.pendingClose = a.pendingClose
  BY <1>1, <1>2 DEF Accounts
<1>5. Booked(c, sp.fitnessStart, n)  BY <1>1 DEF Booked, Accounts
<1> HIDE DEF c
<1>6. Sound(c, sp, n)  BY <1>1, <1>4, <1>5 DEF Sound, Armed
<1> QED  BY <1>3, <1>4, <1>6 DEF Leaves

LEMMA MarkedIsInt ==
    ASSUME NEW a \in Accounts, NEW bar, bar.close \in Int
    PROVE  Test!Marked(a, bar) \in Int
<1>1. /\ a.pos.subs \in Seq(SubUnits) /\ DOMAIN a.pos.subs = 1 .. Len(a.pos.subs)
      /\ Len(a.pos.subs) \in Nat /\ a.pos.dir \in Int /\ a.pos.price \in Int /\ a.equity \in Int
  BY FieldsOfAccount
<1> DEFINE units(s) == IF a.pos.subs[s].closed THEN 0 ELSE a.pos.subs[s].units
           open == [s \in 1 .. Len(a.pos.subs) |-> units(s)]
<1>2. Test!OpenUnits(a) = Test!Total(open)  BY <1>1 DEF Test!OpenUnits
<1>3. ASSUME NEW s \in 1 .. Len(a.pos.subs) PROVE units(s) \in Int
  <2>1. a.pos.subs[s] \in SubUnits  BY <1>1
  <2> QED  BY <2>1 DEF SubUnits
<1> HIDE DEF units
<1>4. open \in Seq(Int)  BY <1>1, <1>3
<1>5. Test!OpenUnits(a) \in Int
  <2> HIDE DEF open
  <2> QED  BY <1>2, <1>4, TotalIsInt
<1>6. 100 * Test!OpenUnits(a) \in Int /\ bar.close - a.pos.price \in Int  BY <1>1, <1>5
<1>7. 100 * Test!OpenUnits(a) * a.pos.dir \in Int  BY <1>1, <1>6, Product
<1>8. 100 * Test!OpenUnits(a) * a.pos.dir * (bar.close - a.pos.price) \in Int  BY <1>6, <1>7, Product
<1> QED  BY <1>1, <1>8 DEF Test!Marked

(* What a bar does to a stop: an armed position is gone or its close is    *)
(* queued, and a position whose close was queued is gone.                  *)
SamePos(a, b) == a.pos.dir # 0 /\ b.pos.dir # 0 /\ b.pos.opened = a.pos.opened
StopAnswered(a, b) ==
    /\ a.pos.triggered /\ SamePos(a, b) => b.pendingClose = "SL"
    /\ a.pendingClose # Test!NoSignal => ~ SamePos(a, b)

LEMMA RunBarType ==
    ASSUME NEW a \in Accounts, NEW sp \in Specs, NEW n \in Nat, n >= 1, NEW bar \in Bars,
           Booked(a, sp.fitnessStart, n) \/ (a.base = -1 /\ a.profit = 0 /\ a.loss = 0),
           a.pos.triggered => Armed(a, sp), a.pos.opened <= n - 1
    PROVE  /\ Sound(Test!RunBar(a, sp, n, bar), sp, n)
           /\ StopAnswered(a, Test!RunBar(a, sp, n, bar))
<1> DEFINE u == Test!EnterRegion(a, sp, n)
           v == Test!ExecuteClose(u, sp, n, bar)
           w == Test!ExecuteEntry(v, sp, n, bar)
           x == Test!HardStop(w, sp, n, bar)
           y == Test!Target(x, sp, n, bar)
           z == Test!Trail(y, sp, n, bar)
           q == Test!QueueEntry(z, sp, bar)
           m == Test!Marked(q, bar)
           d == Test!Drawn(q, m)
           b == [d EXCEPT !.atr = bar.atr]
<1>1. Test!IsSizing(sp.sizing) /\ sp.fitnessStart \in Int /\ n \in Int  BY SpecsAssumption
<1>2. bar.open \in Int /\ bar.close \in Int /\ bar.atr \in Int  BY BarsAssumption
<1>3. Test!RunBar(a, sp, n, bar) = b  BY DEF Test!RunBar
<1> SUFFICES Sound(b, sp, n) /\ StopAnswered(a, b)  BY <1>3
<1>4. /\ u \in Accounts /\ Booked(u, sp.fitnessStart, n) /\ u.pos = a.pos
      /\ u.pendingClose = a.pendingClose
  BY <1>1, EnterRegionType
<1> HIDE DEF u
<1>5. /\ v \in Accounts /\ Booked(v, sp.fitnessStart, n) /\ v.pendingClose = Test!NoSignal
      /\ v.pos = IF a.pendingClose # Test!NoSignal
                 THEN IF a.pos.dir # 0 THEN Test!NoPosition ELSE a.pos ELSE a.pos
  BY <1>1, <1>2, <1>4, ExecuteCloseType
<1> HIDE DEF v
<1>6. /\ w \in Accounts /\ Booked(w, sp.fitnessStart, n) /\ w.pendingClose = Test!NoSignal
      /\ w.pos # v.pos => /\ v.pos.dir = 0 /\ w.pos.dir # 0
                          /\ w.pos.opened = n /\ w.pos.triggered = FALSE
  <2>1. PICK c \in Accounts : c = v  BY <1>5
  <2>2. Booked(c, sp.fitnessStart, n) /\ c.pendingClose = Test!NoSignal  BY <1>5, <2>1
  <2>3. Fills(c, Test!ExecuteEntry(c, sp, n, bar), sp.fitnessStart, n)
    BY <1>1, <1>2, <2>2, ExecuteEntryType
  <2>4. Fills(v, w, sp.fitnessStart, n)  BY <2>1, <2>3
  <2> HIDE DEF w
  <2> QED  BY <2>4 DEF Fills
<1> HIDE DEF w
<1>7. a.pos.opened \in Int  BY FieldsOfAccount
<1>8. /\ w.pos.triggered => w.pos = a.pos
      /\ w.pos.opened <= n
      /\ w.pos = a.pos \/ w.pos.dir = 0 \/ w.pos.opened = n
      /\ a.pendingClose # Test!NoSignal /\ a.pos.dir # 0 => w.pos.dir = 0 \/ w.pos.opened = n
  <2>1. /\ Test!NoPosition.triggered = FALSE /\ Test!NoPosition.opened = 0 /\ Test!NoPosition.dir = 0
    BY DEF Test!NoPosition, Test!NoDir
  <2>2. CASE w.pos # v.pos
    <3>1. w.pos.opened = n /\ w.pos.triggered = FALSE  BY <1>6, <2>2
    <3> QED  BY <1>1, <3>1
  <2>3. CASE w.pos = v.pos /\ v.pos = a.pos
    <3>1. w.pos = a.pos  BY <2>3
    <3>2. ASSUME a.pendingClose # Test!NoSignal /\ a.pos.dir # 0 PROVE w.pos.dir = 0
      BY <1>5, <2>1, <2>3, <3>2
    <3> QED  BY <1>7, <3>1, <3>2
  <2>4. CASE w.pos = v.pos /\ v.pos = Test!NoPosition
    <3>1. w.pos.triggered = FALSE /\ w.pos.opened = 0 /\ w.pos.dir = 0  BY <2>1, <2>4
    <3> QED  BY <3>1
  <2> QED  BY <1>5, <2>2, <2>3, <2>4
<1>9. Sound(w, sp, n)  BY <1>6, <1>8 DEF Sound, Armed
<1>10. /\ Sound(x, sp, n) /\ Leaves(w, x)
       /\ w.pos.triggered => x.pos.dir = 0 \/ x.pendingClose = "SL"
  BY <1>6, <1>9, HardStopType
<1> HIDE DEF x
<1>11. Sound(y, sp, n) /\ Leaves(x, y)  BY <1>10, TargetType
<1> HIDE DEF y
<1>12. Sound(z, sp, n) /\ Leaves(y, z)  BY <1>11, TrailType
<1> HIDE DEF z
<1>13. Sound(q, sp, n) /\ Leaves(z, q)  BY <1>12, QueueEntryType
<1> HIDE DEF q
<1>14. /\ q \in Accounts /\ Booked(q, sp.fitnessStart, n) /\ (q.pos.triggered => Armed(q, sp))
       /\ q.pos.opened <= n
  BY <1>13 DEF Sound
<1>15. m \in Int  BY <1>2, <1>14, MarkedIsInt
<1> HIDE DEF m
<1>16. /\ d \in Accounts /\ d = [q EXCEPT !.peak = d.peak, !.maxDD = d.maxDD]
       /\ d.peak >= q.peak /\ d.maxDD >= q.maxDD
  BY <1>14, <1>15, DrawnType
<1> HIDE DEF d
<1>17. /\ b \in Accounts /\ b.pos = d.pos /\ b.pendingClose = d.pendingClose /\ b.base = d.base
       /\ b.equity = d.equity /\ b.profit = d.profit /\ b.loss = d.loss /\ b.floored = d.floored
       /\ b.peak = d.peak /\ b.maxDD = d.maxDD
  BY <1>2, <1>16 DEF Accounts
<1>18. /\ d.pos = q.pos /\ d.pendingClose = q.pendingClose /\ d.base = q.base
       /\ d.equity = q.equity /\ d.profit = q.profit /\ d.loss = q.loss /\ d.floored = q.floored
  <2> DEFINE e == [q EXCEPT !.peak = d.peak, !.maxDD = d.maxDD]
  <2>1. /\ e.pos = q.pos /\ e.pendingClose = q.pendingClose /\ e.base = q.base
        /\ e.equity = q.equity /\ e.profit = q.profit /\ e.loss = q.loss /\ e.floored = q.floored
    BY <1>14 DEF Accounts
  <2>2. d = e  BY <1>16
  <2> HIDE DEF e
  <2> QED  BY <2>1, <2>2
<1> HIDE DEF b
<1>19. Booked(b, sp.fitnessStart, n)
  <2>1. /\ q.peak \in Int /\ q.maxDD \in Int /\ d.peak \in Int /\ d.maxDD \in Int
        /\ q.base \in Int /\ q.equity \in Int
    BY <1>14, <1>16, FieldsOfAccount
  <2> QED  BY <1>14, <1>16, <1>17, <1>18, <2>1 DEF Booked
<1>20. Sound(b, sp, n)  BY <1>14, <1>17, <1>18, <1>19 DEF Sound, Armed
<1>21. Leaves(x, q)
  <2>1. Leaves(x, z)  BY <1>11, <1>12, LeavesTransitive
  <2> QED  BY <2>1, <1>13, LeavesTransitive
<1>22. Leaves(w, q)  BY <1>10, <1>21, LeavesTransitive
<1>23. ASSUME a.pos.triggered, SamePos(a, b) PROVE b.pendingClose = "SL"
  <2>1. q.pos.dir # 0 /\ q.pos.opened = a.pos.opened  BY <1>17, <1>18, <1>23 DEF SamePos
  <2>2. w.pos.dir # 0 /\ w.pos.opened = a.pos.opened  BY <1>22, <2>1 DEF Leaves
  <2>3. w.pos.opened # n  BY <1>7, <2>2
  <2>4. w.pos.triggered  BY <1>8, <1>23, <2>2, <2>3
  <2>5. x.pendingClose = "SL"
    <3>1. x.pos.dir # 0  BY <1>21, <2>1 DEF Leaves
    <3> QED  BY <1>10, <2>4, <3>1
  <2>6. q.pendingClose = "SL"  BY <1>21, <2>5, SignalsDiffer DEF Leaves
  <2> QED  BY <1>17, <1>18, <2>6
<1>24. ASSUME a.pendingClose # Test!NoSignal, SamePos(a, b) PROVE FALSE
  <2>1. q.pos.dir # 0 /\ q.pos.opened = a.pos.opened /\ a.pos.dir # 0
    BY <1>17, <1>18, <1>24 DEF SamePos
  <2>2. w.pos.dir # 0 /\ w.pos.opened = a.pos.opened  BY <1>22, <2>1 DEF Leaves
  <2> QED  BY <1>7, <1>8, <1>24, <2>1, <2>2
<1> QED  BY <1>20, <1>23, <1>24 DEF StopAnswered

LEMMA ForceCloseType ==
    ASSUME NEW a \in Accounts, NEW sp \in Specs, NEW n \in Nat, NEW bar, bar.close \in Int,
           Booked(a, sp.fitnessStart, n), a.pos.triggered => Armed(a, sp), a.pos.opened <= n
    PROVE  Sound(Test!ForceClose(a, sp, n, bar), sp, n)
<1> DEFINE out == Test!CloseAll(a, sp, bar.close, n)
<1>1. Test!IsSizing(sp.sizing) /\ sp.fitnessStart \in Int /\ n \in Int  BY SpecsAssumption
<1>2. /\ out \in Accounts /\ Booked(out, sp.fitnessStart, n) /\ out.pos = Test!NoPosition
  BY <1>1, CloseAllType
<1>3. Test!ForceClose(a, sp, n, bar) \in {a, out}  BY DEF Test!ForceClose
<1> HIDE DEF out
<1>4. Sound(out, sp, n)  BY <1>2, FlatIsSound
<1>5. Sound(a, sp, n)  BY DEF Sound
<1> QED  BY <1>3, <1>4, <1>5

LEMMA NewAccountType ==
    ASSUME NEW sp \in Specs
    PROVE  /\ Test!NewAccount(sp) \in Accounts
           /\ Test!NewAccount(sp).pos = Test!NoPosition
           /\ Booked(Test!NewAccount(sp), sp.fitnessStart, 0)
              \/ Booked(Test!NewAccount(sp), sp.fitnessStart, 1)
<1> DEFINE base == IF sp.fitnessStart <= 1 THEN InitialCapital ELSE -1
           b == Test!NewAccount(sp)
<1>1. sp.fitnessStart \in Int /\ InitialCapital \in Nat  BY SpecsAssumption, CostsAssumption
<1>2. b = [equity |-> InitialCapital, peak |-> InitialCapital, maxDD |-> 0,
           pos |-> Test!NoPosition, pendingEntry |-> 0, pendingClose |-> Test!NoSignal,
           trades |-> 0, positions |-> 0, profit |-> 0, loss |-> 0, base |-> base,
           stats |-> Test!NoStats, atr |-> 0, floored |-> FALSE]
  BY DEF Test!NewAccount, Test!NoDir, Test!Unset
<1>3. base \in Nat \cup {-1}  BY <1>1
<1> SUFFICES /\ b \in Accounts /\ b.pos = Test!NoPosition
             /\ Booked(b, sp.fitnessStart, 0) \/ Booked(b, sp.fitnessStart, 1)
  OBVIOUS
<1> HIDE DEF b
<1>4. b \in Accounts
  <2> HIDE DEF base
  <2> QED  BY <1>1, <1>2, <1>3, NoPositionType, NoStatsType DEF Accounts
<1>5. CASE sp.fitnessStart <= 1
  <2>1. b.base = InitialCapital  BY <1>2, <1>5
  <2>2. Booked(b, sp.fitnessStart, 1)  BY <1>1, <1>2, <1>5, <2>1 DEF Booked
  <2> QED  BY <1>2, <1>4, <2>2
<1>6. CASE ~(sp.fitnessStart <= 1)
  <2>1. b.base = -1  BY <1>2, <1>6
  <2>2. Booked(b, sp.fitnessStart, 0)  BY <1>1, <1>2, <1>6, <2>1 DEF Booked
  <2> QED  BY <1>2, <1>4, <2>2
<1> QED  BY <1>5, <1>6

-----------------------------------------------------------------------------
(* The backtest.                                                           *)

TestInv ==
    part = "test" =>
        /\ spec \in Specs
        /\ i \in Nat
        /\ last.close \in Int
        /\ rt \in Accounts
        /\ Booked(rt, spec.fitnessStart, i) \/ (i = 0 /\ Booked(rt, spec.fitnessStart, 1))
        /\ rt.pos.triggered => Armed(rt, spec)
        /\ rt.pos.opened <= i

LEMMA TestInit == Init => TestInv
<1> SUFFICES ASSUME Init, part = "test" PROVE TestInv  BY DEF TestInv
<1>1. Test!Init  BY DEF Init
<1>2. spec \in Specs /\ i = 0 /\ rt = Test!NewAccount(spec) /\ last = Test!NoBar
  BY <1>1 DEF Test!Init
<1>3. PICK sp \in Specs : sp = spec  BY <1>2
<1>4. PICK a : a = Test!NewAccount(sp)  OBVIOUS
<1>5. /\ a \in Accounts /\ a.pos = Test!NoPosition
      /\ Booked(a, sp.fitnessStart, 0) \/ Booked(a, sp.fitnessStart, 1)
  BY <1>4, NewAccountType
<1>6. a.pos.triggered = FALSE /\ a.pos.opened = 0  BY <1>5 DEF Test!NoPosition
<1>7. last.close = 0  BY <1>2 DEF Test!NoBar
<1> QED  BY <1>2, <1>3, <1>4, <1>5, <1>6, <1>7 DEF TestInv

LEMMA TestBar ==
    ASSUME TestInv, part = "test", NEW bar \in Bars, Test!Step(bar), UNCHANGED part
    PROVE  TestInv' /\ StopAnswered(rt, rt')
<1>1. PICK sp \in Specs : sp = spec  BY DEF TestInv
<1>2. PICK a \in Accounts : a = rt  BY DEF TestInv
<1>3. PICK k \in Nat : k = i  BY DEF TestInv
<1>4. PICK n \in Nat : n = k + 1  OBVIOUS
<1>5. /\ Booked(a, sp.fitnessStart, k) \/ (k = 0 /\ Booked(a, sp.fitnessStart, 1))
      /\ a.pos.triggered => Armed(a, sp)
      /\ a.pos.opened <= k
  BY <1>1, <1>2, <1>3 DEF TestInv
<1>6. i' = n /\ rt' = Test!RunBar(a, sp, n, bar) /\ spec' = sp /\ last' = bar
  BY <1>1, <1>2, <1>3, <1>4 DEF Test!Step
<1>7. Booked(a, sp.fitnessStart, n) \/ (a.base = -1 /\ a.profit = 0 /\ a.loss = 0)
  <2>1. sp.fitnessStart \in Int  BY SpecsAssumption
  <2> QED  BY <1>4, <1>5, <2>1 DEF Booked
<1>8. n >= 1 /\ a.pos.opened <= n - 1  BY <1>4, <1>5
<1>9. /\ Sound(Test!RunBar(a, sp, n, bar), sp, n)
      /\ StopAnswered(a, Test!RunBar(a, sp, n, bar))
  BY <1>5, <1>7, <1>8, RunBarType
<1>10. PICK b : b = Test!RunBar(a, sp, n, bar)  OBVIOUS
<1>11. bar.close \in Int  BY BarsAssumption
<1>12. /\ b \in Accounts /\ Booked(b, sp.fitnessStart, n) /\ (b.pos.triggered => Armed(b, sp))
       /\ b.pos.opened <= n
  BY <1>9, <1>10 DEF Sound
<1> QED  BY <1>2, <1>6, <1>9, <1>10, <1>11, <1>12 DEF TestInv

LEMMA TestFinish ==
    ASSUME TestInv, part = "test", Test!Finish, UNCHANGED part
    PROVE  TestInv' /\ i' = i
<1>1. PICK sp \in Specs : sp = spec  BY DEF TestInv
<1>2. PICK a \in Accounts : a = rt  BY DEF TestInv
<1>3. PICK n \in Nat : n = i  BY DEF TestInv
<1>4. PICK bar : bar = last  OBVIOUS
<1>5. /\ i' = n /\ rt' = Test!ForceClose(a, sp, n, bar) /\ spec' = sp /\ last' = bar /\ n = sp.length
  BY <1>1, <1>2, <1>3, <1>4 DEF Test!Finish
<1>6. n # 0  BY <1>5, SpecsAssumption
<1>7. /\ Booked(a, sp.fitnessStart, n) /\ bar.close \in Int
      /\ a.pos.triggered => Armed(a, sp)
      /\ a.pos.opened <= n
  BY <1>1, <1>2, <1>3, <1>4, <1>6 DEF TestInv
<1>8. Sound(Test!ForceClose(a, sp, n, bar), sp, n)  BY <1>7, ForceCloseType
<1>9. PICK b : b = Test!ForceClose(a, sp, n, bar)  OBVIOUS
<1>10. /\ b \in Accounts /\ Booked(b, sp.fitnessStart, n) /\ (b.pos.triggered => Armed(b, sp))
       /\ b.pos.opened <= n
  BY <1>8, <1>9 DEF Sound
<1> QED  BY <1>3, <1>5, <1>7, <1>9, <1>10 DEF TestInv

LEMMA TestStep == TestInv /\ [Next]_vars => TestInv'
<1> SUFFICES ASSUME TestInv, [Next]_vars, part' = "test" PROVE TestInv'  BY DEF TestInv
<1>1. CASE part = "test" /\ (\E bar \in Bars : Test!Step(bar)) /\ UNCHANGED <<part, charting>>
  BY <1>1, TestBar
<1>2. CASE part = "test" /\ Test!Finish /\ UNCHANGED <<part, charting>>
  BY <1>2, TestFinish
<1>3. CASE part = "chart" /\ (\E bar \in ChartBars : OnChart!Bar(bar)) /\ UNCHANGED <<part, testing>>
  BY <1>3
<1>4. CASE UNCHANGED vars  BY <1>4 DEF vars, testing, TestInv
<1> QED  BY <1>1, <1>2, <1>3, <1>4 DEF Next

(* The books of every backtest balance: on whatever bars, costs and spec,  *)
(* the profit of the fitness region is the sum of the trades that were     *)
(* counted in it unless a loss was cut off at zero, and no worse than the  *)
(* drawdown (closeSubAtPrice, the snapshot of oosEquityStart and the mark  *)
(* at the close keep the three).                                           *)
THEOREM BooksBalanceHolds == Spec => []BooksBalance
<1>1. TestInv => BooksBalance
  <2> SUFFICES ASSUME TestInv, part = "test", rt.base # Test!Unset
               PROVE  /\ rt.floored \/ Test!NetProfit(rt) = rt.profit - rt.loss
                      /\ rt.base - rt.equity <= rt.maxDD
    BY DEF BooksBalance, Test!BooksBalance
  <2>1. rt.base # -1  BY DEF Test!Unset
  <2>2. /\ rt.floored \/ rt.equity - rt.base = rt.profit - rt.loss
        /\ rt.base - rt.equity <= rt.maxDD
    BY <2>1 DEF TestInv, Booked
  <2>3. Test!NetProfit(rt) = rt.equity - rt.base  BY DEF Test!NetProfit
  <2> QED  BY <2>2, <2>3
<1> QED  BY <1>1, TestInit, TestStep, PTL DEF Spec

(* Whatever the price does in between, a close beyond the stop closes the  *)
(* position two bars later: an armed position is gone or its close is      *)
(* queued one bar later, and a queued close is filled at the next open     *)
(* (atrHardStop and the fills of the bar loop).                            *)
THEOREM StopTakesTwoBarsHolds == Spec => StopTakesTwoBars
<1>1. TestInv /\ [Next]_vars =>
        [part = "test" /\ i' # i =>
            /\ rt.pos.triggered /\ Test!SamePosition => rt'.pendingClose = "SL"
            /\ rt.pendingClose # Test!NoSignal => ~ Test!SamePosition]_vars
  <2> SUFFICES ASSUME TestInv, [Next]_vars, part = "test", i' # i
               PROVE  /\ rt.pos.triggered /\ Test!SamePosition => rt'.pendingClose = "SL"
                      /\ rt.pendingClose # Test!NoSignal => ~ Test!SamePosition
    OBVIOUS
  <2>1. \E bar \in Bars : Test!Step(bar) /\ UNCHANGED part
    <3>1. CASE part = "test" /\ Test!Finish /\ UNCHANGED <<part, charting>>  BY <3>1, TestFinish
    <3>2. CASE UNCHANGED vars  BY <3>2 DEF vars
    <3> QED  BY <3>1, <3>2 DEF Next
  <2>2. StopAnswered(rt, rt')  BY <2>1, TestBar
  <2>3. Test!SamePosition <=> SamePos(rt, rt')
    BY DEF Test!SamePosition, SamePos, Test!IsOpen, Test!NoDir
  <2> QED  BY <2>2, <2>3 DEF StopAnswered
<1> QED  BY <1>1, TestInit, TestStep, PTL DEF Spec, StopTakesTwoBars

-----------------------------------------------------------------------------
(* The tracker of the indicator.                                           *)

LEMMA ChartReasons ==
    /\ OnChart!NoSignal # "TP" /\ OnChart!NoSignal # "SL" /\ OnChart!NoSignal # "ESL"
    /\ OnChart!NoSignal # "Time" /\ OnChart!NoSignal # "Reversal" /\ OnChart!NoSignal # "Structural"
  BY Zenon DEF OnChart!NoSignal

LEMMA ChartCardinality == \A S : OnChart!Cardinality(S) = Cardinality(S)
<1>1. \A S : OnChart!IsFiniteSet(S) <=> IsFiniteSet(S)
  BY DEF OnChart!IsFiniteSet, IsFiniteSet
<1> QED  BY <1>1 DEF OnChart!Cardinality, Cardinality

LEMMA TranchesAreFinite ==
    ASSUME NEW sp \in ChartSpecs
    PROVE  IsFiniteSet(DOMAIN OnChart!Tranches(sp))
<1>1. DOMAIN OnChart!Tranches(sp) = 1 .. Len(OnChart!Tranches(sp))  BY TranchesAssumption
<1>2. IsFiniteSet(1 .. Len(OnChart!Tranches(sp)))
  <2>1. PICK m : m = Len(OnChart!Tranches(sp))  OBVIOUS
  <2>2. m \in Int  BY <2>1
  <2>3. IsFiniteSet(1 .. m)  BY <2>2, FS_Interval
  <2> QED  BY <2>1, <2>3
<1> QED  BY <1>1, <1>2

(* A tracked position of a spec, and how long it may have been open after  *)
(* bar n.                                                                  *)
IsTrack(t, sp) ==
    /\ t = [dir |-> t.dir, entry |-> t.entry, opened |-> t.opened, atr |-> t.atr,
            armed |-> t.armed, fired |-> t.fired]
    /\ t.opened \in Int
    /\ t.fired \subseteq DOMAIN OnChart!Tranches(sp)
InTime(t, sp, n) ==
    t.dir # 0 /\ "trail" \in sp.exits =>
        n - t.opened <= sp.maxBars - 2 + Cardinality(t.fired)

LEMMA FiredIsCounted ==
    ASSUME NEW sp \in ChartSpecs, NEW t, IsTrack(t, sp)
    PROVE  IsFiniteSet(t.fired) /\ Cardinality(t.fired) \in Nat
<1>1. PICK S : S = DOMAIN OnChart!Tranches(sp)  OBVIOUS
<1>2. PICK U : U = t.fired  OBVIOUS
<1>3. IsFiniteSet(S) /\ U \subseteq S  BY <1>1, <1>2, TranchesAreFinite DEF IsTrack
<1>4. IsFiniteSet(U)  BY <1>3, FS_Subset
<1>5. Cardinality(U) \in Nat  BY <1>4, FS_CardinalityType
<1> QED  BY <1>2, <1>4, <1>5

(* No tranche has fired of a position that has just been entered.          *)
LEMMA EnteredInTime ==
    ASSUME NEW sp \in ChartSpecs, NEW dir, NEW bar, NEW n \in Nat
    PROVE  /\ IsTrack(OnChart!Enter(dir, bar, n), sp)
           /\ InTime(OnChart!Enter(dir, bar, n), sp, n)
<1> DEFINE t == OnChart!Enter(dir, bar, n)
<1>1. t = [dir |-> dir, entry |-> bar.close, opened |-> n, atr |-> bar.atr, armed |-> FALSE,
           fired |-> {}]
  <2>1. PICK c : c = bar.close  OBVIOUS
  <2>2. PICK e : e = bar.atr  OBVIOUS
  <2>3. t = [OnChart!NoTrack EXCEPT !.dir = dir, !.entry = c, !.opened = n, !.atr = e]
    BY <2>1, <2>2 DEF OnChart!Enter
  <2>4. OnChart!NoTrack = [dir |-> OnChart!NoDir, entry |-> 0, opened |-> 0, atr |-> 0, armed |-> FALSE,
                           fired |-> {}]
    BY DEF OnChart!NoTrack
  <2> HIDE DEF t
  <2> QED  BY <2>1, <2>2, <2>3, <2>4
<1>2. Cardinality({}) = 0  BY FS_EmptySet
<1>3. sp.maxBars - 2 >= 0 /\ sp.maxBars \in Int  BY ChartAssumption
<1>4. t.opened = n /\ t.fired = {} /\ t.dir = dir  BY <1>1
<1>5. IsTrack(t, sp)
  <2> HIDE DEF t
  <2> QED  BY <1>1, <1>4 DEF IsTrack
<1> HIDE DEF t
<1>6. InTime(t, sp, n)  BY <1>2, <1>3, <1>4 DEF InTime
<1> QED  BY <1>5, <1>6 DEF t

LEMMA NoTrackType ==
    ASSUME NEW sp, NEW n
    PROVE  IsTrack(OnChart!NoTrack, sp) /\ InTime(OnChart!NoTrack, sp, n) /\ OnChart!NoTrack.dir = 0
  BY DEF OnChart!NoTrack, OnChart!NoDir, IsTrack, InTime

(* Before the structural exit a bar has left the position, or has found    *)
(* nothing to report of it, or reports a tranche that fired.               *)
Left(s) == s.track = OnChart!NoTrack /\ s.reason # OnChart!NoSignal
Holds(s, t) == s.reason = OnChart!NoSignal /\ s.track.dir = t.dir /\ s.track.opened = t.opened
Fires(s, t) ==
    /\ s.track.dir = t.dir /\ s.track.opened = t.opened
    /\ Cardinality(s.track.fired) >= Cardinality(t.fired) + 1
Tracks(s, t, sp) ==
    /\ s = [track |-> s.track, reason |-> s.reason]
    /\ IsTrack(s.track, sp)
    /\ Left(s) \/ Holds(s, t) \/ Fires(s, t)

LEMMA ExitTracks ==
    ASSUME NEW t, NEW sp, NEW reason, reason # OnChart!NoSignal
    PROVE  Tracks(OnChart!Exit(t, reason), t, sp) /\ Left(OnChart!Exit(t, reason))
<1>1. OnChart!Exit(t, reason) = [track |-> OnChart!NoTrack, reason |-> reason]  BY DEF OnChart!Exit
<1> QED  BY <1>1, NoTrackType DEF Tracks, Left

LEMMA StopTracks ==
    ASSUME NEW sp \in ChartSpecs, NEW t, IsTrack(t, sp), NEW bar
    PROVE  LET s == OnChart!Emergency(OnChart!DeferredStop(OnChart!BarStart(t)), sp, bar)
           IN s = OnChart!BarStart(t) \/ (Tracks(s, t, sp) /\ Left(s))
<1> DEFINE s0 == OnChart!BarStart(t)
           s1 == OnChart!DeferredStop(s0)
           s2 == OnChart!Emergency(s1, sp, bar)
<1>1. s1 = s0 \/ s1 = OnChart!Exit(s0, "SL")  BY DEF OnChart!DeferredStop
<1>2. s2 = s1 \/ s2 = OnChart!Exit(s1, "ESL")  BY DEF OnChart!Emergency
<1> HIDE DEF s2
<1>3. OnChart!Exit(s0, "SL") = OnChart!Exit(t, "SL") /\ OnChart!Exit(s1, "ESL") = OnChart!Exit(t, "ESL")
  BY DEF OnChart!Exit
<1> HIDE DEF s1, s0
<1>4. /\ Tracks(OnChart!Exit(t, "SL"), t, sp) /\ Left(OnChart!Exit(t, "SL"))
      /\ Tracks(OnChart!Exit(t, "ESL"), t, sp) /\ Left(OnChart!Exit(t, "ESL"))
  BY ChartReasons, ExitTracks
<1>5. s2 = s0 \/ (Tracks(s2, t, sp) /\ Left(s2))  BY <1>1, <1>2, <1>3, <1>4
<1> QED  BY <1>5 DEF s2, s1, s0

LEMMA TargetsTrack ==
    ASSUME NEW sp \in ChartSpecs, NEW t, IsTrack(t, sp), NEW s, NEW bar, NEW n,
           s = OnChart!BarStart(t) \/ (Tracks(s, t, sp) /\ Left(s))
    PROVE  Tracks(OnChart!Targets(s, sp, bar, n), t, sp)
<1> DEFINE hit == {k \in DOMAIN OnChart!Tranches(sp) \ s.track.fired :
                      OnChart!Reaches(s.track, bar,
                          s.track.entry + s.track.dir * s.track.atr * OnChart!Tranches(sp)[k].mult)}
           c == [s EXCEPT !.track.fired = @ \cup hit, !.reason = "TP"]
           b == OnChart!Targets(s, sp, bar, n)
           fires == "target" \in sp.exits /\ OnChart!Tracked(s) /\ n > s.track.opened /\ hit # {}
<1>1. b = IF fires THEN c ELSE s  BY DEF OnChart!Targets
<1> SUFFICES Tracks(b, t, sp)  OBVIOUS
<1> HIDE DEF b
<1>2. hit \subseteq DOMAIN OnChart!Tranches(sp) /\ hit \cap s.track.fired = {}  OBVIOUS
<1>3. OnChart!BarStart(t) = [track |-> t, reason |-> OnChart!NoSignal]  BY DEF OnChart!BarStart
<1>4. CASE ~ fires
  <2>1. b = s  BY <1>1, <1>4
  <2>2. CASE s = OnChart!BarStart(t)  BY <1>3, <2>1, <2>2 DEF Tracks, Holds
  <2> QED  BY <2>1, <2>2
<1>5. CASE fires
  <2>1. ~ Left(s)  BY <1>5 DEF OnChart!Tracked, Left
  <2>2. s = [track |-> t, reason |-> OnChart!NoSignal] /\ s.track = t  BY <1>3, <2>1
  <2>3. b = c /\ hit # {}  BY <1>1, <1>5
  <2>4. PICK h : h = hit  OBVIOUS
  <2>5. h # {} /\ h \subseteq DOMAIN OnChart!Tranches(sp) /\ h \cap t.fired = {}
    BY <1>2, <2>2, <2>3, <2>4
  <2> DEFINE u == [t EXCEPT !.fired = t.fired \cup h]
  <2>6. c = [track |-> u, reason |-> "TP"]
    <3>1. c = [s EXCEPT !.track = [s.track EXCEPT !.fired = s.track.fired \cup h], !.reason = "TP"]
      <4> HIDE DEF hit
      <4> QED  BY <2>4
    <3> HIDE DEF c
    <3> QED  BY <2>2, <3>1
  <2> HIDE DEF c, hit
  <2>7. /\ t = [dir |-> t.dir, entry |-> t.entry, opened |-> t.opened, atr |-> t.atr,
                armed |-> t.armed, fired |-> t.fired]
        /\ t.opened \in Int /\ t.fired \subseteq DOMAIN OnChart!Tranches(sp)
    BY DEF IsTrack
  <2>8. /\ u = [dir |-> t.dir, entry |-> t.entry, opened |-> t.opened, atr |-> t.atr,
                armed |-> t.armed, fired |-> t.fired \cup h]
        /\ u.dir = t.dir /\ u.opened = t.opened /\ u.fired = t.fired \cup h
    BY <2>7
  <2> HIDE DEF u
  <2>9. IsTrack(u, sp)  BY <2>5, <2>7, <2>8 DEF IsTrack
  <2>10. Cardinality(u.fired) >= Cardinality(t.fired) + 1
    <3>1. PICK U : U = t.fired  OBVIOUS
    <3>2. IsFiniteSet(U) /\ IsFiniteSet(U \cup h)  BY <2>8, <2>9, <3>1, FiredIsCounted
    <3>3. PICK x \in h : x \notin U  BY <2>5, <3>1
    <3>4. U \subseteq (U \cup h) \ {x}  BY <3>3
    <3>5. IsFiniteSet((U \cup h) \ {x})  BY <3>2, FS_RemoveElement
    <3>6. Cardinality((U \cup h) \ {x}) = Cardinality(U \cup h) - 1
      BY <3>2, <3>3, FS_RemoveElement
    <3>7. Cardinality(U) <= Cardinality((U \cup h) \ {x})  BY <3>4, <3>5, FS_Subset
    <3>8. Cardinality(U) \in Nat /\ Cardinality(U \cup h) \in Nat  BY <3>2, FS_CardinalityType
    <3>9. Cardinality(U \cup h) >= Cardinality(U) + 1  BY <3>6, <3>7, <3>8
    <3> QED  BY <2>8, <3>1, <3>9
  <2>11. /\ b = [track |-> b.track, reason |-> b.reason] /\ b.track = u  BY <2>3, <2>6
  <2> QED  BY <2>8, <2>9, <2>10, <2>11 DEF Tracks, Fires
<1> QED  BY <1>4, <1>5

LEMMA ArmStopTracks ==
    ASSUME NEW sp \in ChartSpecs, NEW t, NEW s, Tracks(s, t, sp), NEW bar
    PROVE  Tracks(OnChart!ArmStop(s, sp, bar), t, sp)
<1> DEFINE u == [s.track EXCEPT !.armed = TRUE]
           c == [s EXCEPT !.track.armed = TRUE]
           b == OnChart!ArmStop(s, sp, bar)
<1>1. b = s \/ (b = c /\ ~ Left(s))  BY DEF OnChart!ArmStop, OnChart!Tracked, Left
<1> SUFFICES ASSUME b = c, ~ Left(s) PROVE Tracks(b, t, sp)  BY <1>1
<1> HIDE DEF b
<1>2. /\ s = [track |-> s.track, reason |-> s.reason]
      /\ s.track = [dir |-> s.track.dir, entry |-> s.track.entry, opened |-> s.track.opened,
                    atr |-> s.track.atr, armed |-> s.track.armed, fired |-> s.track.fired]
      /\ s.track.opened \in Int /\ s.track.fired \subseteq DOMAIN OnChart!Tranches(sp)
      /\ Holds(s, t) \/ Fires(s, t)
  BY DEF Tracks, IsTrack
<1>3. c = [track |-> u, reason |-> s.reason]
  <2>1. c = [s EXCEPT !.track = u]  OBVIOUS
  <2> HIDE DEF c, u
  <2> QED  BY <1>2, <2>1
<1>4. /\ u = [dir |-> s.track.dir, entry |-> s.track.entry, opened |-> s.track.opened,
              atr |-> s.track.atr, armed |-> TRUE, fired |-> s.track.fired]
      /\ u.dir = s.track.dir /\ u.opened = s.track.opened /\ u.fired = s.track.fired
  <2>1. PICK r : r = s.track  OBVIOUS
  <2>2. r = [dir |-> r.dir, entry |-> r.entry, opened |-> r.opened, atr |-> r.atr,
             armed |-> r.armed, fired |-> r.fired]
    BY <1>2, <2>1
  <2>3. u = [r EXCEPT !.armed = TRUE]  BY <2>1
  <2> HIDE DEF u
  <2>4. /\ u = [dir |-> r.dir, entry |-> r.entry, opened |-> r.opened, atr |-> r.atr,
                armed |-> TRUE, fired |-> r.fired]
        /\ u.dir = r.dir /\ u.opened = r.opened /\ u.fired = r.fired
    BY <2>2, <2>3
  <2> QED  BY <2>1, <2>4
<1> HIDE DEF c, u
<1>5. IsTrack(u, sp)  BY <1>2, <1>4 DEF IsTrack
<1>6. b = [track |-> b.track, reason |-> b.reason] /\ b.track = u /\ b.reason = s.reason
  BY <1>3
<1>7. Holds(b, t) \/ Fires(b, t)  BY <1>2, <1>4, <1>6 DEF Holds, Fires
<1> QED  BY <1>5, <1>6, <1>7 DEF Tracks

(* The structural exit ends a position that has been open for its time     *)
(* unless a tranche fired on this bar.                                     *)
LEMMA StructuralInTime ==
    ASSUME NEW sp \in ChartSpecs, NEW t, IsTrack(t, sp), NEW n \in Nat, InTime(t, sp, n - 1),
           NEW s, Tracks(s, t, sp), NEW bar
    PROVE  LET b == OnChart!Structural(s, sp, bar, n)
           IN /\ b = [track |-> b.track, reason |-> b.reason]
              /\ IsTrack(b.track, sp) /\ InTime(b.track, sp, n)
<1> DEFINE rev == -s.track.dir \in OnChart!Raw(sp, bar)
           late == n - s.track.opened >= sp.maxBars - 1
           why == CASE rev -> "Reversal" [] late -> "Time"
                    [] s.track.dir \in bar.breaks -> "Structural" [] OTHER -> OnChart!NoSignal
           new == OnChart!Enter(-s.track.dir, bar, n)
           gone == OnChart!Exit(s, why)
           turned == [gone EXCEPT !.track = new]
           stays == "trail" \notin sp.exits \/ ~ OnChart!Tracked(s) \/ why = OnChart!NoSignal
           b == OnChart!Structural(s, sp, bar, n)
<1>1. b = IF stays THEN s ELSE IF rev THEN turned ELSE gone
  BY DEF OnChart!Structural
<1>2. gone = [track |-> OnChart!NoTrack, reason |-> why]  BY DEF OnChart!Exit
<1>3. late => why # OnChart!NoSignal
  <2>1. rev \in BOOLEAN /\ late \in BOOLEAN  OBVIOUS
  <2> DEFINE br == s.track.dir \in bar.breaks
  <2> HIDE DEF rev, late, br
  <2>2. late => (CASE rev -> "Reversal" [] late -> "Time" [] br -> "Structural"
                   [] OTHER -> OnChart!NoSignal) \in {"Reversal", "Time", "Structural"}
    BY <2>1
  <2>3. late => why \in {"Reversal", "Time", "Structural"}  BY <2>2 DEF br
  <2> QED  BY <2>3, ChartReasons
<1> SUFFICES /\ b = [track |-> b.track, reason |-> b.reason]
             /\ IsTrack(b.track, sp) /\ InTime(b.track, sp, n)
  OBVIOUS
<1> HIDE DEF b, why
<1>4. CASE stays
  <2>1. b = s  BY <1>1, <1>4
  <2>2. b = [track |-> b.track, reason |-> b.reason] /\ IsTrack(b.track, sp)  BY <2>1 DEF Tracks
  <2>3. ASSUME s.track.dir # 0, "trail" \in sp.exits
        PROVE  n - s.track.opened <= sp.maxBars - 2 + Cardinality(s.track.fired)
    <3>1. /\ sp.maxBars \in Int /\ s.track.opened \in Int /\ t.opened \in Int
      BY ChartAssumption DEF Tracks, IsTrack
    <3>2. Cardinality(t.fired) \in Nat  BY FiredIsCounted
    <3>3. IsTrack(s.track, sp)  BY DEF Tracks
    <3>4. PICK r : r = s.track  OBVIOUS
    <3>5. Cardinality(r.fired) \in Nat  BY <3>3, <3>4, FiredIsCounted
    <3>6. CASE Left(s)  BY <2>3, <3>6, NoTrackType DEF Left
    <3>7. CASE Holds(s, t)
      <4>1. OnChart!Tracked(s)  BY <2>3, <3>7 DEF Holds, OnChart!Tracked, OnChart!NoDir
      <4>2. ~ late  BY <1>3, <1>4, <2>3, <4>1
      <4> QED  BY <3>1, <3>4, <3>5, <4>2
    <3>8. CASE Fires(s, t)
      <4>1. /\ t.dir # 0 /\ s.track.opened = t.opened
            /\ Cardinality(r.fired) >= Cardinality(t.fired) + 1
        BY <2>3, <3>4, <3>8 DEF Fires
      <4>2. n - 1 - t.opened <= sp.maxBars - 2 + Cardinality(t.fired)  BY <2>3, <4>1 DEF InTime
      <4> QED  BY <3>1, <3>2, <3>4, <3>5, <4>1, <4>2
    <3> QED  BY <3>6, <3>7, <3>8 DEF Tracks
  <2> QED  BY <2>1, <2>2, <2>3 DEF InTime
<1>5. CASE ~ stays /\ rev
  <2>1. b = [track |-> new, reason |-> why]
    <3> HIDE DEF gone, new, rev, stays
    <3>1. b = turned  BY <1>1, <1>5
    <3> QED  BY <1>2, <3>1
  <2>2. IsTrack(new, sp) /\ InTime(new, sp, n)
    <3>1. PICK d : d = -s.track.dir  OBVIOUS
    <3> QED  BY <3>1, EnteredInTime
  <2> HIDE DEF new
  <2> QED  BY <2>1, <2>2
<1>6. CASE ~ stays /\ ~ rev
  <2>1. b = gone  BY <1>1, <1>6
  <2> QED  BY <1>2, <2>1, NoTrackType
<1> QED  BY <1>4, <1>5, <1>6

LEMMA BarInTime ==
    ASSUME NEW sp \in ChartSpecs, NEW t, IsTrack(t, sp), NEW n \in Nat, InTime(t, sp, n - 1), NEW bar
    PROVE  LET b == OnChart!Open(OnChart!Script(t, sp, bar, n), sp, bar, n)
           IN IsTrack(b.track, sp) /\ InTime(b.track, sp, n)
<1> DEFINE s2 == OnChart!Emergency(OnChart!DeferredStop(OnChart!BarStart(t)), sp, bar)
           s3 == OnChart!Targets(s2, sp, bar, n)
           s4 == OnChart!ArmStop(s3, sp, bar)
           s5 == OnChart!Structural(s4, sp, bar, n)
           b == OnChart!Open(s5, sp, bar, n)
<1>1. OnChart!Script(t, sp, bar, n) = s5  BY DEF OnChart!Script
<1>2. s2 = OnChart!BarStart(t) \/ (Tracks(s2, t, sp) /\ Left(s2))  BY StopTracks
<1> HIDE DEF s2
<1>3. Tracks(s3, t, sp)  BY <1>2, TargetsTrack
<1> HIDE DEF s3
<1>4. Tracks(s4, t, sp)  BY <1>3, ArmStopTracks
<1> HIDE DEF s4
<1>5. /\ s5 = [track |-> s5.track, reason |-> s5.reason]
      /\ IsTrack(s5.track, sp) /\ InTime(s5.track, sp, n)
  BY <1>4, StructuralInTime
<1> HIDE DEF s5
<1>6. PICK dir : b = s5 \/ b = [s5 EXCEPT !.track = OnChart!Enter(dir, bar, n)]
  BY DEF OnChart!Open
<1> HIDE DEF b
<1>7. PICK e : e = OnChart!Enter(dir, bar, n)  OBVIOUS
<1>8. IsTrack(e, sp) /\ InTime(e, sp, n)  BY <1>7, EnteredInTime
<1>9. IsTrack(b.track, sp) /\ InTime(b.track, sp, n)
  <2>1. CASE b = s5  BY <1>5, <2>1
  <2>2. CASE b = [s5 EXCEPT !.track = e]
    <3>1. b.track = e  BY <1>5, <2>2
    <3> QED  BY <1>8, <3>1
  <2> QED  BY <1>6, <1>7, <2>1, <2>2
<1> QED  BY <1>1, <1>9 DEF b

ChartInv ==
    part = "chart" => /\ cspec \in ChartSpecs
                      /\ i \in Nat
                      /\ IsTrack(track, cspec) /\ InTime(track, cspec, i)

LEMMA ChartInit == Init => ChartInv
<1> SUFFICES ASSUME Init, part = "chart"
             PROVE  cspec \in ChartSpecs /\ i \in Nat /\ IsTrack(track, cspec) /\ InTime(track, cspec, i)
  BY DEF ChartInv
<1>1. OnChart!Init  BY DEF Init
<1>2. cspec \in ChartSpecs /\ i = 0 /\ track = OnChart!NoTrack  BY <1>1 DEF OnChart!Init
<1>3. PICK sp : sp = cspec  OBVIOUS
<1>4. IsTrack(OnChart!NoTrack, sp) /\ InTime(OnChart!NoTrack, sp, 0)  BY NoTrackType
<1> QED  BY <1>2, <1>3, <1>4

LEMMA ChartStep == ChartInv /\ [Next]_vars => ChartInv'
<1> SUFFICES ASSUME ChartInv, [Next]_vars, part' = "chart"
             PROVE  ChartInv'
  BY DEF ChartInv
<1>1. CASE part = "test"  BY <1>1 DEF Next, vars
<1>2. CASE UNCHANGED vars  BY <1>2 DEF vars, charting, ChartInv
<1>3. ASSUME part = "chart", NEW bar \in ChartBars, OnChart!Bar(bar)
      PROVE  ChartInv'
  <2>1. PICK sp \in ChartSpecs : sp = cspec  BY <1>3 DEF ChartInv
  <2>2. PICK t : t = track  OBVIOUS
  <2>3. PICK k \in Nat : k = i  BY <1>3 DEF ChartInv
  <2>4. PICK n \in Nat : n = k + 1  OBVIOUS
  <2>5. IsTrack(t, sp) /\ InTime(t, sp, n - 1)
    <3>1. n - 1 = k  BY <2>4
    <3>2. IsTrack(t, sp) /\ InTime(t, sp, k)  BY <1>3, <2>1, <2>2, <2>3 DEF ChartInv
    <3> QED  BY <3>1, <3>2
  <2>6. /\ i' = n /\ cspec' = sp
        /\ track' = OnChart!Open(OnChart!Script(t, sp, bar, n), sp, bar, n).track
    BY <1>3, <2>1, <2>2, <2>3, <2>4 DEF OnChart!Bar
  <2>7. PICK u : u = OnChart!Open(OnChart!Script(t, sp, bar, n), sp, bar, n)  OBVIOUS
  <2>8. IsTrack(u.track, sp) /\ InTime(u.track, sp, n)  BY <2>5, <2>7, BarInTime
  <2> QED  BY <2>6, <2>7, <2>8 DEF ChartInv
<1> QED  BY <1>1, <1>2, <1>3 DEF Next

(* With a structural exit the tracker that the generated indicator keeps   *)
(* leaves every position, in which it would alert no entry any more, by    *)
(* time: only a tranche that fires for the first time puts that off        *)
(* (emitExitStateMachine).                                                 *)
THEOREM TrackerLetsGoHolds == Spec => []TrackerLetsGo
<1>1. ChartInv => TrackerLetsGo
  BY ChartCardinality DEF ChartInv, InTime, TrackerLetsGo, OnChart!TrackerLetsGo, OnChart!NoDir
<1> QED  BY <1>1, ChartInit, ChartStep, PTL DEF Spec

-----------------------------------------------------------------------------
(* The legacy strategy beside the runtime, on a port of it.                *)

LegacyUnits == [units : Int, mult : Int, closed : BOOLEAN]
LegacyAccounts ==
    [equity : Nat, dir : {1, -1, 0}, subs : Seq(LegacyUnits), price : Int, opened : Int,
     atr : Int, tp1Hit : BOOLEAN, tp1 : Int, pendingEntry : [dir : {1, -1, 0}, atr : Int],
     pendingClose : {Test!NoSignal, "SL", "Time", "Reversal", "Structural"},
     slTriggered : BOOLEAN, trades : Int, profit : Int, loss : Int]

(* What the legacy account keeps when subs are closed.                     *)
LegacyKeeps(g, h) ==
    /\ h.dir = g.dir /\ h.price = g.price /\ h.opened = g.opened /\ h.atr = g.atr
    /\ h.tp1Hit = g.tp1Hit /\ h.tp1 = g.tp1 /\ h.pendingEntry = g.pendingEntry
    /\ h.pendingClose = g.pendingClose /\ h.slTriggered = g.slTriggered

(* The same money, the same three tranches.                                *)
Mirror(a, g) ==
    /\ a.equity = g.equity /\ a.pos.dir = g.dir /\ a.pos.price = g.price
    /\ Len(a.pos.subs) = 3 /\ Len(g.subs) = 3
    /\ \A s \in 1 .. 3 : /\ a.pos.subs[s].units = g.subs[s].units
                         /\ a.pos.subs[s].closed = g.subs[s].closed

(* Tranches keep their limits, and closed ones stay closed.                *)
KeepsLimits(a, g, b, h) ==
    \A s \in 1 .. 3 : /\ b.pos.subs[s].target = a.pos.subs[s].target
                      /\ h.subs[s].mult = g.subs[s].mult
                      /\ g.subs[s].closed => h.subs[s].closed

Closes(a, g, b, h, sp, n) ==
    /\ b \in Accounts /\ Booked(b, sp.fitnessStart, n) /\ h \in LegacyAccounts
    /\ SameButSubs(a, b) /\ LegacyKeeps(g, h)
    /\ Mirror(b, h) /\ KeepsLimits(a, g, b, h)

LEMMA ClosesTransitive ==
    ASSUME NEW a, NEW g, NEW b, NEW h, NEW c, NEW j, NEW sp, NEW n,
           Closes(a, g, b, h, sp, n), Closes(b, h, c, j, sp, n)
    PROVE  Closes(a, g, c, j, sp, n)
<1>1. SameButSubs(a, c)  BY DEF Closes, SameButSubs
<1>2. LegacyKeeps(g, j)  BY DEF Closes, LegacyKeeps
<1>3. KeepsLimits(a, g, c, j)  BY DEF Closes, KeepsLimits
<1> QED  BY <1>1, <1>2, <1>3 DEF Closes

LEMMA FieldsOfLegacy ==
    ASSUME NEW g \in LegacyAccounts
    PROVE  /\ g.equity \in Nat /\ g.dir \in {1, -1, 0} /\ g.subs \in Seq(LegacyUnits) /\ g.price \in Int
           /\ g.opened \in Int /\ g.atr \in Int /\ g.tp1Hit \in BOOLEAN /\ g.tp1 \in Int
           /\ g.pendingEntry \in [dir : {1, -1, 0}, atr : Int] /\ g.slTriggered \in BOOLEAN
           /\ g.trades \in Int /\ g.profit \in Int /\ g.loss \in Int
           /\ DOMAIN g.subs = 1 .. Len(g.subs) /\ Len(g.subs) \in Nat
<1>1. /\ g.equity \in Nat /\ g.dir \in {1, -1, 0} /\ g.subs \in Seq(LegacyUnits) /\ g.price \in Int
      /\ g.opened \in Int /\ g.atr \in Int /\ g.tp1Hit \in BOOLEAN /\ g.tp1 \in Int
  BY DEF LegacyAccounts
<1>2. /\ g.pendingEntry \in [dir : {1, -1, 0}, atr : Int] /\ g.slTriggered \in BOOLEAN
      /\ g.trades \in Int /\ g.profit \in Int /\ g.loss \in Int
  BY DEF LegacyAccounts
<1> QED  BY <1>1, <1>2

(* What closing a sub does, on either side.                                *)
LEMMA CloseSubDoes ==
    ASSUME NEW a \in Accounts, NEW sp, NEW s \in 1 .. Len(a.pos.subs), NEW exit \in Int, NEW n \in Int,
           ~ a.pos.subs[s].closed
    PROVE  /\ Test!CloseSub(a, sp, s, exit, n).equity =
                  Test!SizeMax(0, a.equity + Test!Pnl(a.pos, a.pos.subs[s].units, exit))
           /\ Test!CloseSub(a, sp, s, exit, n).pos.subs = [a.pos.subs EXCEPT ![s].closed = TRUE]
<1> DEFINE pnl == Test!Pnl(a.pos, a.pos.subs[s].units, exit)
           counted == n >= sp.fitnessStart
           equity == Test!SizeMax(0, a.equity + pnl)
           fl == a.floored \/ a.equity + pnl < 0
           tr == IF counted THEN a.trades + 1 ELSE a.trades
           pr == IF counted /\ pnl > 0 THEN a.profit + pnl ELSE a.profit
           lo == IF counted /\ pnl <= 0 THEN a.loss - pnl ELSE a.loss
           st == IF Test!ReadsStats(sp.sizing) THEN Test!WithTrade(a.stats, pnl, equity) ELSE a.stats
           subs == [a.pos.subs EXCEPT ![s].closed = TRUE]
           q == [a.pos EXCEPT !.subs = subs]
           c == [a EXCEPT !.equity = equity, !.pos = q, !.floored = fl, !.trades = tr, !.profit = pr,
                          !.loss = lo, !.stats = st]
           peak == Test!SizeMax(c.peak, equity)
           dd == Test!SizeMax(c.maxDD, peak - equity)
           d == [c EXCEPT !.peak = peak, !.maxDD = dd]
<1>1. Test!CloseSub(a, sp, s, exit, n) = d  BY DEF Test!CloseSub, Test!Drawn
<1> HIDE DEF subs, fl, tr, pr, lo, st, pnl, equity, peak, dd
<1>2. a.pos \in Positions  BY DEF Accounts
<1>3. q.subs = subs  BY <1>2 DEF Positions
<1> HIDE DEF q
<1>4. d.equity = equity /\ d.pos = q  BY DEF Accounts
<1> HIDE DEF d
<1> QED  BY <1>1, <1>3, <1>4 DEF subs, equity, pnl

LEMMA LegacyCloseSubDoes ==
    ASSUME NEW g \in LegacyAccounts, NEW s \in 1 .. Len(g.subs), NEW exit, ~ g.subs[s].closed,
           Test!Pnl([dir |-> g.dir, price |-> g.price], g.subs[s].units, exit) \in Int
    PROVE  /\ Test!LegacyCloseSub(g, s, exit) \in LegacyAccounts
           /\ LegacyKeeps(g, Test!LegacyCloseSub(g, s, exit))
           /\ Test!LegacyCloseSub(g, s, exit).equity =
                  Test!SizeMax(0, g.equity + Test!Pnl([dir |-> g.dir, price |-> g.price], g.subs[s].units, exit))
           /\ Test!LegacyCloseSub(g, s, exit).subs = [g.subs EXCEPT ![s].closed = TRUE]
<1> DEFINE pnl == Test!Pnl([dir |-> g.dir, price |-> g.price], g.subs[s].units, exit)
           equity == Test!SizeMax(0, g.equity + pnl)
           subs == [g.subs EXCEPT ![s].closed = TRUE]
           tr == g.trades + 1
           pr == IF pnl > 0 THEN g.profit + pnl ELSE g.profit
           lo == IF pnl <= 0 THEN g.loss - pnl ELSE g.loss
           h == [g EXCEPT !.equity = equity, !.subs = subs, !.trades = tr, !.profit = pr, !.loss = lo]
<1>1. Test!LegacyCloseSub(g, s, exit) = h  BY DEF Test!LegacyCloseSub
<1>2. pnl \in Int /\ g.equity \in Nat /\ g.trades \in Int /\ g.profit \in Int /\ g.loss \in Int
      /\ g.subs \in Seq(LegacyUnits) /\ g.subs[s] \in LegacyUnits
  BY FieldsOfLegacy
<1> HIDE DEF pnl
<1>3. equity \in Nat /\ tr \in Int /\ pr \in Int /\ lo \in Int
  <2>1. equity \in Nat
    <3>1. PICK m \in Int : m = g.equity + pnl  BY <1>2
    <3> QED  BY <3>1 DEF Test!SizeMax
  <2>2. tr \in Int  BY <1>2
  <2>3. pr \in Int /\ lo \in Int  BY <1>2
  <2> QED  BY <2>1, <2>2, <2>3
<1>4. subs \in Seq(LegacyUnits)
  <2>1. [g.subs[s] EXCEPT !.closed = TRUE] \in LegacyUnits  BY <1>2 DEF LegacyUnits
  <2> QED  BY <1>2, <2>1
<1> HIDE DEF equity, subs, tr, pr, lo
<1>5. h \in LegacyAccounts /\ h.equity = equity /\ h.subs = subs  BY <1>3, <1>4 DEF LegacyAccounts
<1>6. LegacyKeeps(g, h)  BY DEF LegacyAccounts, LegacyKeeps
<1> HIDE DEF h
<1> QED  BY <1>1, <1>5, <1>6 DEF equity, subs, pnl

LEMMA CloseSubMirrors ==
    ASSUME NEW a \in Accounts, NEW g \in LegacyAccounts, NEW sp, Test!IsSizing(sp.sizing),
           sp.fitnessStart \in Int, NEW n \in Int, Booked(a, sp.fitnessStart, n), Mirror(a, g),
           NEW s \in 1 .. 3, NEW exit \in Int
    PROVE  /\ Closes(a, g, Test!CloseSub(a, sp, s, exit, n), Test!LegacyCloseSub(g, s, exit), sp, n)
           /\ Test!LegacyCloseSub(g, s, exit).subs[s].closed
<1> DEFINE b == Test!CloseSub(a, sp, s, exit, n)
           h == Test!LegacyCloseSub(g, s, exit)
           pnl == Test!Pnl(a.pos, a.pos.subs[s].units, exit)
<1>1. /\ Len(a.pos.subs) = 3 /\ Len(g.subs) = 3 /\ s \in 1 .. Len(a.pos.subs) /\ s \in 1 .. Len(g.subs)
      /\ a.pos.subs \in Seq(SubUnits) /\ g.subs \in Seq(LegacyUnits)
  BY FieldsOfAccount, FieldsOfLegacy DEF Mirror
<1>2. b \in Accounts /\ Booked(b, sp.fitnessStart, n) /\ SameButSubs(a, b)  BY <1>1, CloseSubType
<1>3. /\ a.pos.subs[s].units = g.subs[s].units /\ a.pos.subs[s].closed = g.subs[s].closed
      /\ a.pos.dir = g.dir /\ a.pos.price = g.price /\ a.equity = g.equity
  BY DEF Mirror
<1>4. CASE g.subs[s].closed
  <2>1. b = a  BY <1>3, <1>4 DEF Test!CloseSub
  <2>2. h = g  BY <1>4 DEF Test!LegacyCloseSub
  <2> HIDE DEF b, h
  <2>3. LegacyKeeps(g, h) /\ KeepsLimits(a, g, b, h)  BY <2>1, <2>2 DEF LegacyKeeps, KeepsLimits
  <2> QED  BY <1>2, <1>4, <2>1, <2>2, <2>3 DEF Closes, b, h
<1>5. CASE ~ g.subs[s].closed
  <2>1. pnl \in Int
    <3>1. a.pos \in Positions  BY FieldsOfAccount
    <3>2. a.pos.subs[s] \in SubUnits  BY <1>1
    <3>3. a.pos.subs[s].units \in Int  BY <3>2 DEF SubUnits
    <3> QED  BY <3>1, <3>3, PnlIsInt
  <2>2. Test!Pnl([dir |-> g.dir, price |-> g.price], g.subs[s].units, exit) = pnl
    BY <1>3 DEF Test!Pnl
  <2>3. /\ b.equity = Test!SizeMax(0, a.equity + pnl)
        /\ b.pos.subs = [a.pos.subs EXCEPT ![s].closed = TRUE]
    <3>1. ~ a.pos.subs[s].closed  BY <1>3, <1>5
    <3>2. s \in 1 .. Len(a.pos.subs)  BY <1>1
    <3> QED  BY <3>1, <3>2, CloseSubDoes
  <2>4. /\ h \in LegacyAccounts /\ LegacyKeeps(g, h)
        /\ h.equity = Test!SizeMax(0, g.equity + pnl)
        /\ h.subs = [g.subs EXCEPT ![s].closed = TRUE]
    <3>1. Test!Pnl([dir |-> g.dir, price |-> g.price], g.subs[s].units, exit) \in Int  BY <2>1, <2>2
    <3>2. /\ h \in LegacyAccounts /\ LegacyKeeps(g, h)
          /\ h.equity = Test!SizeMax(0, g.equity + Test!Pnl([dir |-> g.dir, price |-> g.price], g.subs[s].units, exit))
          /\ h.subs = [g.subs EXCEPT ![s].closed = TRUE]
      BY <1>1, <1>5, <3>1, LegacyCloseSubDoes
    <3> HIDE DEF h, pnl
    <3> QED  BY <2>2, <3>2
  <2> HIDE DEF b, h, pnl
  <2>5. /\ b.pos.dir = h.dir /\ b.pos.price = h.price  BY <1>2, <1>3, <2>4 DEF SameButSubs, LegacyKeeps
  <2>6. ASSUME NEW t \in 1 .. 3
        PROVE  /\ b.pos.subs[t].units = h.subs[t].units /\ b.pos.subs[t].closed = h.subs[t].closed
               /\ b.pos.subs[t].target = a.pos.subs[t].target /\ h.subs[t].mult = g.subs[t].mult
               /\ g.subs[t].closed => h.subs[t].closed
    <3>1. /\ a.pos.subs[t].units = g.subs[t].units /\ a.pos.subs[t].closed = g.subs[t].closed
          /\ a.pos.subs[t] \in SubUnits /\ g.subs[t] \in LegacyUnits
      <4>1. a.pos.subs[t].units = g.subs[t].units /\ a.pos.subs[t].closed = g.subs[t].closed
        BY DEF Mirror
      <4>2. a.pos.subs[t] \in SubUnits /\ g.subs[t] \in LegacyUnits  BY <1>1
      <4> QED  BY Zenon, <4>1, <4>2
    <3>2. CASE t = s
      <4>1. /\ b.pos.subs[t] = [a.pos.subs[t] EXCEPT !.closed = TRUE]
            /\ h.subs[t] = [g.subs[t] EXCEPT !.closed = TRUE]
        BY <1>1, <2>3, <2>4, <3>2
      <4> QED  BY <3>1, <4>1 DEF SubUnits, LegacyUnits
    <3>3. CASE t # s
      <4>1. b.pos.subs[t] = a.pos.subs[t] /\ h.subs[t] = g.subs[t]
        BY <1>1, <2>3, <2>4, <3>3
      <4> QED  BY <3>1, <4>1
    <3> QED  BY <3>2, <3>3
  <2>7. Len(b.pos.subs) = 3 /\ Len(h.subs) = 3  BY <1>1, <2>3, <2>4
  <2>8. Mirror(b, h)  BY <1>3, <2>3, <2>4, <2>5, <2>6, <2>7 DEF Mirror
  <2>9. KeepsLimits(a, g, b, h)  BY <2>6 DEF KeepsLimits
  <2>10. h.subs[s].closed
    <3>1. h.subs[s] = [g.subs[s] EXCEPT !.closed = TRUE] /\ g.subs[s] \in LegacyUnits  BY <1>1, <2>4
    <3> QED  BY <3>1 DEF LegacyUnits
  <2> QED  BY <1>2, <2>4, <2>8, <2>9, <2>10 DEF Closes, b, h
<1> QED  BY <1>4, <1>5

Does(a, sp, s, exits, n) == IF s \in DOMAIN exits THEN Test!CloseSub(a, sp, s, exits[s], n) ELSE a
LegacyDoes(g, s, exits) == IF s \in DOMAIN exits THEN Test!LegacyCloseSub(g, s, exits[s]) ELSE g

LEMMA ThreeCloses ==
    ASSUME NEW a, Len(a.pos.subs) = 3, NEW sp, NEW exits, NEW n
    PROVE  Test!CloseSubs(a, sp, exits, n) =
               Does(Does(Does(a, sp, 1, exits, n), sp, 2, exits, n), sp, 3, exits, n)
<1> DEFINE Done(f) == f = [s \in 0 .. 3 |-> IF s = 0 THEN a ELSE Does(f[s - 1], sp, s, exits, n)]
           done == CHOOSE f : Done(f)
           one == Does(a, sp, 1, exits, n)
           two == Does(one, sp, 2, exits, n)
           three == Does(two, sp, 3, exits, n)
           w == [s \in 0 .. 3 |-> IF s = 0 THEN a ELSE IF s = 1 THEN one ELSE IF s = 2 THEN two ELSE three]
<1>1. Test!CloseSubs(a, sp, exits, n) = done[3]  BY DEF Test!CloseSubs, Does
<1>2. Done(w)
  <2>1. w[0] = a /\ w[1] = one /\ w[2] = two  OBVIOUS
  <2>2. ASSUME NEW s \in 0 .. 3 PROVE w[s] = IF s = 0 THEN a ELSE Does(w[s - 1], sp, s, exits, n)
    <3> HIDE DEF one, two, three
    <3>1. s \in {0, 1, 2, 3}  OBVIOUS
    <3>2. CASE s = 0  BY <3>2
    <3>3. CASE s = 1
      <4>1. w[s] = one /\ s - 1 = 0  BY <3>3
      <4> HIDE DEF w
      <4> QED  BY <2>1, <3>3, <4>1 DEF one
    <3>4. CASE s = 2
      <4>1. w[s] = two /\ s - 1 = 1  BY <3>4
      <4> HIDE DEF w
      <4> QED  BY <2>1, <3>4, <4>1 DEF two
    <3>5. CASE s = 3
      <4>1. w[s] = three /\ s - 1 = 2  BY <3>5
      <4> HIDE DEF w
      <4> QED  BY <2>1, <3>5, <4>1 DEF three
    <3> QED  BY <3>1, <3>2, <3>3, <3>4, <3>5
  <2>3. w = [s \in 0 .. 3 |-> w[s]]  OBVIOUS
  <2> HIDE DEF w
  <2> QED  BY <2>2, <2>3
<1> HIDE DEF w, one, two, three
<1>3. Done(done)
  <2> HIDE DEF Done
  <2> QED  BY <1>2
<1> HIDE DEF done
<1>4. done[0] = a /\ done[1] = Does(done[0], sp, 1, exits, n) /\ done[2] = Does(done[1], sp, 2, exits, n)
      /\ done[3] = Does(done[2], sp, 3, exits, n)
  <2>1. \A s \in 0 .. 3 : done[s] = IF s = 0 THEN a ELSE Does(done[s - 1], sp, s, exits, n)  BY <1>3
  <2> HIDE DEF Done
  <2>2. 0 \in 0 .. 3 /\ 1 \in 0 .. 3 /\ 2 \in 0 .. 3 /\ 3 \in 0 .. 3 /\ 1 - 1 = 0 /\ 2 - 1 = 1 /\ 3 - 1 = 2
    OBVIOUS
  <2> QED  BY <2>1, <2>2
<1> QED  BY <1>1, <1>4 DEF one, two, three

LEMMA ThreeLegacyCloses ==
    ASSUME NEW g, Len(g.subs) = 3, NEW exits
    PROVE  Test!LegacyCloseSubs(g, exits) = LegacyDoes(LegacyDoes(LegacyDoes(g, 1, exits), 2, exits), 3, exits)
<1> DEFINE Done(f) == f = [s \in 0 .. 3 |-> IF s = 0 THEN g ELSE LegacyDoes(f[s - 1], s, exits)]
           done == CHOOSE f : Done(f)
           one == LegacyDoes(g, 1, exits)
           two == LegacyDoes(one, 2, exits)
           three == LegacyDoes(two, 3, exits)
           w == [s \in 0 .. 3 |-> IF s = 0 THEN g ELSE IF s = 1 THEN one ELSE IF s = 2 THEN two ELSE three]
<1>1. Test!LegacyCloseSubs(g, exits) = done[3]  BY DEF Test!LegacyCloseSubs, LegacyDoes
<1>2. Done(w)
  <2>1. w[0] = g /\ w[1] = one /\ w[2] = two  OBVIOUS
  <2>2. ASSUME NEW s \in 0 .. 3 PROVE w[s] = IF s = 0 THEN g ELSE LegacyDoes(w[s - 1], s, exits)
    <3> HIDE DEF one, two, three
    <3>1. s \in {0, 1, 2, 3}  OBVIOUS
    <3>2. CASE s = 0  BY <3>2
    <3>3. CASE s = 1
      <4>1. w[s] = one /\ s - 1 = 0  BY <3>3
      <4> HIDE DEF w
      <4> QED  BY <2>1, <3>3, <4>1 DEF one
    <3>4. CASE s = 2
      <4>1. w[s] = two /\ s - 1 = 1  BY <3>4
      <4> HIDE DEF w
      <4> QED  BY <2>1, <3>4, <4>1 DEF two
    <3>5. CASE s = 3
      <4>1. w[s] = three /\ s - 1 = 2  BY <3>5
      <4> HIDE DEF w
      <4> QED  BY <2>1, <3>5, <4>1 DEF three
    <3> QED  BY <3>1, <3>2, <3>3, <3>4, <3>5
  <2>3. w = [s \in 0 .. 3 |-> w[s]]  OBVIOUS
  <2> HIDE DEF w
  <2> QED  BY <2>2, <2>3
<1> HIDE DEF w, one, two, three
<1>3. Done(done)
  <2> HIDE DEF Done
  <2> QED  BY <1>2
<1> HIDE DEF done
<1>4. done[0] = g /\ done[1] = LegacyDoes(done[0], 1, exits) /\ done[2] = LegacyDoes(done[1], 2, exits)
      /\ done[3] = LegacyDoes(done[2], 3, exits)
  <2>1. \A s \in 0 .. 3 : done[s] = IF s = 0 THEN g ELSE LegacyDoes(done[s - 1], s, exits)  BY <1>3
  <2> HIDE DEF Done
  <2>2. 0 \in 0 .. 3 /\ 1 \in 0 .. 3 /\ 2 \in 0 .. 3 /\ 3 \in 0 .. 3 /\ 1 - 1 = 0 /\ 2 - 1 = 1 /\ 3 - 1 = 2
    OBVIOUS
  <2> QED  BY <2>1, <2>2
<1> QED  BY <1>1, <1>4 DEF one, two, three

LEMMA DoesMirrors ==
    ASSUME NEW a \in Accounts, NEW g \in LegacyAccounts, NEW sp, Test!IsSizing(sp.sizing),
           sp.fitnessStart \in Int, NEW n \in Int, Booked(a, sp.fitnessStart, n), Mirror(a, g),
           NEW s \in 1 .. 3, NEW exits, s \in DOMAIN exits => exits[s] \in Int
    PROVE  /\ Closes(a, g, Does(a, sp, s, exits, n), LegacyDoes(g, s, exits), sp, n)
           /\ s \in DOMAIN exits => LegacyDoes(g, s, exits).subs[s].closed
<1>1. CASE s \in DOMAIN exits
  <2>1. PICK e \in Int : e = exits[s]  BY <1>1
  <2>2. Does(a, sp, s, exits, n) = Test!CloseSub(a, sp, s, e, n)  BY <1>1, <2>1 DEF Does
  <2>3. LegacyDoes(g, s, exits) = Test!LegacyCloseSub(g, s, e)  BY <1>1, <2>1 DEF LegacyDoes
  <2>4. /\ Closes(a, g, Test!CloseSub(a, sp, s, e, n), Test!LegacyCloseSub(g, s, e), sp, n)
        /\ Test!LegacyCloseSub(g, s, e).subs[s].closed
    BY CloseSubMirrors
  <2> QED  BY <2>2, <2>3, <2>4
<1>2. CASE s \notin DOMAIN exits
  <2>1. Does(a, sp, s, exits, n) = a /\ LegacyDoes(g, s, exits) = g  BY <1>2 DEF Does, LegacyDoes
  <2>2. Closes(a, g, a, g, sp, n)  BY DEF Closes, SameButSubs, LegacyKeeps, KeepsLimits
  <2> QED  BY <1>2, <2>1, <2>2
<1> QED  BY <1>1, <1>2

LEMMA CloseSubsMirrors ==
    ASSUME NEW a \in Accounts, NEW g \in LegacyAccounts, NEW sp, Test!IsSizing(sp.sizing),
           sp.fitnessStart \in Int, NEW n \in Int, Booked(a, sp.fitnessStart, n), Mirror(a, g),
           NEW exits, \A s \in DOMAIN exits : exits[s] \in Int
    PROVE  /\ Closes(a, g, Test!CloseSubs(a, sp, exits, n), Test!LegacyCloseSubs(g, exits), sp, n)
           /\ 1 \in DOMAIN exits => Test!LegacyCloseSubs(g, exits).subs[1].closed
<1>1. PICK b : b = Does(a, sp, 1, exits, n)  OBVIOUS
<1>2. PICK h : h = LegacyDoes(g, 1, exits)  OBVIOUS
<1>3. PICK c : c = Does(b, sp, 2, exits, n)  OBVIOUS
<1>4. PICK j : j = LegacyDoes(h, 2, exits)  OBVIOUS
<1>5. PICK d : d = Does(c, sp, 3, exits, n)  OBVIOUS
<1>6. PICK k : k = LegacyDoes(j, 3, exits)  OBVIOUS
<1>7. d = Test!CloseSubs(a, sp, exits, n) /\ k = Test!LegacyCloseSubs(g, exits)
  <2>1. Len(a.pos.subs) = 3 /\ Len(g.subs) = 3  BY DEF Mirror
  <2> QED  BY <1>1, <1>2, <1>3, <1>4, <1>5, <1>6, <2>1, ThreeCloses, ThreeLegacyCloses
<1>8. 1 \in 1 .. 3 /\ 2 \in 1 .. 3 /\ 3 \in 1 .. 3  OBVIOUS
<1>9. Closes(a, g, b, h, sp, n) /\ (1 \in DOMAIN exits => h.subs[1].closed)
  BY <1>1, <1>2, <1>8, DoesMirrors
<1>10. b \in Accounts /\ Booked(b, sp.fitnessStart, n) /\ h \in LegacyAccounts /\ Mirror(b, h)
  BY <1>9 DEF Closes
<1>11. Closes(b, h, c, j, sp, n)  BY <1>3, <1>4, <1>8, <1>10, DoesMirrors
<1>12. c \in Accounts /\ Booked(c, sp.fitnessStart, n) /\ j \in LegacyAccounts /\ Mirror(c, j)
  BY <1>11 DEF Closes
<1>13. Closes(c, j, d, k, sp, n)  BY <1>5, <1>6, <1>8, <1>12, DoesMirrors
<1>14. Closes(b, h, d, k, sp, n)  BY <1>11, <1>13, ClosesTransitive
<1>15. Closes(a, g, d, k, sp, n)  BY <1>9, <1>14, ClosesTransitive
<1>16. h.subs[1].closed => k.subs[1].closed  BY <1>8, <1>14 DEF Closes, KeepsLimits
<1> QED  BY <1>7, <1>9, <1>15, <1>16

(* Both have left the position, at the same price.                         *)
BothLeft(a, g, b, h, sp, n) ==
    /\ b \in Accounts /\ Booked(b, sp.fitnessStart, n) /\ h \in LegacyAccounts
    /\ b.pos = Test!NoPosition /\ h.dir = 0 /\ h.subs = << >> /\ b.equity = h.equity
    /\ b.pendingEntry = a.pendingEntry /\ b.pendingClose = a.pendingClose /\ b.atr = a.atr
    /\ h.pendingEntry = g.pendingEntry /\ h.pendingClose = g.pendingClose
    /\ h.slTriggered = g.slTriggered

LEMMA BothLeave ==
    ASSUME NEW a, NEW g, NEW b, NEW h, NEW sp, NEW n, Closes(a, g, b, h, sp, n)
    PROVE  BothLeft(a, g, [b EXCEPT !.pos = Test!NoPosition], [h EXCEPT !.dir = 0, !.subs = << >>], sp, n)
<1> DEFINE c == [b EXCEPT !.pos = Test!NoPosition]
           j == [h EXCEPT !.dir = 0, !.subs = << >>]
<1>1. b \in Accounts /\ Booked(b, sp.fitnessStart, n) /\ h \in LegacyAccounts /\ b.equity = h.equity
  BY DEF Closes, Mirror
<1>2. /\ c \in Accounts /\ c.pos = Test!NoPosition /\ c.equity = b.equity
      /\ c.pendingEntry = b.pendingEntry /\ c.pendingClose = b.pendingClose /\ c.atr = b.atr
  BY <1>1, NoPositionType DEF Accounts
<1>3. Booked(c, sp.fitnessStart, n)  BY <1>1 DEF Booked, Accounts
<1>4. << >> \in Seq(LegacyUnits)  OBVIOUS
<1>5. /\ j \in LegacyAccounts /\ j.dir = 0 /\ j.subs = << >> /\ j.equity = h.equity
      /\ j.pendingEntry = h.pendingEntry /\ j.pendingClose = h.pendingClose
      /\ j.slTriggered = h.slTriggered
  BY <1>1, <1>4 DEF LegacyAccounts
<1> HIDE DEF c, j
<1>6. BothLeft(a, g, c, j, sp, n)
  BY <1>1, <1>2, <1>3, <1>5 DEF BothLeft, Closes, SameButSubs, LegacyKeeps
<1> QED  BY <1>6 DEF c, j

LEMMA CloseAllMirrors ==
    ASSUME NEW a \in Accounts, NEW g \in LegacyAccounts, NEW sp, Test!IsSizing(sp.sizing),
           sp.fitnessStart \in Int, NEW n \in Int, Booked(a, sp.fitnessStart, n), Mirror(a, g),
           NEW exit \in Int
    PROVE  BothLeft(a, g, Test!CloseAll(a, sp, exit, n), Test!LegacyCloseAll(g, exit), sp, n)
<1> DEFINE exits == [s \in 1 .. 3 |-> exit]
<1>1. DOMAIN a.pos.subs = 1 .. 3 /\ DOMAIN g.subs = 1 .. 3
  <2>1. DOMAIN a.pos.subs = 1 .. Len(a.pos.subs) /\ DOMAIN g.subs = 1 .. Len(g.subs)
    BY FieldsOfAccount, FieldsOfLegacy
  <2> QED  BY <2>1 DEF Mirror
<1>2. [s \in DOMAIN a.pos.subs |-> exit] = exits /\ [s \in DOMAIN g.subs |-> exit] = exits  BY <1>1
<1>3. \A s \in DOMAIN exits : exits[s] \in Int  OBVIOUS
<1> HIDE DEF exits
<1>4. PICK b : b = Test!CloseSubs(a, sp, exits, n)  OBVIOUS
<1>5. PICK h : h = Test!LegacyCloseSubs(g, exits)  OBVIOUS
<1>6. Closes(a, g, b, h, sp, n)  BY <1>3, <1>4, <1>5, CloseSubsMirrors
<1>7. Test!CloseAll(a, sp, exit, n) = [b EXCEPT !.pos = Test!NoPosition]
  BY <1>2, <1>4 DEF Test!CloseAll
<1>8. Test!LegacyCloseAll(g, exit) = [h EXCEPT !.dir = 0, !.subs = << >>]
  BY <1>2, <1>5 DEF Test!LegacyCloseAll, Test!NoDir
<1>9. BothLeft(a, g, [b EXCEPT !.pos = Test!NoPosition], [h EXCEPT !.dir = 0, !.subs = << >>], sp, n)
  BY <1>6, BothLeave
<1> QED  BY <1>7, <1>8, <1>9, Zenon

(* The same position: prices, tranches with their limits, and the bar of   *)
(* the first target, which is not after bar n.                             *)
LimitOf(g, s) == g.price + g.dir * g.atr * g.subs[s].mult
Alike(a, g, n) ==
    /\ Mirror(a, g)
    /\ a.pos.opened = g.opened /\ a.pos.atr = g.atr /\ a.pos.tp1 = g.tp1
    /\ g.price > 0 /\ g.atr > 0
    /\ \A s \in 1 .. 3 : g.subs[s].mult > 0 /\ a.pos.subs[s].target = LimitOf(g, s)
    /\ \E s \in 1 .. 3 : ~ g.subs[s].closed
    /\ g.tp1 # -1 => g.opened < g.tp1 /\ g.tp1 <= n /\ g.subs[1].closed
    /\ g.tp1Hit => g.tp1 # -1

Same(a, g, n) ==
    /\ g \in LegacyAccounts
    /\ a.equity = g.equity /\ a.pos.dir = g.dir
    /\ g.dir = 0 => a.pos = Test!NoPosition /\ g.subs = << >>
    /\ g.dir # 0 => Alike(a, g, n)

(* The same entry is queued, unless the account is worth nothing.          *)
SameQueue(a, g) ==
    /\ (g.dir = 0 /\ a.equity = 0) \/ a.pendingEntry = g.pendingEntry.dir
    /\ g.pendingEntry # Test!NoEntry => g.pendingEntry.dir # 0 /\ g.pendingEntry.atr = a.atr

(* After bar n.                                                            *)
Twin(a, g, n) ==
    /\ Same(a, g, n)
    /\ SameQueue(a, g)
    /\ a.atr >= 0
    /\ a.pendingClose = g.pendingClose
    /\ g.dir = 0 => g.pendingClose = Test!NoSignal
    /\ g.pendingClose = Test!NoSignal => a.pos.triggered = g.slTriggered
    /\ g.dir # 0 /\ g.pendingEntry # Test!NoEntry => g.pendingClose # Test!NoSignal

(* After the queued close of bar n has been filled.                        *)
Emptied(a, g, n) ==
    /\ Same(a, g, n - 1)
    /\ SameQueue(a, g)
    /\ a.atr >= 0
    /\ a.pendingClose = Test!NoSignal /\ g.pendingClose = Test!NoSignal
    /\ g.dir # 0 => a.pos.triggered = g.slTriggered /\ g.pendingEntry = Test!NoEntry

(* What Same reads of an account of the legacy strategy.                   *)
SamePlace(g, h) ==
    /\ h.equity = g.equity /\ h.dir = g.dir /\ h.price = g.price /\ h.opened = g.opened
    /\ h.atr = g.atr /\ h.tp1Hit = g.tp1Hit /\ h.tp1 = g.tp1 /\ h.subs = g.subs

LEMMA SameOnEqualParts ==
    ASSUME NEW a, NEW b, NEW g, NEW h, NEW n, h \in LegacyAccounts, SamePlace(g, h),
           b.equity = a.equity, b.pos = a.pos, Same(a, g, n)
    PROVE  Same(b, h, n)
<1>1. Mirror(a, g) => Mirror(b, h)  BY DEF Mirror, SamePlace
<1>2. \A s \in 1 .. 3 : LimitOf(g, s) = LimitOf(h, s)  BY DEF SamePlace, LimitOf
<1>3. Alike(a, g, n) => Alike(b, h, n)  BY <1>1, <1>2 DEF Alike, SamePlace
<1> QED  BY <1>3 DEF Same, SamePlace

LEMMA CloseTwins ==
    ASSUME NEW a \in Accounts, NEW g, NEW sp, Test!IsSizing(sp.sizing), sp.fitnessStart \in Int,
           NEW n \in Nat, NEW bar, bar.open \in Int, Booked(a, sp.fitnessStart, n), Twin(a, g, n - 1)
    PROVE  /\ Emptied(Test!ExecuteClose(a, sp, n, bar), Test!LegacyExecuteClose(g, bar), n)
           /\ Test!LegacyExecuteClose(g, bar).slTriggered = g.slTriggered
           /\ Test!LegacyExecuteClose(g, bar).pendingEntry = g.pendingEntry
<1> DEFINE b == IF a.pendingClose # Test!NoSignal /\ Test!IsOpen(a)
                THEN Test!CloseAll(a, sp, bar.open - a.pos.dir * Slippage, n) ELSE a
           h == IF g.pendingClose # Test!NoSignal /\ g.dir # Test!NoDir
                THEN Test!LegacyCloseAll(g, bar.open - g.dir * Slippage) ELSE g
           c == [b EXCEPT !.pendingClose = Test!NoSignal]
           j == [h EXCEPT !.pendingClose = Test!NoSignal]
<1>1. Test!ExecuteClose(a, sp, n, bar) = c /\ Test!LegacyExecuteClose(g, bar) = j
  BY DEF Test!ExecuteClose, Test!LegacyExecuteClose
<1>2. /\ g \in LegacyAccounts /\ a.pos.dir = g.dir /\ a.pendingClose = g.pendingClose
      /\ Same(a, g, n - 1) /\ n \in Int
  BY DEF Twin, Same
<1>3. /\ b \in Accounts /\ h \in LegacyAccounts /\ Same(b, h, n - 1) /\ SameQueue(b, h)
      /\ b.atr = a.atr /\ h.slTriggered = g.slTriggered /\ h.pendingEntry = g.pendingEntry
      /\ h.dir # 0 => b.pos.triggered = h.slTriggered /\ h.pendingEntry = Test!NoEntry
  <2>1. CASE a.pendingClose # Test!NoSignal /\ g.dir # 0
    <3>1. PICK e \in Int : e = bar.open - g.dir * Slippage
      <4>1. g.dir \in Int /\ Slippage \in Int  BY <1>2, FieldsOfLegacy, CostsAssumption
      <4>2. g.dir * Slippage \in Int  BY <4>1, Product
      <4> QED  BY <4>2
    <3>2. b = Test!CloseAll(a, sp, e, n)  BY <1>2, <2>1, <3>1 DEF Test!IsOpen, Test!NoDir
    <3>3. h = Test!LegacyCloseAll(g, e)  BY <1>2, <2>1, <3>1 DEF Test!NoDir
    <3>4. Mirror(a, g)  BY <1>2, <2>1 DEF Same, Alike
    <3>5. BothLeft(a, g, b, h, sp, n)  BY <1>2, <3>2, <3>3, <3>4, CloseAllMirrors
    <3> HIDE DEF b, h
    <3>6. SameQueue(a, g)  BY DEF Twin
    <3>7. SameQueue(b, h)  BY <2>1, <3>5, <3>6 DEF BothLeft, SameQueue
    <3>8. b.pos.dir = 0  BY <3>5 DEF BothLeft, Test!NoPosition, Test!NoDir
    <3> QED  BY <3>5, <3>7, <3>8 DEF BothLeft, Same
  <2>2. CASE ~(a.pendingClose # Test!NoSignal /\ g.dir # 0)
    <3>1. b = a /\ h = g  BY <1>2, <2>2 DEF Test!IsOpen, Test!NoDir
    <3> HIDE DEF b, h
    <3> QED  BY <1>2, <2>2, <3>1 DEF Twin
  <2> QED  BY <2>1, <2>2
<1>4. b.atr >= 0  BY <1>3 DEF Twin
<1> HIDE DEF b, h
<1>5. /\ c.equity = b.equity /\ c.pos = b.pos /\ c.pendingEntry = b.pendingEntry /\ c.atr = b.atr
      /\ c.pendingClose = Test!NoSignal
  BY <1>3 DEF Accounts
<1>6. /\ j \in LegacyAccounts /\ j.equity = h.equity /\ j.subs = h.subs /\ j.pendingClose = Test!NoSignal
      /\ j.pendingEntry = h.pendingEntry /\ j.slTriggered = h.slTriggered /\ j.dir = h.dir
  BY <1>3 DEF LegacyAccounts
<1>7. j.price = h.price /\ j.opened = h.opened /\ j.atr = h.atr /\ j.tp1Hit = h.tp1Hit /\ j.tp1 = h.tp1
  BY <1>3 DEF LegacyAccounts
<1> HIDE DEF c, j
<1>8. Same(c, j, n - 1)
  <2>1. SamePlace(h, j)  BY <1>6, <1>7 DEF SamePlace
  <2> QED  BY <1>3, <1>5, <1>6, <2>1, SameOnEqualParts
<1>9. SameQueue(c, j)  BY <1>3, <1>5, <1>6 DEF SameQueue
<1>10. Emptied(c, j, n)  BY <1>3, <1>4, <1>5, <1>6, <1>8, <1>9 DEF Emptied
<1> QED  BY <1>1, <1>3, <1>6, <1>10

-----------------------------------------------------------------------------
(* The entry.                                                              *)

LEMMA TotalOfTwo ==
    ASSUME NEW m, Len(m) = 2, m[1] \in Int, m[2] \in Int
    PROVE  Test!Total(m) = m[1] + m[2]
<1> DEFINE Sums(f) == f = [n \in 0 .. 2 |-> IF n = 0 THEN 0 ELSE f[n - 1] + m[n]]
           sum == CHOOSE f : Sums(f)
           w == [n \in 0 .. 2 |-> IF n = 0 THEN 0 ELSE IF n = 1 THEN 0 + m[1] ELSE 0 + m[1] + m[2]]
<1>1. Test!Total(m) = sum[2]  BY DEF Test!Total
<1>2. Sums(w)
  <2>1. w[0] = 0 /\ w[1] = 0 + m[1] /\ w[2] = 0 + m[1] + m[2]  OBVIOUS
  <2>2. ASSUME NEW n \in 0 .. 2 PROVE w[n] = IF n = 0 THEN 0 ELSE w[n - 1] + m[n]
    <3>1. n \in {0, 1, 2} /\ 1 - 1 = 0 /\ 2 - 1 = 1  OBVIOUS
    <3> HIDE DEF w
    <3> QED  BY <2>1, <3>1
  <2>3. w = [n \in 0 .. 2 |-> w[n]]  OBVIOUS
  <2> HIDE DEF w
  <2> QED  BY <2>2, <2>3
<1> HIDE DEF w
<1>3. Sums(sum)
  <2> HIDE DEF Sums
  <2> QED  BY <1>2
<1> HIDE DEF sum
<1>4. sum[0] = 0 /\ sum[1] = sum[0] + m[1] /\ sum[2] = sum[1] + m[2]
  <2>1. \A n \in 0 .. 2 : sum[n] = IF n = 0 THEN 0 ELSE sum[n - 1] + m[n]  BY <1>3
  <2> HIDE DEF Sums
  <2>2. 0 \in 0 .. 2 /\ 1 \in 0 .. 2 /\ 2 \in 0 .. 2 /\ 1 - 1 = 0 /\ 2 - 1 = 1  OBVIOUS
  <2> QED  BY <2>1, <2>2
<1> QED  BY <1>1, <1>4

LEMMA TotalOfThree ==
    ASSUME NEW m, Len(m) = 3, m[1] \in Int, m[2] \in Int, m[3] \in Int
    PROVE  Test!Total(m) = m[1] + m[2] + m[3]
<1> DEFINE Sums(f) == f = [n \in 0 .. 3 |-> IF n = 0 THEN 0 ELSE f[n - 1] + m[n]]
           sum == CHOOSE f : Sums(f)
           w == [n \in 0 .. 3 |-> IF n = 0 THEN 0 ELSE IF n = 1 THEN 0 + m[1]
                                  ELSE IF n = 2 THEN 0 + m[1] + m[2] ELSE 0 + m[1] + m[2] + m[3]]
<1>1. Test!Total(m) = sum[3]  BY DEF Test!Total
<1>2. Sums(w)
  <2>1. w[0] = 0 /\ w[1] = 0 + m[1] /\ w[2] = 0 + m[1] + m[2] /\ w[3] = 0 + m[1] + m[2] + m[3]  OBVIOUS
  <2>2. ASSUME NEW n \in 0 .. 3 PROVE w[n] = IF n = 0 THEN 0 ELSE w[n - 1] + m[n]
    <3>1. n \in {0, 1, 2, 3} /\ 1 - 1 = 0 /\ 2 - 1 = 1 /\ 3 - 1 = 2  OBVIOUS
    <3> HIDE DEF w
    <3> QED  BY <2>1, <3>1
  <2>3. w = [n \in 0 .. 3 |-> w[n]]  OBVIOUS
  <2> HIDE DEF w
  <2> QED  BY <2>2, <2>3
<1> HIDE DEF w
<1>3. Sums(sum)
  <2> HIDE DEF Sums
  <2> QED  BY <1>2
<1> HIDE DEF sum
<1>4. sum[0] = 0 /\ sum[1] = sum[0] + m[1] /\ sum[2] = sum[1] + m[2] /\ sum[3] = sum[2] + m[3]
  <2>1. \A n \in 0 .. 3 : sum[n] = IF n = 0 THEN 0 ELSE sum[n - 1] + m[n]  BY <1>3
  <2> HIDE DEF Sums
  <2>2. 0 \in 0 .. 3 /\ 1 \in 0 .. 3 /\ 2 \in 0 .. 3 /\ 3 \in 0 .. 3 /\ 1 - 1 = 0 /\ 2 - 1 = 1 /\ 3 - 1 = 2
    OBVIOUS
  <2> QED  BY <2>1, <2>2
<1> QED  BY <1>1, <1>4

(* The tranches of a port.                                                 *)
LEMMA PortTargets ==
    ASSUME NEW sp \in Specs, Test!IsPort(sp)
    PROVE  /\ Test!Tranches(sp) = sp.targets /\ Len(sp.targets) = 3 /\ DOMAIN sp.targets = 1 .. 3
           /\ \A k \in 1 .. 3 : /\ sp.targets[k].pct \in Nat \ {0}
                                /\ sp.targets[k].mult \in Nat \ {0}
           /\ Test!PctSum(sp.targets) = 100
<1>1. /\ Test!Tranches(sp) = sp.targets /\ Len(sp.targets) = 3
      /\ sp.targets[1].pct + sp.targets[2].pct + sp.targets[3].pct = 100
  BY DEF Test!IsPort
<1>2. DOMAIN sp.targets = 1 .. 3  BY <1>1, SpecsAssumption
<1>3. \A k \in 1 .. 3 : sp.targets[k].pct \in Nat \ {0} /\ sp.targets[k].mult \in Nat \ {0}
  BY <1>1, <1>2, SpecsAssumption
<1> DEFINE pcts == [k \in 1 .. 3 |-> sp.targets[k].pct]
<1>4. Len(pcts) = 3 /\ pcts[1] = sp.targets[1].pct /\ pcts[2] = sp.targets[2].pct /\ pcts[3] = sp.targets[3].pct
  OBVIOUS
<1>5. Test!PctSum(sp.targets) = Test!Total(pcts)  BY <1>2 DEF Test!PctSum
<1> HIDE DEF pcts
<1>6. 1 \in 1 .. 3 /\ 2 \in 1 .. 3 /\ 3 \in 1 .. 3  OBVIOUS
<1>7. pcts[1] \in Int /\ pcts[2] \in Int /\ pcts[3] \in Int  BY <1>3, <1>4, <1>6
<1>8. Test!Total(pcts) = pcts[1] + pcts[2] + pcts[3]  BY <1>4, <1>7, TotalOfThree
<1> QED  BY <1>1, <1>2, <1>3, <1>4, <1>5, <1>8

LEMMA PortSubs ==
    ASSUME NEW sp \in Specs, Test!IsPort(sp), NEW atr \in Int, atr > 0, NEW dir \in {1, -1},
           NEW fill \in Int, NEW units \in Int,
           NEW first, first = (units * sp.targets[1].pct) \div 100,
           NEW second, second = (units * sp.targets[2].pct) \div 100
    PROVE  /\ first \in Int /\ second \in Int
           /\ Test!Subs(sp, atr, dir, fill, units) =
                  [k \in 1 .. 3 |->
                      [units  |-> IF k = 1 THEN first ELSE IF k = 2 THEN second ELSE units - first - second,
                       closed |-> FALSE,
                       target |-> fill + dir * atr * sp.targets[k].mult]]
<1> DEFINE t == sp.targets
           Share(k) == (units * t[k].pct) \div Test!PctSum(t)
           shares == [k \in 1 .. Len(t) - 1 |-> Share(k)]
           before == Test!Total(shares)
           Sub(k) == [units  |-> IF k = Len(t) THEN units - before ELSE Share(k),
                      closed |-> FALSE, target |-> fill + dir * atr * t[k].mult]
           Tranche(k) == [units  |-> IF k = 1 THEN first ELSE IF k = 2 THEN second ELSE units - first - second,
                       closed |-> FALSE, target |-> fill + dir * atr * t[k].mult]
<1>1. /\ Test!Tranches(sp) = t /\ Len(t) = 3 /\ DOMAIN t = 1 .. 3 /\ Test!PctSum(t) = 100
      /\ t[1].pct \in Int /\ t[2].pct \in Int
  <2>1. 1 \in 1 .. 3 /\ 2 \in 1 .. 3  OBVIOUS
  <2> QED  BY <2>1, PortTargets
<1>2. first \in Int /\ second \in Int
  <2>1. units * t[1].pct \in Int /\ units * t[2].pct \in Int  BY <1>1, Product
  <2> QED  BY <2>1
<1>3. Share(1) = first /\ Share(2) = second  BY <1>1
<1>4. before = first + second
  <2>1. Len(t) - 1 = 2  BY <1>1
  <2>2. shares = [k \in 1 .. 2 |-> Share(k)]  BY <2>1
  <2> HIDE DEF Share
  <2> DEFINE two == [k \in 1 .. 2 |-> Share(k)]
  <2>3. Len(two) = 2 /\ two[1] = Share(1) /\ two[2] = Share(2)  OBVIOUS
  <2> HIDE DEF shares, two
  <2>4. Test!Total(two) = two[1] + two[2]  BY <1>2, <1>3, <2>3, TotalOfTwo
  <2> QED  BY <1>3, <2>2, <2>3, <2>4 DEF two
<1>5. "target" \in sp.exits  BY DEF Test!IsPort
<1>6. t # << >>  BY <1>1
<1>7. Test!Subs(sp, atr, dir, fill, units) = [k \in 1 .. 3 |-> Sub(k)]
  <2>1. Test!Subs(sp, atr, dir, fill, units) =
            IF "target" \notin sp.exits \/ atr = 0 \/ t = << >>
            THEN << [units |-> units, closed |-> FALSE, target |-> 0] >>
            ELSE [k \in 1 .. Len(t) |-> Sub(k)]
    <3>1. Test!Tranches(sp) = t /\ Test!PctSum(t) = 100  BY <1>1
    <3> QED  BY <3>1 DEF Test!Subs
  <2>2. ~("target" \notin sp.exits \/ atr = 0 \/ t = << >>)  BY <1>5, <1>6
  <2>3. Len(t) = 3  BY <1>1
  <2> HIDE DEF Sub
  <2> QED  BY <2>1, <2>2, <2>3
<1>8. ASSUME NEW k \in 1 .. 3 PROVE Sub(k) = Tranche(k)
  <2>1. (IF k = Len(t) THEN units - before ELSE Share(k)) =
            IF k = 1 THEN first ELSE IF k = 2 THEN second ELSE units - first - second
    <3>1. k \in {1, 2, 3} /\ Len(t) = 3  BY <1>1
    <3>2. units - before = units - first - second  BY <1>2, <1>4
    <3> HIDE DEF Share, before
    <3>3. CASE k = 1  BY <1>3, <3>1, <3>3
    <3>4. CASE k = 2  BY <1>3, <3>1, <3>4
    <3>5. CASE k = 3  BY <3>1, <3>2, <3>5
    <3> QED  BY <3>1, <3>3, <3>4, <3>5
  <2> QED  BY <2>1, Zenon
<1> HIDE DEF Sub
<1>9. [k \in 1 .. 3 |-> Sub(k)] = [k \in 1 .. 3 |-> Tranche(k)]  BY <1>8
<1> QED  BY <1>2, <1>7, <1>9

(* The sizes agree unless the two caps differ (Test!FlatSizeIsCapped).     *)
FlatCapped(sp, equity, atr, fill) ==
    /\ sp.sizing.useInitialCapital
    /\ fill > 0 /\ atr * sp.atrSL > 0
    /\ \E base \in {InitialCapital, equity} :
           (InitialCapital * sp.sizing.riskPct) \div (10000 * (atr * sp.atrSL))
               > Test!Buys(base * Leverage, fill)

LEMMA SameSize ==
    ASSUME NEW sp \in Specs, Test!IsPort(sp), NEW equity \in Nat, equity > 0, NEW atr \in Int,
           NEW stats \in Stats, NEW fill \in Int, fill > 0, ~ FlatCapped(sp, equity, atr, fill),
           NEW dist, dist = atr * sp.atrSL,
           NEW base, base = IF sp.sizing.useInitialCapital THEN InitialCapital ELSE equity,
           NEW mine, mine = Test!SizeMin(
               Test!ComputeSize([fill |-> fill, equity |-> equity, initial |-> InitialCapital,
                                 stop |-> dist, atr |-> atr, stats |-> stats], sp.sizing),
               Test!Buys(equity * Leverage, fill)),
           NEW theirs, theirs = Test!SizeMin((base * sp.sizing.riskPct) \div (10000 * dist),
                                             Test!Buys(base * Leverage, fill))
    PROVE  /\ mine \in Int
           /\ dist <= 0 => mine <= 0
           /\ dist > 0 => theirs = mine
<1> DEFINE ctx == [fill |-> fill, equity |-> equity, initial |-> InitialCapital,
                   stop |-> dist, atr |-> atr, stats |-> stats]
           wanted == Test!ComputeSize(ctx, sp.sizing)
           risked == (base * sp.sizing.riskPct) \div (10000 * dist)
           Cap(money) == Test!Buys(money * Leverage, fill)
<1>1. /\ Test!IsSizing(sp.sizing) /\ sp.sizing.id = "atrRisk" /\ sp.atrSL \in Int
      /\ InitialCapital \in Nat \ {0} /\ Leverage \in Nat \ {0}
  BY SpecsAssumption, CostsAssumption DEF Test!IsPort
<1>2. dist \in Int  BY <1>1, Product
<1>3. ctx \in Contexts  BY <1>1, <1>2 DEF Contexts
<1>4. wanted = Test!AtrRisk(ctx, sp.sizing)  BY <1>1 DEF Test!ComputeSize
<1>5. wanted \in Int
  <2> HIDE DEF ctx
  <2> QED  BY <1>1, <1>3, <1>4, AtrRiskIsInt
<1>6. wanted = IF dist > 0 THEN risked ELSE 0
  <2>1. base > 0  BY <1>1
  <2>2. (IF sp.sizing.useInitialCapital THEN ctx.initial ELSE ctx.equity) = base /\ ctx.stop = dist  OBVIOUS
  <2>3. wanted = IF dist > 0 /\ base > 0 THEN risked ELSE 0  BY <1>4, <2>2 DEF Test!AtrRisk
  <2> HIDE DEF wanted, risked
  <2> QED  BY <2>1, <2>3
<1>7. Cap(equity) \in Int /\ Cap(InitialCapital) \in Int
  <2>1. equity * Leverage \in Int /\ InitialCapital * Leverage \in Int  BY <1>1, Product
  <2> QED  BY <2>1, BuysInt
<1>8. mine = Test!SizeMin(wanted, Cap(equity)) /\ theirs = Test!SizeMin(risked, Cap(base))  OBVIOUS
<1>9. dist > 0 /\ sp.sizing.useInitialCapital => risked <= Cap(equity) /\ risked <= Cap(base)
  <2> SUFFICES ASSUME dist > 0, sp.sizing.useInitialCapital
               PROVE  risked <= Cap(equity) /\ risked <= Cap(base)
    OBVIOUS
  <2>1. base = InitialCapital  OBVIOUS
  <2>2. ~(risked > Cap(InitialCapital)) /\ ~(risked > Cap(equity))  BY <2>1 DEF FlatCapped
  <2>3. risked \in Int  BY <1>5, <1>6
  <2> HIDE DEF risked, Cap
  <2> QED  BY <1>7, <2>1, <2>2, <2>3
<1>10. ~ sp.sizing.useInitialCapital => base = equity  OBVIOUS
<1> HIDE DEF wanted, risked, Cap
<1>11. mine \in Int  BY <1>5, <1>7, <1>8 DEF Test!SizeMin
<1>12. ASSUME dist <= 0 PROVE mine <= 0  BY <1>2, <1>6, <1>7, <1>8, <1>12 DEF Test!SizeMin
<1>13. ASSUME dist > 0 PROVE theirs = mine
  <2>1. wanted = risked  BY <1>6, <1>13
  <2>2. CASE ~ sp.sizing.useInitialCapital  BY <1>8, <1>10, <2>1, <2>2
  <2>3. CASE sp.sizing.useInitialCapital
    <3>1. base = InitialCapital  BY <2>3
    <3> QED  BY <1>5, <1>7, <1>8, <1>9, <1>13, <2>1, <2>3, <3>1 DEF Test!SizeMin
  <2> QED  BY <2>2, <2>3
<1> QED  BY <1>11, <1>12, <1>13

(* What an entry leaves alone.                                             *)
Enters(a, g, b, h, n) ==
    /\ Same(b, h, n - 1)
    /\ b.pendingClose = a.pendingClose /\ b.pendingEntry = a.pendingEntry /\ b.atr = a.atr
    /\ h.pendingClose = g.pendingClose /\ h.pendingEntry = g.pendingEntry
    /\ h.slTriggered = g.slTriggered
    /\ h.dir # 0 => b.pos.triggered = FALSE

LEMMA ThreeInSeq ==
    ASSUME NEW S, NEW x \in S, NEW y \in S, NEW z \in S
    PROVE  <<x, y, z>> \in Seq(S)
OBVIOUS

(* The units of target k, and the tranches of a plan.                      *)
Portion(sp, units, k) == (units * sp.targets[k].pct) \div 100
Planned(sp, atr, dir, fill, units, first, second) ==
    [k \in 1 .. 3 |->
        [units  |-> IF k = 1 THEN first ELSE IF k = 2 THEN second ELSE units - first - second,
         closed |-> FALSE,
         target |-> fill + dir * atr * sp.targets[k].mult]]

Plans(sp, atr, dir, fill, units) ==
    /\ sp \in Specs /\ Test!IsPort(sp)
    /\ atr \in Int /\ atr > 0 /\ dir \in {1, -1} /\ fill \in Int /\ units \in Int

LEMMA PortPlanned ==
    ASSUME NEW sp, NEW atr, NEW dir, NEW fill, NEW units, Plans(sp, atr, dir, fill, units)
    PROVE  /\ Portion(sp, units, 1) \in Int /\ Portion(sp, units, 2) \in Int
           /\ Test!Subs(sp, atr, dir, fill, units) =
                  Planned(sp, atr, dir, fill, units, Portion(sp, units, 1), Portion(sp, units, 2))
<1>1. PICK first, second : first = Portion(sp, units, 1) /\ second = Portion(sp, units, 2)  OBVIOUS
<1>2. first = (units * sp.targets[1].pct) \div 100 /\ second = (units * sp.targets[2].pct) \div 100
  BY Zenon, <1>1 DEF Portion
<1>3. /\ first \in Int /\ second \in Int
      /\ Test!Subs(sp, atr, dir, fill, units) = Planned(sp, atr, dir, fill, units, first, second)
  <2>1. /\ sp \in Specs /\ Test!IsPort(sp) /\ atr \in Int /\ atr > 0 /\ dir \in {1, -1}
        /\ fill \in Int /\ units \in Int
    BY Zenon DEF Plans
  <2> QED  BY <1>2, <2>1, PortSubs DEF Planned
<1> QED  BY Zenon, <1>1, <1>3

(* The legacy account with a position opened.                              *)
Opened(g, dir, fill, n, atr, subs) ==
    [g EXCEPT !.dir = dir, !.price = fill, !.opened = n, !.atr = atr,
              !.subs = subs, !.tp1Hit = FALSE, !.tp1 = -1]

LEMMA OpensLegacy ==
    ASSUME NEW g \in LegacyAccounts, NEW dir \in {1, -1}, NEW fill \in Int, NEW n \in Nat, NEW atr \in Int,
           NEW subs \in Seq(LegacyUnits)
    PROVE  Opened(g, dir, fill, n, atr, subs) \in LegacyAccounts
<1>1. dir \in {1, -1, 0} /\ n \in Int /\ -1 \in Int /\ FALSE \in BOOLEAN  OBVIOUS
<1> QED  BY <1>1 DEF Opened, LegacyAccounts

LEMMA OpenTwins ==
    ASSUME NEW a \in Accounts, NEW g \in LegacyAccounts, NEW sp \in Specs, Test!IsPort(sp),
           NEW dir \in {1, -1}, NEW fill \in Int, fill > 0, NEW n \in Nat, Booked(a, sp.fitnessStart, n),
           a.equity = g.equity, a.equity > 0, a.atr >= 0,
           a.pos = Test!NoPosition, g.dir = 0, g.subs = << >>,
           ~ FlatCapped(sp, a.equity, a.atr, fill)
    PROVE  Enters(a, g, Test!OpenPosition(a, sp, dir, fill, n),
                  Test!LegacyOpen(g, sp, [dir |-> dir, atr |-> a.atr], fill, n), n)
<1>1. PICK atr \in Int : atr = a.atr /\ atr >= 0  BY FieldsOfAccount
<1>2. PICK equity \in Nat : equity = a.equity /\ equity = g.equity /\ equity > 0  BY FieldsOfAccount
<1>3. PICK dist : dist = atr * sp.atrSL  OBVIOUS
<1>4. PICK base : base = IF sp.sizing.useInitialCapital THEN InitialCapital ELSE equity  OBVIOUS
<1>5. PICK units : units = Test!SizeMin(
          Test!ComputeSize([fill |-> fill, equity |-> equity, initial |-> InitialCapital,
                            stop |-> dist, atr |-> atr, stats |-> a.stats], sp.sizing),
          Test!Buys(equity * Leverage, fill))
  OBVIOUS
<1>6. PICK theirs : theirs = Test!SizeMin((base * sp.sizing.riskPct) \div (10000 * dist),
                                          Test!Buys(base * Leverage, fill))
  OBVIOUS
<1>0. dist \in Int
  <2>1. sp.atrSL \in Int  BY SpecsAssumption
  <2> QED  BY <1>3, <2>1, Product
<1>7. units \in Int /\ (dist <= 0 => units <= 0) /\ (dist > 0 => theirs = units)
  <2>1. ~ FlatCapped(sp, equity, atr, fill)  BY <1>1, <1>2
  <2>2. a.stats \in Stats  BY FieldsOfAccount
  <2> QED  BY <1>2, <1>3, <1>4, <1>5, <1>6, <2>1, <2>2, SameSize
<1> DEFINE q == [dir |-> dir, price |-> fill, opened |-> n, atr |-> atr,
                 subs |-> Test!Subs(sp, atr, dir, fill, units), triggered |-> FALSE, tp1 |-> -1]
           more == IF n >= sp.fitnessStart THEN a.positions + 1 ELSE a.positions
           first == (units * sp.targets[1].pct) \div 100
           second == (units * sp.targets[2].pct) \div 100
           Sub(m, t) == [units |-> m, mult |-> sp.targets[t].mult, closed |-> FALSE]
           subs == << Sub(first, 1), Sub(second, 2), Sub(units - first - second, 3) >>
           b == IF units <= 0 THEN a ELSE [a EXCEPT !.pos = q, !.positions = more]
           h == IF dist <= 0 \/ units <= 0 THEN g
                ELSE [g EXCEPT !.dir = dir, !.price = fill, !.opened = n, !.atr = atr,
                               !.subs = subs, !.tp1Hit = FALSE, !.tp1 = -1]
<1>8. Test!OpenPosition(a, sp, dir, fill, n) = b
  <2>1. Test!PlanStop(a, sp) = dist  BY <1>1, <1>3 DEF Test!PlanStop, Test!IsPort
  <2>2. (IF a.equity > 0 THEN a.equity ELSE InitialCapital) = equity  BY <1>2
  <2>3. units = Test!SizeMin(
            Test!ComputeSize([fill |-> fill, equity |-> a.equity, initial |-> InitialCapital,
                              stop |-> Test!PlanStop(a, sp), atr |-> a.atr, stats |-> a.stats], sp.sizing),
            Test!Buys((IF a.equity > 0 THEN a.equity ELSE InitialCapital) * Leverage, fill))
    BY <1>1, <1>2, <1>5, <2>1, <2>2
  <2>4. Test!OpenPosition(a, sp, dir, fill, n) =
            IF units <= 0 THEN a
            ELSE [a EXCEPT !.pos = [dir |-> dir, price |-> fill, opened |-> n, atr |-> a.atr,
                                    subs |-> Test!Subs(sp, a.atr, dir, fill, units),
                                    triggered |-> FALSE, tp1 |-> Test!Unset],
                           !.positions = IF n >= sp.fitnessStart THEN @ + 1 ELSE @]
    BY <2>3 DEF Test!OpenPosition
  <2> QED  BY <1>1, <2>4 DEF Test!Unset
<1>9. Test!LegacyOpen(g, sp, [dir |-> dir, atr |-> a.atr], fill, n) = h
  <2> DEFINE t1 == (theirs * sp.targets[1].pct) \div 100
             t2 == (theirs * sp.targets[2].pct) \div 100
  <2>1. PICK e : e = [dir |-> dir, atr |-> atr]  OBVIOUS
  <2> DEFINE d0 == e.atr * sp.atrSL
             b0 == IF sp.sizing.useInitialCapital THEN InitialCapital ELSE g.equity
             u0 == Test!SizeMin((b0 * sp.sizing.riskPct) \div (10000 * d0), Test!Buys(b0 * Leverage, fill))
             s1 == (u0 * sp.targets[1].pct) \div 100
             s2 == (u0 * sp.targets[2].pct) \div 100
  <2>2. Test!LegacyOpen(g, sp, [dir |-> dir, atr |-> atr], fill, n) =
            IF dist <= 0 \/ fill <= 0 \/ theirs <= 0 THEN g
            ELSE [g EXCEPT !.dir = dir, !.price = fill, !.opened = n, !.atr = atr,
                           !.subs = << Sub(t1, 1), Sub(t2, 2), Sub(theirs - t1 - t2, 3) >>,
                           !.tp1Hit = FALSE, !.tp1 = -1]
    <3>1. Test!LegacyOpen(g, sp, e, fill, n) =
              IF d0 <= 0 \/ fill <= 0 \/ u0 <= 0 THEN g
              ELSE [g EXCEPT !.dir = e.dir, !.price = fill, !.opened = n, !.atr = e.atr,
                             !.subs = << Sub(s1, 1), Sub(s2, 2), Sub(u0 - s1 - s2, 3) >>,
                             !.tp1Hit = FALSE, !.tp1 = -1]
      BY DEF Test!LegacyOpen, Test!Unset
    <3>2. e.dir = dir /\ e.atr = atr  BY <2>1
    <3>3. d0 = dist  BY <1>3, <3>2
    <3>4. b0 = base  BY <1>2, <1>4
    <3>5. u0 = theirs  BY <1>6, <3>3, <3>4
    <3> HIDE DEF d0, u0, Sub
    <3>6. s1 = t1 /\ s2 = t2  BY <3>5
    <3> HIDE DEF s1, s2, t1, t2
    <3> QED  BY <2>1, <3>1, <3>2, <3>3, <3>5, <3>6
  <2>3. CASE dist <= 0  BY <1>1, <2>2, <2>3
  <2>4. CASE ~(dist <= 0)
    <3>1. dist > 0  BY <1>0, <2>4
    <3>2. theirs = units  BY <1>7, <3>1
    <3>3. ~(fill <= 0)  OBVIOUS
    <3> QED  BY <1>1, <2>2, <3>2, <3>3
  <2> QED  BY <2>3, <2>4
<1> SUFFICES Enters(a, g, b, h, n)  BY <1>8, <1>9
<1>10. CASE units <= 0
  <2>1. b = a /\ h = g  BY <1>10
  <2> HIDE DEF b, h
  <2>2. a.pos.dir = 0  BY DEF Test!NoPosition, Test!NoDir
  <2> QED  BY <2>1, <2>2 DEF Enters, Same
<1>11. CASE ~(units <= 0)
  <2>1. dist > 0 /\ ~(dist <= 0)  BY <1>0, <1>7, <1>11
  <2>2. atr > 0
    <3>1. atr # 0
      <4>1. sp.atrSL \in Int  BY SpecsAssumption
      <4> QED  BY <1>3, <2>1, <4>1
    <3> QED  BY <1>1, <3>1
  <2>3. /\ first \in Int /\ second \in Int
        /\ q.subs = [k \in 1 .. 3 |->
                        [units  |-> IF k = 1 THEN first ELSE IF k = 2 THEN second ELSE units - first - second,
                         closed |-> FALSE,
                         target |-> fill + dir * atr * sp.targets[k].mult]]
    <3>1. first = Portion(sp, units, 1) /\ second = Portion(sp, units, 2)  BY DEF Portion
    <3>2. q.subs = Test!Subs(sp, atr, dir, fill, units)  OBVIOUS
    <3> HIDE DEF first, second, q
    <3>3. Plans(sp, atr, dir, fill, units)
      <4>1. units \in Int /\ atr > 0  BY Zenon, <1>7, <2>2
      <4> QED  BY Zenon, <4>1 DEF Plans
    <3>4. /\ Portion(sp, units, 1) \in Int /\ Portion(sp, units, 2) \in Int
          /\ Test!Subs(sp, atr, dir, fill, units) =
                Planned(sp, atr, dir, fill, units, Portion(sp, units, 1), Portion(sp, units, 2))
      BY <3>3, PortPlanned
    <3>5. /\ first \in Int /\ second \in Int
          /\ q.subs = Planned(sp, atr, dir, fill, units, first, second)
      BY Zenon, <3>1, <3>2, <3>4
    <3> QED  BY Zenon, <3>5 DEF Planned
  <2>4. /\ \A k \in 1 .. 3 : sp.targets[k].mult \in Nat \ {0}
        /\ 1 \in 1 .. 3 /\ 2 \in 1 .. 3 /\ 3 \in 1 .. 3
    BY PortTargets
  <2>5. b = [a EXCEPT !.pos = q, !.positions = more]  BY <1>11
  <2>6. h = [g EXCEPT !.dir = dir, !.price = fill, !.opened = n, !.atr = atr,
                      !.subs = subs, !.tp1Hit = FALSE, !.tp1 = -1]
    BY <1>11, <2>1
  <2> HIDE DEF b, h, first, second
  <2>7. /\ Sub(first, 1) \in LegacyUnits /\ Sub(second, 2) \in LegacyUnits
        /\ Sub(units - first - second, 3) \in LegacyUnits
    <3>1. first \in Int /\ second \in Int /\ units - first - second \in Int  BY <1>7, <2>3
    <3>2. /\ sp.targets[1].mult \in Int /\ sp.targets[2].mult \in Int /\ sp.targets[3].mult \in Int
      BY <2>4
    <3> QED  BY <3>1, <3>2 DEF LegacyUnits
  <2>8. /\ subs[1] = Sub(first, 1) /\ subs[2] = Sub(second, 2) /\ subs[3] = Sub(units - first - second, 3)
        /\ Len(subs) = 3
    OBVIOUS
  <2> HIDE DEF Sub
  <2>9. subs \in Seq(LegacyUnits)
    <3> HIDE DEF first, second
    <3> QED  BY Zenon, <2>7, ThreeInSeq
  <2> HIDE DEF subs
  <2>10. h \in LegacyAccounts
    <3> HIDE DEF first, second, q, more
    <3>1. h = Opened(g, dir, fill, n, atr, subs)  BY Zenon, <2>6 DEF Opened
    <3>2. Opened(g, dir, fill, n, atr, subs) \in LegacyAccounts  BY <2>9, OpensLegacy
    <3> QED  BY Zenon, <3>1, <3>2
  <2>11. /\ h.equity = g.equity /\ h.dir = dir /\ h.price = fill /\ h.opened = n /\ h.atr = atr
         /\ h.subs = subs /\ h.tp1Hit = FALSE /\ h.tp1 = -1 /\ h.pendingClose = g.pendingClose
         /\ h.pendingEntry = g.pendingEntry /\ h.slTriggered = g.slTriggered
    BY <2>6 DEF LegacyAccounts
  <2>12. /\ b.equity = a.equity /\ b.pos = q /\ b.pendingClose = a.pendingClose
         /\ b.pendingEntry = a.pendingEntry /\ b.atr = a.atr
    BY <2>5 DEF Accounts
  <2>13. /\ q.dir = dir /\ q.price = fill /\ q.opened = n /\ q.atr = atr /\ q.triggered = FALSE /\ q.tp1 = -1
    OBVIOUS
  <2> DEFINE Tranche(k) == [units  |-> IF k = 1 THEN first ELSE IF k = 2 THEN second ELSE units - first - second,
                            closed |-> FALSE,
                            target |-> fill + dir * atr * sp.targets[k].mult]
  <2>14. ASSUME NEW k \in 1 .. 3
         PROVE  /\ q.subs[k].units = subs[k].units /\ q.subs[k].closed = FALSE /\ subs[k].closed = FALSE
                /\ subs[k].mult = sp.targets[k].mult
                /\ q.subs[k].target = fill + dir * atr * sp.targets[k].mult
    <3> HIDE DEF q
    <3>1. q.subs[k] = Tranche(k)  BY <2>3
    <3>2. k = 1 \/ k = 2 \/ k = 3  OBVIOUS
    <3>3. subs[k] = Sub(Tranche(k).units, k)  BY <2>8, <3>2
    <3> QED  BY <3>1, <3>3 DEF Sub
  <2>15. Len(q.subs) = 3  BY <2>3
  <2> HIDE DEF q
  <2>16. Mirror(b, h)  BY <1>2, <2>8, <2>11, <2>12, <2>13, <2>14, <2>15 DEF Mirror
  <2>17. ASSUME NEW k \in 1 .. 3 PROVE h.subs[k].mult > 0 /\ b.pos.subs[k].target = LimitOf(h, k)
    <3>1. h.subs[k].mult > 0
      <4>1. h.subs[k].mult = sp.targets[k].mult  BY <2>11, <2>14
      <4>2. PICK mult \in Nat \ {0} : mult = sp.targets[k].mult  BY <2>4
      <4>3. mult > 0  OBVIOUS
      <4> QED  BY <4>1, <4>2, <4>3, Zenon
    <3>2. LimitOf(h, k) = fill + dir * atr * sp.targets[k].mult  BY <2>11, <2>14 DEF LimitOf
    <3> QED  BY <2>12, <2>14, <3>1, <3>2
  <2>18. ~ h.subs[1].closed  BY <2>4, <2>11, <2>14
  <2>19. Alike(b, h, n - 1)  BY <2>2, <2>4, <2>11, <2>12, <2>13, <2>16, <2>17, <2>18 DEF Alike
  <2> QED  BY <1>2, <2>10, <2>11, <2>12, <2>13, <2>19 DEF Enters, Same
<1> QED  BY <1>10, <1>11

(* Before the exits of bar n.                                              *)
Filled(a, g, n) ==
    /\ Same(a, g, n - 1)
    /\ a.atr >= 0
    /\ a.pendingClose = Test!NoSignal /\ g.pendingClose = Test!NoSignal
    /\ a.pendingEntry = 0 /\ g.pendingEntry = Test!NoEntry
    /\ g.dir # 0 => a.pos.triggered = g.slTriggered

LEMMA EntryTwins ==
    ASSUME NEW a \in Accounts, NEW g, NEW sp \in Specs, Test!IsPort(sp), NEW n \in Nat, NEW bar,
           bar.open \in Int, Booked(a, sp.fitnessStart, n), Emptied(a, g, n),
           ~(g.slTriggered /\ g.pendingEntry # Test!NoEntry),
           g.pendingEntry # Test!NoEntry =>
               ~ FlatCapped(sp, g.equity, g.pendingEntry.atr, bar.open + g.pendingEntry.dir * Slippage)
    PROVE  Filled(Test!ExecuteEntry(a, sp, n, bar), Test!LegacyExecuteEntry(g, sp, n, bar), n)
<1> DEFINE t == [a EXCEPT !.pendingEntry = 0]
           u == [g EXCEPT !.pendingEntry = Test!NoEntry]
           d == g.pendingEntry.dir
           fill == bar.open + a.pendingEntry * Slippage
           limit == bar.open + d * Slippage
           b == Test!ExecuteEntry(a, sp, n, bar)
           h == Test!LegacyExecuteEntry(g, sp, n, bar)
<1>1. /\ g \in LegacyAccounts /\ Same(a, g, n - 1) /\ SameQueue(a, g) /\ a.atr >= 0
      /\ a.pendingClose = Test!NoSignal /\ g.pendingClose = Test!NoSignal
      /\ g.dir # 0 => a.pos.triggered = g.slTriggered /\ g.pendingEntry = Test!NoEntry
      /\ a.equity = g.equity /\ a.pos.dir = g.dir /\ a.equity \in Nat
      /\ g.pendingEntry \in [dir : {1, -1, 0}, atr : Int] /\ g.slTriggered \in BOOLEAN
  <2>1. g \in LegacyAccounts  BY DEF Emptied, Same
  <2> QED  BY <2>1, FieldsOfAccount, FieldsOfLegacy DEF Emptied, Same
<1>2. b = IF a.pendingEntry = 0 THEN a
          ELSE IF a.equity <= 0 THEN t
          ELSE IF a.pos.dir # 0 THEN a
          ELSE IF fill > 0 THEN Test!OpenPosition(t, sp, a.pendingEntry, fill, n) ELSE t
  BY DEF Test!ExecuteEntry, Test!NoDir, Test!IsOpen
<1>3. h = IF d = 0 THEN g
          ELSE IF g.equity <= 0 THEN u
          ELSE IF g.dir # 0 THEN g
          ELSE Test!LegacyOpen(u, sp, g.pendingEntry, limit, n)
  BY DEF Test!LegacyExecuteEntry, Test!NoDir
<1> SUFFICES Filled(b, h, n)  OBVIOUS
<1> HIDE DEF b, h
<1>4. /\ t \in Accounts /\ Booked(t, sp.fitnessStart, n) /\ t.equity = a.equity /\ t.pos = a.pos
      /\ t.atr = a.atr /\ t.pendingClose = a.pendingClose /\ t.pendingEntry = 0
  BY DEF Accounts, Booked
<1>5. Test!NoEntry \in [dir : {1, -1, 0}, atr : Int] /\ Test!NoEntry.dir = 0  BY DEF Test!NoEntry, Test!NoDir
<1>6. /\ u \in LegacyAccounts /\ SamePlace(g, u) /\ u.slTriggered = g.slTriggered
      /\ u.pendingClose = g.pendingClose /\ u.pendingEntry = Test!NoEntry
  <2>1. u \in LegacyAccounts  BY <1>1, <1>5 DEF LegacyAccounts
  <2>2. SamePlace(g, u)  BY <1>1 DEF LegacyAccounts, SamePlace
  <2>3. /\ u.slTriggered = g.slTriggered /\ u.pendingClose = g.pendingClose
        /\ u.pendingEntry = Test!NoEntry
    BY <1>1 DEF LegacyAccounts
  <2> QED  BY <2>1, <2>2, <2>3
<1> HIDE DEF t, u
<1>7. g.pendingEntry # Test!NoEntry => d \in {1, -1} /\ g.pendingEntry.atr = a.atr /\ g.dir = 0 /\ ~ g.slTriggered
  BY <1>1 DEF SameQueue
<1>8. CASE g.pendingEntry = Test!NoEntry
  <2>1. h = g  BY <1>3, <1>5, <1>8
  <2>2. a.pendingEntry = 0 \/ (g.dir = 0 /\ a.equity = 0)  BY <1>1, <1>5, <1>8 DEF SameQueue
  <2>3. CASE a.pendingEntry = 0
    <3>1. b = a  BY <1>2, <2>3
    <3> QED  BY <1>1, <1>8, <2>1, <2>3, <3>1 DEF Filled
  <2>4. CASE a.pendingEntry # 0
    <3>1. b = t /\ g.dir = 0  BY <1>2, <2>2, <2>4
    <3>2. SamePlace(g, g)  BY DEF SamePlace
    <3>3. Same(t, g, n - 1)  BY <1>1, <1>4, <3>2, SameOnEqualParts
    <3> QED  BY <1>1, <1>4, <1>8, <2>1, <3>1, <3>3 DEF Filled
  <2> QED  BY <2>3, <2>4
<1>9. CASE g.pendingEntry # Test!NoEntry /\ a.equity = 0
  <2>1. h = u  BY <1>1, <1>3, <1>7, <1>9
  <2>2. b = a \/ b = t  BY <1>2, <1>9
  <2>3. b.pendingEntry = 0  BY <1>2, <1>4, <1>9
  <2>4. b.equity = a.equity /\ b.pos = a.pos /\ b.atr = a.atr /\ b.pendingClose = a.pendingClose
    BY <1>4, <2>2
  <2>5. Same(b, u, n - 1)  BY <1>1, <1>6, <2>4, SameOnEqualParts
  <2>6. u.dir = 0  BY <1>6, <1>7, <1>9 DEF SamePlace
  <2> QED  BY <1>1, <1>6, <2>1, <2>3, <2>4, <2>5, <2>6 DEF Filled
<1>10. CASE g.pendingEntry # Test!NoEntry /\ a.equity # 0
  <2>1. a.pendingEntry = d /\ d \in {1, -1} /\ a.equity > 0 /\ g.dir = 0 /\ a.pos.dir = 0
    BY <1>1, <1>7, <1>10 DEF SameQueue
  <2>2. PICK e \in {1, -1} : e = d  BY <2>1
  <2>3. PICK f \in Int : f = bar.open + e * Slippage
    <3>1. e \in Int /\ Slippage \in Int  BY CostsAssumption
    <3>2. e * Slippage \in Int  BY <3>1, Product
    <3> QED  BY <3>2
  <2>4. fill = f /\ limit = f  BY <2>1, <2>2, <2>3
  <2>5. Test!LegacyOpen(u, sp, g.pendingEntry, f, n) = u \/ f > 0
    <3>1. f > 0 \/ f <= 0  BY <2>3
    <3> QED  BY <3>1 DEF Test!LegacyOpen
  <2>6. h = Test!LegacyOpen(u, sp, g.pendingEntry, f, n)  BY <1>1, <1>3, <2>1, <2>4
  <2>7. Same(t, u, n - 1)  BY <1>1, <1>4, <1>6, SameOnEqualParts
  <2>8. CASE ~(f > 0)
    <3>1. b = t /\ h = u  BY <1>2, <2>1, <2>4, <2>5, <2>6, <2>8
    <3>2. u.dir = 0  BY <1>6, <2>1 DEF SamePlace
    <3> QED  BY <1>1, <1>4, <1>6, <2>7, <3>1, <3>2 DEF Filled
  <2>9. CASE f > 0
    <3>1. b = Test!OpenPosition(t, sp, e, f, n)  BY <1>1, <1>2, <2>1, <2>2, <2>4, <2>9
    <3>2. g.pendingEntry = [dir |-> e, atr |-> t.atr]  BY <1>1, <1>4, <1>7, <1>10, <2>2
    <3>3. u.dir = 0 /\ u.subs = << >> /\ u.equity = t.equity /\ t.pos = Test!NoPosition
      BY <1>1, <1>4, <1>6, <2>1 DEF SamePlace, Same
    <3>4. ~ FlatCapped(sp, t.equity, t.atr, f)
      <4>1. ~ FlatCapped(sp, g.equity, g.pendingEntry.atr, limit)  BY <1>10
      <4>2. t.equity = g.equity /\ t.atr = g.pendingEntry.atr  BY <1>1, <1>4, <1>7, <1>10
      <4> QED  BY <2>4, <4>1, <4>2
    <3>5. t.equity > 0 /\ t.atr >= 0  BY <1>1, <1>4, <2>1
    <3>6. Enters(t, u, b, Test!LegacyOpen(u, sp, [dir |-> e, atr |-> t.atr], f, n), n)
      BY <1>4, <1>6, <2>9, <3>1, <3>3, <3>4, <3>5, OpenTwins
    <3>7. Enters(t, u, b, h, n)  BY <2>6, <3>2, <3>6
    <3>8. h.slTriggered = FALSE  BY <1>1, <1>6, <1>7, <1>10, <3>7 DEF Enters
    <3> QED  BY <1>1, <1>4, <1>6, <3>7, <3>8 DEF Enters, Filled
  <2> QED  BY <2>8, <2>9
<1> QED  BY <1>8, <1>9, <1>10

-----------------------------------------------------------------------------
(* The exits.                                                              *)

(* Both count the votes of the same blocks.                                *)
LEMMA SignalsOfPort ==
    ASSUME NEW sp \in Specs, Test!IsPort(sp), NEW bar \in Bars, NEW dir \in {1, -1}
    PROVE  dir \in Test!Signals(sp, bar) <=> Test!Score(bar, dir) >= sp.entries.threshold
<1> DEFINE slot == sp.entries
           votes == bar.entries
           yes == Test!Voters(slot, votes, dir)
<1>1. /\ slot.mode = "score" /\ slot.dirs # << >> /\ sp.filters.dirs = << >>
      /\ \A b \in DOMAIN slot.dirs : slot.dirs[b] = 0
  BY DEF Test!IsPort, Test!NoDir
<1>2. DOMAIN votes = DOMAIN slot.dirs  BY PortsAssumption
<1>3. yes = {b \in DOMAIN votes : dir \in votes[b]}
  <2>1. Test!Eligible(slot, dir) = DOMAIN slot.dirs  BY <1>1 DEF Test!Eligible, Test!NoDir
  <2> QED  BY <1>2, <2>1 DEF Test!Voters
<1>4. Test!Score(bar, dir) = Test!Cardinality(yes)  BY <1>3 DEF Test!Score
<1>5. Test!AggregateEntries(slot, votes, dir) <=> Test!Cardinality(yes) >= slot.threshold
  <2>1. "score" # "all" /\ "score" # "any"  OBVIOUS
  <2> HIDE DEF yes, votes
  <2> QED  BY <1>1, <2>1 DEF Test!AggregateEntries, yes
<1>6. Test!AggregateFilters(sp.filters, bar.filters, dir)  BY <1>1 DEF Test!AggregateFilters
<1>7. dir \in Test!Signals(sp, bar) <=>
          Test!AggregateEntries(slot, votes, dir) /\ Test!AggregateFilters(sp.filters, bar.filters, dir)
  BY DEF Test!Signals, Test!Long, Test!Short
<1> HIDE DEF yes
<1> QED  BY <1>4, <1>5, <1>6, <1>7

(* A limit that a bar reaches is a price.                                  *)
LEMMA ReachedLimits ==
    ASSUME NEW a, NEW g, NEW n, Same(a, g, n), g.dir # 0, NEW bar \in Bars, NEW s \in 1 .. 3
    PROVE  /\ LimitOf(g, s) \in Int
           /\ Test!Reaches(a.pos, bar, LimitOf(g, s)) => LimitOf(g, s) > 0
<1>1. /\ g \in LegacyAccounts /\ Alike(a, g, n) /\ a.pos.dir = g.dir  BY DEF Same
<1>2. g.price \in Int /\ g.atr \in Int /\ g.dir \in {1, -1} /\ g.subs \in Seq(LegacyUnits)
  BY <1>1, FieldsOfLegacy
<1>3. g.price > 0 /\ g.atr > 0 /\ g.subs[s].mult > 0 /\ Len(g.subs) = 3  BY <1>1 DEF Alike, Mirror
<1>4. PICK m \in Int : m = g.subs[s].mult /\ m > 0
  <2>1. g.subs[s] \in LegacyUnits  BY <1>2, <1>3
  <2> QED  BY <1>3, <2>1 DEF LegacyUnits
<1>5. PICK p \in Int : p = g.price /\ p > 0  BY <1>2, <1>3
<1>6. PICK t \in Int : t = g.atr /\ t > 0  BY <1>2, <1>3
<1>7. PICK e \in {1, -1} : e = g.dir  BY <1>2
<1>8. LimitOf(g, s) = p + e * t * m  BY <1>4, <1>5, <1>6, <1>7 DEF LimitOf
<1>9. e * t * m \in Int
  <2>1. e * t \in Int  BY Product
  <2> QED  BY <2>1, Product
<1>10. p + e * t * m \in Int  BY <1>9
<1>11. bar.low \in Int /\ bar.low > 0  BY BarsAssumption
<1>12. ASSUME e = 1 PROVE p + e * t * m > 0
  <2>1. t * m > 0 /\ t * m \in Int  BY <1>4, <1>6, Product, PositiveProduct
  <2>2. e * t * m = t * m  BY <1>12
  <2> QED  BY <1>5, <2>1, <2>2
<1>13. ASSUME e = -1, Test!Reaches(a.pos, bar, LimitOf(g, s)) PROVE p + e * t * m > 0
  <2>1. a.pos.dir # Test!Long  BY <1>1, <1>7, <1>13 DEF Test!Long
  <2>2. bar.low <= p + e * t * m  BY <1>8, <1>13, <2>1 DEF Test!Reaches
  <2> QED  BY <1>10, <1>11, <2>2
<1> QED  BY <1>8, <1>10, <1>12, <1>13

LEMMA SameLater ==
    ASSUME NEW a, NEW g, NEW n \in Nat, Same(a, g, n - 1)
    PROVE  Same(a, g, n)
<1>1. ASSUME Alike(a, g, n - 1), g \in LegacyAccounts PROVE Alike(a, g, n)
  <2>1. g.tp1 \in Int  BY <1>1, FieldsOfLegacy
  <2> QED  BY <1>1, <2>1 DEF Alike
<1> QED  BY <1>1 DEF Same

(* After the exits of bar n.                                               *)
Exited(a, g, sp, n, bar) ==
    /\ Same(a, g, n)
    /\ a.pendingEntry = 0
    /\ a.pendingClose = g.pendingClose
    /\ g.dir = 0 => g.pendingClose = Test!NoSignal
    /\ g.pendingClose = Test!NoSignal =>
           a.pos.triggered = g.slTriggered /\ g.pendingEntry = Test!NoEntry
    /\ g.pendingClose # Test!NoSignal =>
           g.pendingEntry = IF -g.dir \in Test!Signals(sp, bar) THEN [dir |-> -g.dir, atr |-> bar.atr]
                            ELSE Test!NoEntry

Unarmed(g) == [g EXCEPT !.slTriggered = FALSE]

LEMMA UnarmedParts ==
    ASSUME NEW g \in LegacyAccounts
    PROVE  /\ Unarmed(g) \in LegacyAccounts /\ SamePlace(g, Unarmed(g))
           /\ Unarmed(g).slTriggered = FALSE
           /\ Unarmed(g).pendingClose = g.pendingClose /\ Unarmed(g).pendingEntry = g.pendingEntry
<1> DEFINE h == [g EXCEPT !.slTriggered = FALSE]
<1>1. h \in LegacyAccounts  BY DEF LegacyAccounts
<1>2. SamePlace(g, h)  BY DEF LegacyAccounts, SamePlace
<1>3. h.slTriggered = FALSE /\ h.pendingClose = g.pendingClose /\ h.pendingEntry = g.pendingEntry
  BY DEF LegacyAccounts
<1> HIDE DEF h
<1>4. Unarmed(g) = h  BY DEF Unarmed, h
<1> QED  BY <1>1, <1>2, <1>3, <1>4

LEMMA FlatExits ==
    ASSUME NEW a \in Accounts, NEW g, NEW sp, NEW n \in Nat, NEW bar, Filled(a, g, n), g.dir = 0
    PROVE  /\ Test!HardStop(a, sp, n, bar) = a /\ Test!Target(a, sp, n, bar) = a
           /\ Test!Trail(a, sp, n, bar) = a
           /\ Exited(a, Test!LegacyExits(Test!StopArmed(g), sp, n, bar), sp, n, bar)
<1>1. /\ g \in LegacyAccounts /\ Same(a, g, n - 1) /\ a.pos = Test!NoPosition /\ a.pos.dir = 0
  BY DEF Filled, Same
<1>2. \A slot : ~ Test!Evaluates(a, sp, slot)  BY <1>1 DEF Test!Evaluates, Test!IsOpen, Test!NoDir
<1>3. /\ Test!HardStop(a, sp, n, bar) = a /\ Test!Target(a, sp, n, bar) = a
      /\ Test!Trail(a, sp, n, bar) = a
  <2>1. ~ Test!Evaluates(a, sp, "hardStop")  BY <1>2
  <2>4. Test!HardStop(a, sp, n, bar) = a  BY <2>1, Zenon DEF Test!HardStop
  <2>2. Test!Target(a, sp, n, bar) = a  BY <1>2 DEF Test!Target
  <2>3. Test!Trail(a, sp, n, bar) = a  BY <1>2 DEF Test!Trail
  <2> QED  BY <2>2, <2>3, <2>4
<1>4. PICK h : h = Unarmed(g)  OBVIOUS
<1>5. /\ h \in LegacyAccounts /\ SamePlace(g, h) /\ h.slTriggered = FALSE
      /\ h.pendingClose = g.pendingClose /\ h.pendingEntry = g.pendingEntry
  BY <1>1, <1>4, UnarmedParts
<1>6. Test!StopArmed(g) = h  BY <1>4 DEF Test!StopArmed, Test!NoDir, Unarmed
<1>7. h.dir = 0  BY <1>5 DEF SamePlace
<1>8. Test!LegacyExits(h, sp, n, bar) = h  BY <1>7 DEF Test!LegacyExits, Test!NoDir
<1>9. Same(a, h, n)  BY <1>1, <1>5, SameOnEqualParts, SameLater
<1>10. a.pos.triggered = FALSE  BY <1>1 DEF Test!NoPosition
<1>11. Exited(a, h, sp, n, bar)  BY <1>5, <1>7, <1>9, <1>10 DEF Filled, Exited
<1> QED  BY <1>3, <1>6, <1>8, <1>11

(* What a bar reaches only depends on direction and price.                 *)
LEMMA SamePrices ==
    ASSUME NEW q, NEW r, q.dir = r.dir, q.price = r.price, NEW sp, NEW bar
    PROVE  /\ Test!EmergencyPrice(q, sp) = Test!EmergencyPrice(r, sp)
           /\ \A price : Test!Falls(q, bar, price) <=> Test!Falls(r, bar, price)
           /\ \A price : Test!Reaches(q, bar, price) <=> Test!Reaches(r, bar, price)
<1>1. Test!EmergencyPrice(q, sp) = Test!EmergencyPrice(r, sp)  BY DEF Test!EmergencyPrice
<1> QED  BY <1>1 DEF Test!Falls, Test!Reaches

(* The bar of the legacy strategy when neither stop nor target is reached. *)
Noted(g, n) == [g EXCEPT !.tp1Hit = g.tp1Hit \/ (g.tp1 # -1 /\ n > g.tp1)]

LEMMA NotedParts ==
    ASSUME NEW a, NEW g, NEW n \in Nat, Same(a, g, n - 1), g.dir # 0
    PROVE  /\ Noted(g, n) \in LegacyAccounts /\ Same(a, Noted(g, n), n)
           /\ Noted(g, n).dir = g.dir /\ Noted(g, n).price = g.price /\ Noted(g, n).atr = g.atr
           /\ Noted(g, n).opened = g.opened /\ Noted(g, n).subs = g.subs
           /\ Noted(g, n).pendingClose = g.pendingClose /\ Noted(g, n).pendingEntry = g.pendingEntry
           /\ Noted(g, n).slTriggered = g.slTriggered
           /\ Noted(g, n).tp1Hit <=> g.tp1 # -1
<1> DEFINE hit == g.tp1Hit \/ (g.tp1 # -1 /\ n > g.tp1)
           h == [g EXCEPT !.tp1Hit = hit]
<1>1. g \in LegacyAccounts /\ Alike(a, g, n - 1) /\ g.tp1 \in Int
  BY FieldsOfLegacy DEF Same
<1>2. hit <=> g.tp1 # -1  BY <1>1 DEF Alike
<1>3. hit \in BOOLEAN  BY <1>1, FieldsOfLegacy
<1> HIDE DEF hit
<1>4. /\ h \in LegacyAccounts /\ h.equity = g.equity /\ h.dir = g.dir /\ h.price = g.price
      /\ h.atr = g.atr /\ h.opened = g.opened /\ h.subs = g.subs /\ h.tp1 = g.tp1 /\ h.tp1Hit = hit
      /\ h.pendingClose = g.pendingClose /\ h.pendingEntry = g.pendingEntry
      /\ h.slTriggered = g.slTriggered
  BY <1>1, <1>3 DEF LegacyAccounts
<1> HIDE DEF h
<1>5. Alike(a, h, n)
  <2>1. Mirror(a, h)  BY <1>1, <1>4 DEF Alike, Mirror
  <2>2. \A s \in 1 .. 3 : LimitOf(h, s) = LimitOf(g, s)  BY <1>4 DEF LimitOf
  <2> QED  BY <1>1, <1>2, <1>4, <2>1, <2>2 DEF Alike
<1>6. Same(a, h, n)  BY <1>4, <1>5 DEF Same
<1>7. Noted(g, n) = h  BY DEF Noted, h, hit
<1> QED  BY <1>2, <1>4, <1>6, <1>7

LEMMA NoTargetReached ==
    ASSUME NEW a, NEW g, NEW sp, NEW n \in Nat, NEW bar, Same(a, g, n - 1), g.dir # 0,
           ~ Test!Falls(a.pos, bar, Test!EmergencyPrice(a.pos, sp)),
           \A s \in 1 .. 3 : ~(~ a.pos.subs[s].closed /\ Test!Reaches(a.pos, bar, a.pos.subs[s].target))
    PROVE  Test!LegacyIntraBar(g, sp, n, bar) = IF n = g.opened THEN g ELSE Noted(g, n)
<1>1. g \in LegacyAccounts /\ Alike(a, g, n - 1) /\ a.pos.dir = g.dir  BY DEF Same
<1>2. a.pos.price = g.price /\ Len(g.subs) = 3 /\ DOMAIN g.subs = 1 .. 3
  <2>1. DOMAIN g.subs = 1 .. Len(g.subs)  BY <1>1, FieldsOfLegacy
  <2> QED  BY <1>1, <2>1 DEF Alike, Mirror
<1> DEFINE q == [dir |-> g.dir, price |-> g.price]
           esl == Test!EmergencyPrice(q, sp)
           hit == {s \in DOMAIN g.subs : ~ g.subs[s].closed /\ Test!Reaches(q, bar, LimitOf(g, s))}
           exits == [s \in hit |-> LimitOf(g, s)]
           taken == Test!LegacyCloseSubs(IF 1 \in hit THEN [g EXCEPT !.tp1 = n] ELSE g, exits)
           noted == [taken EXCEPT !.tp1Hit = @ \/ (taken.tp1 # -1 /\ n > taken.tp1)]
<1>3. q.dir = a.pos.dir /\ q.price = a.pos.price  BY <1>1, <1>2
<1>4. ~ Test!Falls(q, bar, esl)
  <2> HIDE DEF q
  <2> QED  BY <1>3, SamePrices
<1>5. hit = {}
  <2>1. ASSUME NEW s \in 1 .. 3 PROVE ~(~ g.subs[s].closed /\ Test!Reaches(q, bar, LimitOf(g, s)))
    <3>1. g.subs[s].closed = a.pos.subs[s].closed /\ LimitOf(g, s) = a.pos.subs[s].target
      BY <1>1 DEF Alike, Mirror
    <3> HIDE DEF q
    <3>2. Test!Reaches(q, bar, LimitOf(g, s)) <=> Test!Reaches(a.pos, bar, LimitOf(g, s))
      BY <1>3, SamePrices
    <3> QED  BY <3>1, <3>2
  <2> QED  BY <1>2, <2>1
<1>6. Test!LegacyIntraBar(g, sp, n, bar) =
          IF Test!Falls(q, bar, esl) THEN Test!LegacyCloseAll(g, esl - g.dir * Slippage)
          ELSE IF n = g.opened THEN g
          ELSE IF \A s \in DOMAIN noted.subs : noted.subs[s].closed
               THEN [noted EXCEPT !.dir = 0, !.subs = << >>]
          ELSE noted
  BY DEF Test!LegacyIntraBar, LimitOf, Test!NoDir, Test!Unset
<1> HIDE DEF q, esl
<1>7. taken = g
  <2>1. DOMAIN exits = {} /\ 1 \notin hit  BY <1>5
  <2> HIDE DEF hit, exits
  <2>2. Test!LegacyCloseSubs(g, exits) = g  BY <1>2, <2>1, ThreeLegacyCloses DEF LegacyDoes
  <2> QED  BY <2>1, <2>2
<1> HIDE DEF taken
<1>8. noted = Noted(g, n)  BY <1>7 DEF Noted
<1>9. ~ \A s \in DOMAIN noted.subs : noted.subs[s].closed
  <2> HIDE DEF noted
  <2>1. noted.subs = g.subs
    <3>1. Noted(g, n).subs = g.subs  BY <1>1 DEF Noted, LegacyAccounts
    <3> QED  BY <1>8, <3>1
  <2>2. \E s \in 1 .. 3 : ~ g.subs[s].closed  BY <1>1 DEF Alike
  <2> QED  BY <1>2, <2>1, <2>2
<1> HIDE DEF noted
<1> QED  BY <1>4, <1>6, <1>8, <1>9

Stopped(g, beyond) == [g EXCEPT !.slTriggered = g.slTriggered \/ beyond]

LEMMA StoppedParts ==
    ASSUME NEW g \in LegacyAccounts, NEW beyond
    PROVE  /\ Stopped(g, beyond) \in LegacyAccounts /\ SamePlace(g, Stopped(g, beyond))
           /\ Stopped(g, beyond).pendingClose = g.pendingClose
           /\ Stopped(g, beyond).pendingEntry = g.pendingEntry
           /\ Stopped(g, beyond).slTriggered = (g.slTriggered \/ beyond)
<1> DEFINE flag == g.slTriggered \/ beyond
           h == [g EXCEPT !.slTriggered = flag]
<1>1. flag \in BOOLEAN  OBVIOUS
<1> HIDE DEF flag
<1>2. h \in LegacyAccounts  BY <1>1 DEF LegacyAccounts
<1>3. SamePlace(g, h)  BY DEF LegacyAccounts, SamePlace
<1>4. h.slTriggered = flag /\ h.pendingClose = g.pendingClose /\ h.pendingEntry = g.pendingEntry
  BY DEF LegacyAccounts
<1> HIDE DEF h
<1>5. Stopped(g, beyond) = h  BY DEF Stopped, h, flag
<1> QED  BY <1>2, <1>3, <1>4, <1>5 DEF flag

(* Price times 1000 of the stop of the legacy strategy.                    *)
LegacyPrice1000(g, sp) ==
    IF g.tp1Hit THEN g.price * (1000 + g.dir * 3) ELSE 1000 * (g.price - g.dir * g.atr * sp.atrSL)

(* The close is beyond the stop of the legacy strategy.                    *)
Past(g, sp, bar) == g.dir # 0 /\ 1000 * g.dir * bar.close <= g.dir * LegacyPrice1000(g, sp)

LEMMA PastIs ==
    ASSUME NEW g, NEW sp, NEW bar
    PROVE  Past(g, sp, bar) \in BOOLEAN /\ (g.dir = 0 => Past(g, sp, bar) = FALSE)
<1>1. Past(g, sp, bar) \in BOOLEAN  BY DEF Past
<1>2. g.dir = 0 => ~ Past(g, sp, bar)  BY DEF Past
<1> QED  BY <1>1, <1>2, Zenon

LEMMA LegacyStopIs ==
    ASSUME NEW g, NEW sp, NEW bar
    PROVE  Test!LegacyStop(g, sp, bar) = Stopped(g, Past(g, sp, bar))
  BY Zenon DEF Test!LegacyStop, Stopped, Past, LegacyPrice1000, Test!NoDir

LEMMA ArmedExits ==
    ASSUME NEW a \in Accounts, NEW g, NEW sp \in Specs, Test!IsPort(sp), NEW n \in Nat, NEW bar \in Bars,
           Filled(a, g, n), g.dir # 0, a.pos.triggered,
           ~ Test!Falls(a.pos, bar, Test!EmergencyPrice(a.pos, sp)),
           \A s \in 1 .. 3 : ~(~ a.pos.subs[s].closed /\ Test!Reaches(a.pos, bar, a.pos.subs[s].target)),
           -g.dir \notin Test!Signals(sp, bar),
           NEW x, x = Test!HardStop(a, sp, n, bar)
    PROVE  /\ Test!Target(x, sp, n, bar) = x /\ Test!Trail(x, sp, n, bar) = x
           /\ Exited(x, Test!LegacyExits(Test!StopArmed(g), sp, n, bar), sp, n, bar)
<1>1. /\ g \in LegacyAccounts /\ Same(a, g, n - 1) /\ Alike(a, g, n - 1) /\ a.pos.dir = g.dir
      /\ a.pendingClose = Test!NoSignal /\ a.pendingEntry = 0 /\ g.pendingClose = Test!NoSignal
      /\ g.pendingEntry = Test!NoEntry /\ g.slTriggered
  BY DEF Filled, Same
<1>2. x = [a EXCEPT !.pos.triggered = FALSE, !.pendingClose = "SL"]
  <2>1. Test!Evaluates(a, sp, "hardStop")  BY <1>1 DEF Test!Evaluates, Test!IsOpen, Test!NoDir, Test!IsPort
  <2>2. a.pos.atr # 0  BY <1>1 DEF Alike
  <2> QED  BY <2>1, <2>2 DEF Test!HardStop
<1>3. /\ x.equity = a.equity /\ x.pendingEntry = a.pendingEntry /\ x.pendingClose = "SL"
      /\ x.pos = [a.pos EXCEPT !.triggered = FALSE]
  BY <1>2 DEF Accounts
<1>4. /\ x.pos.dir = a.pos.dir /\ x.pos.price = a.pos.price /\ x.pos.opened = a.pos.opened
      /\ x.pos.atr = a.pos.atr /\ x.pos.subs = a.pos.subs /\ x.pos.tp1 = a.pos.tp1
  <2>1. a.pos \in Positions  BY FieldsOfAccount
  <2> QED  BY <1>3, <2>1 DEF Positions
<1>5. ASSUME NEW h, Same(a, h, n) PROVE Same(x, h, n)
  <2>1. Mirror(a, h) => Mirror(x, h)  BY <1>3, <1>4 DEF Mirror
  <2>2. Alike(a, h, n) => Alike(x, h, n)  BY <1>4, <2>1 DEF Alike
  <2>3. h.dir # 0
    <3>1. a.pos.dir # 0 /\ a.pos.dir = h.dir  BY <1>1, <1>5 DEF Same
    <3> QED  BY <3>1
  <2>4. /\ h \in LegacyAccounts /\ a.equity = h.equity /\ a.pos.dir = h.dir /\ Alike(a, h, n)
    <3>1. a.pos.dir # 0  BY <1>1
    <3> QED  BY <1>5, <3>1 DEF Same
  <2>5. Alike(x, h, n)  BY <2>2, <2>4
  <2>6. x.equity = h.equity /\ x.pos.dir = h.dir  BY <1>3, <1>4, <2>4
  <2> QED  BY Zenon, <2>3, <2>4, <2>5, <2>6 DEF Same
<1>6. \A slot : ~ Test!Evaluates(x, sp, slot)
  <2>1. [a EXCEPT !.pos.triggered = FALSE, !.pendingClose = "SL"].pendingClose = "SL"  BY DEF Accounts
  <2>2. x.pendingClose = "SL"  BY Zenon, <1>2, <2>1
  <2> QED  BY Zenon, <2>2, QueuedIsDeaf
<1>7. Test!Target(x, sp, n, bar) = x /\ Test!Trail(x, sp, n, bar) = x
  BY <1>6 DEF Test!Target, Test!Trail
<1> DEFINE h == [g EXCEPT !.pendingClose = "SL", !.slTriggered = FALSE]
<1>8. Test!StopArmed(g) = h
  <2>1. [[g EXCEPT !.pendingClose = "SL"] EXCEPT !.slTriggered = FALSE] = h  OBVIOUS
  <2> QED  BY <1>1, <2>1 DEF Test!StopArmed, Test!NoDir
<1>9. h \in LegacyAccounts  BY <1>1 DEF LegacyAccounts
<1>10. SamePlace(g, h)  BY <1>1 DEF LegacyAccounts, SamePlace
<1>11. h.pendingClose = "SL" /\ h.pendingEntry = g.pendingEntry  BY <1>1 DEF LegacyAccounts
<1> HIDE DEF h
<1>12. Same(a, h, n - 1) /\ h.dir # 0  BY <1>1, <1>9, <1>10, SameOnEqualParts DEF SamePlace
<1>13. PICK j : j = Test!LegacyIntraBar(h, sp, n, bar)  OBVIOUS
<1>14. /\ j \in LegacyAccounts /\ Same(a, j, n) /\ j.pendingClose = "SL" /\ j.dir = g.dir
       /\ j.pendingEntry = g.pendingEntry
  <2>1. j = h \/ j = Noted(h, n)  BY <1>12, <1>13, NoTargetReached
  <2>2. CASE j = h  BY <1>9, <1>10, <1>11, <1>12, <2>2, SameLater DEF SamePlace
  <2>3. CASE j = Noted(h, n)
    <3>1. /\ j \in LegacyAccounts /\ Same(a, j, n) /\ j.dir = h.dir
          /\ j.pendingClose = h.pendingClose /\ j.pendingEntry = h.pendingEntry
      BY <1>12, <2>3, NotedParts
    <3> QED  BY <1>10, <1>11, <3>1 DEF SamePlace
  <2> QED  BY <2>1, <2>2, <2>3
<1>15. Test!LegacyDeferred(j, sp, n, bar) = j  BY <1>14, SignalsDiffer DEF Test!LegacyDeferred
<1>16. PICK beyond : Test!LegacyStop(j, sp, bar) = Stopped(j, beyond)  BY LegacyStopIs
<1>17. PICK k : k = Stopped(j, beyond)  OBVIOUS
<1>18. /\ k \in LegacyAccounts /\ SamePlace(j, k) /\ k.pendingClose = "SL"
       /\ k.pendingEntry = g.pendingEntry
  BY <1>14, <1>17, StoppedParts
<1>19. Same(a, k, n)  BY <1>14, <1>18, SameOnEqualParts
<1>20. k.dir = g.dir  BY <1>14, <1>18 DEF SamePlace
<1>21. Exited(x, k, sp, n, bar)
  <2>1. k.pendingClose # Test!NoSignal  BY <1>18, SignalsDiffer
  <2> QED  BY <1>1, <1>3, <1>5, <1>18, <1>19, <1>20, <2>1 DEF Exited
<1>22. Test!LegacyExits(h, sp, n, bar) = k
  BY <1>12, <1>13, <1>15, <1>16, <1>17 DEF Test!LegacyExits, Test!NoDir
<1> QED  BY <1>7, <1>8, <1>21, <1>22

LEMMA EmergencyExits ==
    ASSUME NEW a \in Accounts, NEW g, NEW sp \in Specs, Test!IsPort(sp), NEW n \in Nat, NEW bar \in Bars,
           Booked(a, sp.fitnessStart, n), Filled(a, g, n), g.dir # 0, ~ a.pos.triggered,
           Test!Falls(a.pos, bar, Test!EmergencyPrice(a.pos, sp)),
           NEW x, x = Test!HardStop(a, sp, n, bar)
    PROVE  /\ Test!Target(x, sp, n, bar) = x /\ Test!Trail(x, sp, n, bar) = x
           /\ Exited(x, Test!LegacyExits(Test!StopArmed(g), sp, n, bar), sp, n, bar)
<1>1. /\ g \in LegacyAccounts /\ Same(a, g, n - 1) /\ Alike(a, g, n - 1) /\ a.pos.dir = g.dir
      /\ a.pos.price = g.price /\ g.slTriggered = FALSE
      /\ a.pendingClose = Test!NoSignal /\ a.pendingEntry = 0 /\ g.pendingClose = Test!NoSignal
      /\ g.pendingEntry = Test!NoEntry
  <2>1. g \in LegacyAccounts /\ Same(a, g, n - 1) /\ Alike(a, g, n - 1)  BY DEF Filled, Same
  <2>2. g.slTriggered \in BOOLEAN /\ a.pos.triggered = g.slTriggered  BY <2>1, FieldsOfLegacy DEF Filled
  <2> QED  BY <2>1, <2>2 DEF Filled, Same, Alike, Mirror
<1>2. PICK exit \in Int : exit = Test!EmergencyPrice(a.pos, sp) - a.pos.dir * Slippage
  BY EmergencyPriceIsInt
<1>3. x = Test!CloseAll(a, sp, exit, n)
  <2>1. Test!Evaluates(a, sp, "hardStop")  BY <1>1 DEF Test!Evaluates, Test!IsOpen, Test!NoDir, Test!IsPort
  <2>2. a.pos.atr # 0  BY <1>1 DEF Alike
  <2> QED  BY <1>2, <2>1, <2>2 DEF Test!HardStop
<1>4. PICK h : h = Unarmed(g)  OBVIOUS
<1>5. /\ h \in LegacyAccounts /\ SamePlace(g, h) /\ h.slTriggered = FALSE
      /\ h.pendingClose = g.pendingClose /\ h.pendingEntry = g.pendingEntry
  BY <1>1, <1>4, UnarmedParts
<1>6. Test!StopArmed(g) = h  BY <1>1, <1>4 DEF Test!StopArmed, Unarmed
<1>7. PICK j : j = Test!LegacyCloseAll(h, exit)  OBVIOUS
<1>8. Test!LegacyIntraBar(h, sp, n, bar) = j
  <2> DEFINE q == [dir |-> h.dir, price |-> h.price]
  <2>1. q.dir = a.pos.dir /\ q.price = a.pos.price /\ h.dir = a.pos.dir  BY <1>1, <1>5 DEF SamePlace
  <2>2. Test!LegacyIntraBar(h, sp, n, bar) =
            IF Test!Falls(q, bar, Test!EmergencyPrice(q, sp))
            THEN Test!LegacyCloseAll(h, Test!EmergencyPrice(q, sp) - h.dir * Slippage)
            ELSE Test!LegacyIntraBar(h, sp, n, bar)
    BY Zenon DEF Test!LegacyIntraBar
  <2> HIDE DEF q
  <2>3. /\ Test!EmergencyPrice(q, sp) = Test!EmergencyPrice(a.pos, sp)
        /\ \A price : Test!Falls(q, bar, price) <=> Test!Falls(a.pos, bar, price)
    BY <2>1, SamePrices
  <2> QED  BY <1>2, <1>7, <2>1, <2>2, <2>3
<1>9. BothLeft(a, h, x, j, sp, n)
  <2>1. Mirror(a, h)
    <3>1. Same(a, h, n - 1) /\ h.dir # 0  BY <1>1, <1>5, SameOnEqualParts DEF SamePlace
    <3> QED  BY <3>1 DEF Same, Alike
  <2>2. Test!IsSizing(sp.sizing) /\ sp.fitnessStart \in Int /\ n \in Int  BY SpecsAssumption
  <2> QED  BY <1>3, <1>5, <1>7, <2>1, <2>2, CloseAllMirrors
<1>10. /\ x.pos = Test!NoPosition /\ x.pos.dir = 0 /\ x.pos.triggered = FALSE
  BY <1>9 DEF BothLeft, Test!NoPosition, Test!NoDir
<1>11. Test!Target(x, sp, n, bar) = x /\ Test!Trail(x, sp, n, bar) = x
  BY <1>10 DEF Test!Target, Test!Trail, Test!Evaluates, Test!IsOpen, Test!NoDir
<1>12. j \in LegacyAccounts /\ j.dir = 0  BY <1>9 DEF BothLeft
<1>13. Test!LegacyDeferred(j, sp, n, bar) = j  BY <1>12 DEF Test!LegacyDeferred, Test!NoDir
<1>14. Test!LegacyStop(j, sp, bar) = Stopped(j, FALSE)
  <2>1. ~(j.dir # Test!NoDir)  BY <1>12 DEF Test!NoDir
  <2> QED  BY <2>1 DEF Test!LegacyStop, Stopped
<1>15. PICK k : k = Stopped(j, FALSE)  OBVIOUS
<1>16. /\ k \in LegacyAccounts /\ SamePlace(j, k) /\ k.pendingClose = j.pendingClose
       /\ k.pendingEntry = j.pendingEntry /\ k.slTriggered = (j.slTriggered \/ FALSE)
  BY <1>12, <1>15, StoppedParts
<1>17. Same(x, j, n)  BY <1>9, <1>10 DEF BothLeft, Same
<1>18. Same(x, k, n)  BY <1>16, <1>17, SameOnEqualParts
<1>19. Exited(x, k, sp, n, bar)
  <2>1. k.slTriggered = FALSE /\ k.dir = 0  BY <1>5, <1>9, <1>16 DEF BothLeft, SamePlace
  <2>2. /\ k.pendingClose = Test!NoSignal /\ k.pendingEntry = Test!NoEntry
        /\ x.pendingClose = Test!NoSignal /\ x.pendingEntry = 0
    BY <1>1, <1>5, <1>9, <1>16 DEF BothLeft
  <2> QED  BY <1>10, <1>18, <2>1, <2>2 DEF Exited
<1>20. Test!LegacyExits(h, sp, n, bar) = k
  <2>1. h.dir # 0  BY <1>1, <1>5 DEF SamePlace
  <2> QED  BY <1>8, <1>13, <1>14, <1>15, <2>1 DEF Test!LegacyExits, Test!NoDir
<1> QED  BY <1>6, <1>11, <1>19, <1>20

(* The targets that bar n reaches, as each side reads them.                *)
HitBy(a, g, bar) == {s \in 1 .. 3 : ~ g.subs[s].closed /\ Test!Reaches(a.pos, bar, LimitOf(g, s))}
LimitsOf(g, hit) == [s \in hit |-> LimitOf(g, s)]
Marks(g, hit, n) == IF 1 \in hit THEN [g EXCEPT !.tp1 = n] ELSE g
MarksPos(a, hit, n) == IF 1 \in hit THEN [a EXCEPT !.pos.tp1 = n] ELSE a

WithoutClosed(g) ==
    IF \A s \in DOMAIN g.subs : g.subs[s].closed THEN [g EXCEPT !.dir = 0, !.subs = << >>] ELSE g

LEMMA IntraBarIs ==
    ASSUME NEW a, NEW g, NEW sp, NEW n \in Nat, NEW bar, Same(a, g, n - 1), g.dir # 0,
           ~ Test!Falls(a.pos, bar, Test!EmergencyPrice(a.pos, sp)),
           NEW hit, hit = HitBy(a, g, bar),
           NEW noted, noted = Noted(Test!LegacyCloseSubs(Marks(g, hit, n), LimitsOf(g, hit)), n)
    PROVE  Test!LegacyIntraBar(g, sp, n, bar) = IF n = g.opened THEN g ELSE WithoutClosed(noted)
<1>1. g \in LegacyAccounts /\ Alike(a, g, n - 1) /\ a.pos.dir = g.dir  BY DEF Same
<1>2. a.pos.price = g.price /\ DOMAIN g.subs = 1 .. 3
  <2>1. DOMAIN g.subs = 1 .. Len(g.subs)  BY <1>1, FieldsOfLegacy
  <2> QED  BY <1>1, <2>1 DEF Alike, Mirror
<1> DEFINE q == [dir |-> g.dir, price |-> g.price]
           esl == Test!EmergencyPrice(q, sp)
           mine == {s \in DOMAIN g.subs : ~ g.subs[s].closed /\ Test!Reaches(q, bar, LimitOf(g, s))}
           taken == Test!LegacyCloseSubs(IF 1 \in mine THEN [g EXCEPT !.tp1 = n] ELSE g,
                                         [s \in mine |-> LimitOf(g, s)])
           seen == [taken EXCEPT !.tp1Hit = @ \/ (taken.tp1 # -1 /\ n > taken.tp1)]
<1>3. q.dir = a.pos.dir /\ q.price = a.pos.price  BY <1>1, <1>2
<1>4. ~ Test!Falls(q, bar, esl)
  <2> HIDE DEF q
  <2> QED  BY <1>3, SamePrices
<1>5. mine = hit
  <2>1. \A s : Test!Reaches(q, bar, LimitOf(g, s)) <=> Test!Reaches(a.pos, bar, LimitOf(g, s))
    <3> HIDE DEF q
    <3> QED  BY <1>3, SamePrices
  <2> HIDE DEF q
  <2> QED  BY <1>2, <2>1 DEF HitBy
<1>6. Test!LegacyIntraBar(g, sp, n, bar) =
          IF Test!Falls(q, bar, esl) THEN Test!LegacyCloseAll(g, esl - g.dir * Slippage)
          ELSE IF n = g.opened THEN g
          ELSE IF \A s \in DOMAIN seen.subs : seen.subs[s].closed
               THEN [seen EXCEPT !.dir = 0, !.subs = << >>]
          ELSE seen
  BY DEF Test!LegacyIntraBar, LimitOf, Test!NoDir, Test!Unset
<1> HIDE DEF q, esl, mine
<1>7. taken = Test!LegacyCloseSubs(Marks(g, hit, n), LimitsOf(g, hit))
  BY <1>5, Zenon DEF Marks, LimitsOf
<1> HIDE DEF taken
<1>8. seen = noted  BY <1>7 DEF Noted
<1> HIDE DEF seen
<1> QED  BY <1>4, <1>6, <1>8 DEF WithoutClosed

LEMMA TargetIs ==
    ASSUME NEW a \in Accounts, NEW g, NEW sp, Test!IsPort(sp), NEW n \in Nat, NEW bar \in Bars,
           Same(a, g, n - 1), g.dir # 0, a.pendingClose = Test!NoSignal,
           NEW hit, hit = HitBy(a, g, bar),
           NEW done, done = Test!CloseSubs(MarksPos(a, hit, n), sp, LimitsOf(g, hit), n)
    PROVE  Test!Target(a, sp, n, bar) =
               IF n <= a.pos.opened THEN a
               ELSE IF Test!AllSubsClosed(done) THEN [done EXCEPT !.pos = Test!NoPosition]
               ELSE done
<1>1. g \in LegacyAccounts /\ Alike(a, g, n - 1) /\ a.pos.dir = g.dir  BY DEF Same
<1>2. DOMAIN a.pos.subs = 1 .. 3
  <2>1. DOMAIN a.pos.subs = 1 .. Len(a.pos.subs)  BY FieldsOfAccount
  <2> QED  BY <1>1, <2>1 DEF Alike, Mirror
<1>3. ASSUME NEW s \in 1 .. 3
      PROVE  /\ a.pos.subs[s].closed = g.subs[s].closed /\ a.pos.subs[s].target = LimitOf(g, s)
             /\ Test!Reaches(a.pos, bar, LimitOf(g, s)) => LimitOf(g, s) > 0
  <2>1. Test!Reaches(a.pos, bar, LimitOf(g, s)) => LimitOf(g, s) > 0  BY ReachedLimits
  <2> QED  BY <1>1, <2>1 DEF Alike, Mirror
<1> DEFINE mine == {s \in DOMAIN a.pos.subs : /\ ~ a.pos.subs[s].closed
                                              /\ a.pos.subs[s].target > 0
                                              /\ Test!Reaches(a.pos, bar, a.pos.subs[s].target)}
           noted == IF 1 \in mine THEN [a EXCEPT !.pos.tp1 = n] ELSE a
           filled == Test!CloseSubs(noted, sp, [s \in mine |-> a.pos.subs[s].target], n)
<1>4. mine = hit  BY <1>2, <1>3 DEF HitBy
<1>5. [s \in mine |-> a.pos.subs[s].target] = LimitsOf(g, hit)
  <2>1. \A s \in hit : a.pos.subs[s].target = LimitOf(g, s)  BY <1>3 DEF HitBy
  <2> HIDE DEF mine
  <2> QED  BY <1>4, <2>1 DEF LimitsOf
<1>6. Test!Evaluates(a, sp, "target")  BY <1>1 DEF Test!Evaluates, Test!IsOpen, Test!NoDir, Test!IsPort
<1>7. Test!Target(a, sp, n, bar) =
          IF ~ Test!Evaluates(a, sp, "target") \/ n <= a.pos.opened THEN a
          ELSE IF Test!AllSubsClosed(filled) THEN [filled EXCEPT !.pos = Test!NoPosition]
          ELSE filled
  BY Zenon DEF Test!Target
<1> HIDE DEF mine
<1>8. noted = MarksPos(a, hit, n)  BY <1>4 DEF MarksPos
<1> HIDE DEF noted
<1>9. filled = done  BY <1>5, <1>8, Zenon
<1> HIDE DEF filled
<1> QED  BY <1>6, <1>7, <1>9

LEMMA NotedIs ==
    ASSUME NEW g \in LegacyAccounts, NEW n \in Nat
    PROVE  /\ Noted(g, n) \in LegacyAccounts /\ Noted(g, n).equity = g.equity
           /\ Noted(g, n).dir = g.dir /\ Noted(g, n).price = g.price /\ Noted(g, n).atr = g.atr
           /\ Noted(g, n).opened = g.opened /\ Noted(g, n).subs = g.subs /\ Noted(g, n).tp1 = g.tp1
           /\ Noted(g, n).pendingClose = g.pendingClose /\ Noted(g, n).pendingEntry = g.pendingEntry
           /\ Noted(g, n).slTriggered = g.slTriggered
           /\ Noted(g, n).tp1Hit <=> g.tp1Hit \/ (g.tp1 # -1 /\ n > g.tp1)
<1> DEFINE hit == g.tp1Hit \/ (g.tp1 # -1 /\ n > g.tp1)
           h == [g EXCEPT !.tp1Hit = hit]
<1>1. hit \in BOOLEAN  BY FieldsOfLegacy
<1> HIDE DEF hit
<1>2. /\ h \in LegacyAccounts /\ h.equity = g.equity /\ h.dir = g.dir /\ h.price = g.price
      /\ h.atr = g.atr /\ h.opened = g.opened /\ h.subs = g.subs /\ h.tp1 = g.tp1 /\ h.tp1Hit = hit
      /\ h.pendingClose = g.pendingClose /\ h.pendingEntry = g.pendingEntry
      /\ h.slTriggered = g.slTriggered
  BY <1>1 DEF LegacyAccounts
<1> HIDE DEF h
<1>3. Noted(g, n) = h  BY DEF Noted, h, hit
<1> QED  BY <1>2, <1>3 DEF hit

(* What the marks of the first target leave alone.                         *)
LEMMA MarksParts ==
    ASSUME NEW a \in Accounts, NEW g \in LegacyAccounts, NEW hit, NEW n \in Nat, NEW sp,
           Booked(a, sp.fitnessStart, n), Mirror(a, g),
           NEW c, c = MarksPos(a, hit, n), NEW m, m = Marks(g, hit, n)
    PROVE  /\ c \in Accounts /\ Booked(c, sp.fitnessStart, n) /\ m \in LegacyAccounts /\ Mirror(c, m)
           /\ c.pendingEntry = a.pendingEntry /\ c.pendingClose = a.pendingClose
           /\ c.pos.opened = a.pos.opened /\ c.pos.atr = a.pos.atr /\ c.pos.subs = a.pos.subs
           /\ c.pos.triggered = a.pos.triggered
           /\ c.pos.tp1 = IF 1 \in hit THEN n ELSE a.pos.tp1
           /\ m.dir = g.dir /\ m.price = g.price /\ m.opened = g.opened /\ m.atr = g.atr
           /\ m.subs = g.subs /\ m.tp1Hit = g.tp1Hit
           /\ m.pendingEntry = g.pendingEntry /\ m.pendingClose = g.pendingClose
           /\ m.slTriggered = g.slTriggered
           /\ m.tp1 = IF 1 \in hit THEN n ELSE g.tp1
<1>1. CASE 1 \in hit
  <2>1. c = [a EXCEPT !.pos.tp1 = n] /\ m = [g EXCEPT !.tp1 = n]  BY <1>1 DEF MarksPos, Marks
  <2>2. a.pos \in Positions /\ n \in Int  BY FieldsOfAccount
  <2>3. /\ c.pos = [a.pos EXCEPT !.tp1 = n] /\ c.equity = a.equity
        /\ c.pendingEntry = a.pendingEntry /\ c.pendingClose = a.pendingClose
    BY <2>1 DEF Accounts
  <2>4. [a.pos EXCEPT !.tp1 = n] \in Positions  BY <2>2 DEF Positions
  <2>5. c \in Accounts /\ Booked(c, sp.fitnessStart, n)  BY <2>1, <2>4 DEF Accounts, Booked
  <2>6. /\ c.pos.dir = a.pos.dir /\ c.pos.price = a.pos.price /\ c.pos.opened = a.pos.opened
        /\ c.pos.atr = a.pos.atr /\ c.pos.subs = a.pos.subs /\ c.pos.triggered = a.pos.triggered
        /\ c.pos.tp1 = n
    BY <2>2, <2>3 DEF Positions
  <2>7. m \in LegacyAccounts  BY <2>1, <2>2 DEF LegacyAccounts
  <2>8. /\ m.equity = g.equity /\ m.dir = g.dir /\ m.price = g.price /\ m.opened = g.opened
        /\ m.atr = g.atr /\ m.subs = g.subs /\ m.tp1Hit = g.tp1Hit /\ m.tp1 = n
        /\ m.pendingEntry = g.pendingEntry /\ m.pendingClose = g.pendingClose
        /\ m.slTriggered = g.slTriggered
    BY <2>1 DEF LegacyAccounts
  <2>9. Mirror(c, m)  BY <2>3, <2>6, <2>8 DEF Mirror
  <2> QED  BY <1>1, <2>3, <2>5, <2>6, <2>7, <2>8, <2>9
<1>2. CASE 1 \notin hit
  <2>1. c = a /\ m = g  BY <1>2 DEF MarksPos, Marks
  <2> QED  BY <1>2, <2>1
<1> QED  BY <1>1, <1>2

(* What the targets of bar n leave of the position.                        *)
Took(a, g, b, h, n) ==
    /\ b \in Accounts /\ Same(b, h, n)
    /\ b.pendingEntry = a.pendingEntry /\ b.pendingClose = a.pendingClose
    /\ h.pendingEntry = g.pendingEntry /\ h.pendingClose = g.pendingClose
    /\ h.slTriggered = g.slTriggered
    /\ h.dir # 0 => /\ h.dir = g.dir /\ h.price = g.price /\ h.opened = g.opened /\ h.atr = g.atr
                    /\ b.pos.triggered = a.pos.triggered
                    /\ h.tp1Hit <=> g.tp1 # -1

LEMMA TargetTwins ==
    ASSUME NEW a \in Accounts, NEW g, NEW sp \in Specs, Test!IsPort(sp), NEW n \in Nat, NEW bar \in Bars,
           Booked(a, sp.fitnessStart, n), Same(a, g, n - 1), g.dir # 0, a.pos.opened <= n,
           a.pendingClose = Test!NoSignal,
           ~ Test!Falls(a.pos, bar, Test!EmergencyPrice(a.pos, sp)),
           NEW b, b = Test!Target(a, sp, n, bar), NEW h, h = Test!LegacyIntraBar(g, sp, n, bar)
    PROVE  Took(a, g, b, h, n)
<1>1. /\ g \in LegacyAccounts /\ Alike(a, g, n - 1) /\ a.pos.dir = g.dir /\ a.pos.opened = g.opened
      /\ Mirror(a, g) /\ g.opened \in Int /\ g.tp1 \in Int /\ a.pos.tp1 = g.tp1
  <2>1. g \in LegacyAccounts /\ Alike(a, g, n - 1) /\ a.pos.dir = g.dir  BY DEF Same
  <2> QED  BY <2>1, FieldsOfLegacy DEF Alike
<1>2. PICK hit : hit = HitBy(a, g, bar)  OBVIOUS
<1>3. PICK exits : exits = LimitsOf(g, hit)  OBVIOUS
<1>4. PICK c : c = MarksPos(a, hit, n)  OBVIOUS
<1>5. PICK m : m = Marks(g, hit, n)  OBVIOUS
<1>6. PICK d : d = Test!CloseSubs(c, sp, exits, n)  OBVIOUS
<1>7. PICK t : t = Test!LegacyCloseSubs(m, exits)  OBVIOUS
<1>8. PICK j : j = Noted(t, n)  OBVIOUS
<1>9. b = IF n <= a.pos.opened THEN a
          ELSE IF Test!AllSubsClosed(d) THEN [d EXCEPT !.pos = Test!NoPosition]
          ELSE d
  BY <1>2, <1>3, <1>4, <1>6, TargetIs
<1>10. h = IF n = g.opened THEN g
           ELSE IF \A s \in DOMAIN j.subs : j.subs[s].closed
                THEN [j EXCEPT !.dir = 0, !.subs = << >>]
           ELSE j
  <2>1. j = Noted(Test!LegacyCloseSubs(Marks(g, hit, n), LimitsOf(g, hit)), n)
    BY <1>3, <1>5, <1>7, <1>8
  <2>2. Test!LegacyIntraBar(g, sp, n, bar) = IF n = g.opened THEN g ELSE WithoutClosed(j)
    BY <1>2, <2>1, IntraBarIs
  <2> QED  BY <2>2 DEF WithoutClosed
<1>11. CASE n = g.opened
  <2>1. b = a /\ h = g  BY <1>1, <1>9, <1>10, <1>11
  <2>2. g.tp1 = -1 /\ ~ g.tp1Hit  BY <1>1, <1>11 DEF Alike
  <2> QED  BY <2>1, <2>2, SameLater DEF Took
<1>12. CASE n # g.opened
  <2>0. n > g.opened  BY <1>1, <1>12
  <2>1. /\ c \in Accounts /\ Booked(c, sp.fitnessStart, n) /\ m \in LegacyAccounts /\ Mirror(c, m)
        /\ c.pendingEntry = a.pendingEntry /\ c.pendingClose = a.pendingClose
        /\ c.pos.opened = a.pos.opened /\ c.pos.atr = a.pos.atr /\ c.pos.subs = a.pos.subs
        /\ c.pos.triggered = a.pos.triggered
        /\ c.pos.tp1 = IF 1 \in hit THEN n ELSE a.pos.tp1
        /\ m.dir = g.dir /\ m.price = g.price /\ m.opened = g.opened /\ m.atr = g.atr
        /\ m.subs = g.subs /\ m.tp1Hit = g.tp1Hit
        /\ m.pendingEntry = g.pendingEntry /\ m.pendingClose = g.pendingClose
        /\ m.slTriggered = g.slTriggered
        /\ m.tp1 = IF 1 \in hit THEN n ELSE g.tp1
    BY <1>1, <1>4, <1>5, MarksParts
  <2>2. DOMAIN exits = hit /\ \A s \in DOMAIN exits : exits[s] \in Int
    <3>1. \A s \in 1 .. 3 : LimitOf(g, s) \in Int  BY ReachedLimits
    <3> QED  BY <1>2, <1>3, <3>1 DEF LimitsOf, HitBy
  <2>3. Closes(c, m, d, t, sp, n) /\ (1 \in hit => t.subs[1].closed)
    <3>1. Test!IsSizing(sp.sizing) /\ sp.fitnessStart \in Int /\ n \in Int  BY SpecsAssumption
    <3> QED  BY <1>6, <1>7, <2>1, <2>2, <3>1, CloseSubsMirrors
  <2>4. /\ d \in Accounts /\ t \in LegacyAccounts /\ SameButSubs(c, d) /\ LegacyKeeps(m, t)
        /\ Mirror(d, t) /\ KeepsLimits(c, m, d, t)
    BY <2>3 DEF Closes
  <2>5. /\ j \in LegacyAccounts /\ j.equity = t.equity
        /\ j.dir = t.dir /\ j.price = t.price /\ j.atr = t.atr
        /\ j.opened = t.opened /\ j.subs = t.subs /\ j.tp1 = t.tp1
        /\ j.pendingClose = t.pendingClose /\ j.pendingEntry = t.pendingEntry
        /\ j.slTriggered = t.slTriggered
        /\ j.tp1Hit <=> t.tp1Hit \/ (t.tp1 # -1 /\ n > t.tp1)
    BY <1>8, <2>4, NotedIs
  <2>6. /\ j.dir = g.dir /\ j.price = g.price /\ j.opened = g.opened /\ j.atr = g.atr
        /\ j.pendingClose = g.pendingClose /\ j.pendingEntry = g.pendingEntry
        /\ j.slTriggered = g.slTriggered
        /\ j.tp1 = IF 1 \in hit THEN n ELSE g.tp1
        /\ d.pendingEntry = a.pendingEntry /\ d.pendingClose = a.pendingClose
        /\ d.pos.opened = a.pos.opened /\ d.pos.atr = a.pos.atr
        /\ d.pos.triggered = a.pos.triggered /\ d.pos.tp1 = j.tp1
        /\ j.tp1Hit <=> g.tp1Hit \/ (j.tp1 # -1 /\ n > j.tp1)
    BY <1>1, <2>1, <2>4, <2>5 DEF SameButSubs, LegacyKeeps
  <2>7. 1 \in hit => g.tp1 = -1  BY <1>1, <1>2 DEF HitBy, Alike
  <2>8. j.tp1Hit <=> g.tp1 # -1
    <3>1. CASE 1 \in hit  BY <1>1, <2>6, <2>7, <3>1 DEF Alike
    <3>2. CASE 1 \notin hit  BY <1>1, <2>6, <3>2 DEF Alike
    <3> QED  BY <3>1, <3>2
  <2>9. Mirror(d, j)  BY <2>4, <2>5 DEF Mirror
  <2>10. Test!AllSubsClosed(d) <=> \A s \in 1 .. 3 : j.subs[s].closed
    <3>1. DOMAIN d.pos.subs = 1 .. Len(d.pos.subs)  BY <2>4, FieldsOfAccount
    <3> QED  BY <2>9, <3>1 DEF Mirror, Test!AllSubsClosed
  <2>11. DOMAIN j.subs = 1 .. 3
    <3>1. DOMAIN j.subs = 1 .. Len(j.subs)  BY <2>5, FieldsOfLegacy
    <3> QED  BY <2>9, <3>1 DEF Mirror
  <2>12. CASE Test!AllSubsClosed(d)
    <3>1. b = [d EXCEPT !.pos = Test!NoPosition]  BY <1>1, <1>9, <2>0, <2>12
    <3>2. h = [j EXCEPT !.dir = 0, !.subs = << >>]  BY <1>10, <1>12, <2>10, <2>11, <2>12
    <3>3. /\ b \in Accounts /\ b.pos = Test!NoPosition /\ b.equity = d.equity
          /\ b.pendingEntry = d.pendingEntry /\ b.pendingClose = d.pendingClose
      BY <2>4, <3>1, NoPositionType DEF Accounts
    <3>4. << >> \in Seq(LegacyUnits)  OBVIOUS
    <3>5. /\ h \in LegacyAccounts /\ h.dir = 0 /\ h.subs = << >> /\ h.equity = j.equity
          /\ h.pendingEntry = j.pendingEntry /\ h.pendingClose = j.pendingClose
          /\ h.slTriggered = j.slTriggered
      BY <2>5, <3>2, <3>4 DEF LegacyAccounts
    <3>6. b.equity = h.equity  BY <2>9, <3>3, <3>5 DEF Mirror
    <3>7. b.pos.dir = 0  BY <3>3 DEF Test!NoPosition, Test!NoDir
    <3> QED  BY <2>6, <3>3, <3>5, <3>6, <3>7 DEF Took, Same
  <2>13. CASE ~ Test!AllSubsClosed(d)
    <3>1. b = d  BY <1>1, <1>9, <2>0, <2>13
    <3>2. h = j  BY <1>10, <1>12, <2>10, <2>11, <2>13
    <3>3. ASSUME NEW s \in 1 .. 3
          PROVE  j.subs[s].mult > 0 /\ d.pos.subs[s].target = LimitOf(j, s)
      <4>1. j.subs[s].mult = g.subs[s].mult /\ d.pos.subs[s].target = a.pos.subs[s].target
        BY <2>1, <2>4, <2>5 DEF KeepsLimits
      <4>2. LimitOf(j, s) = LimitOf(g, s)  BY <2>6, <4>1 DEF LimitOf
      <4> QED  BY <1>1, <4>1, <4>2 DEF Alike
    <3>4. j.tp1 # -1 => j.opened < j.tp1 /\ j.tp1 <= n /\ j.subs[1].closed
      <4>1. CASE 1 \in hit  BY <2>0, <2>3, <2>5, <2>6, <4>1
      <4>2. CASE 1 \notin hit
        <5>1. g.subs[1].closed => j.subs[1].closed  BY <2>1, <2>4, <2>5 DEF KeepsLimits
        <5> QED  BY <1>1, <2>6, <4>2, <5>1 DEF Alike
      <4> QED  BY <4>1, <4>2
    <3>5. j.tp1Hit => j.tp1 # -1  BY <2>6, <2>7, <2>8
    <3>6. \E s \in 1 .. 3 : ~ j.subs[s].closed  BY <2>10, <2>13
    <3>7. Alike(d, j, n)  BY <1>1, <2>6, <2>9, <3>3, <3>4, <3>5, <3>6 DEF Alike
    <3>8. Same(d, j, n)  BY <1>1, <2>5, <2>6, <2>9, <3>7 DEF Same, Mirror
    <3> QED  BY <2>4, <2>6, <2>8, <3>1, <3>2, <3>8 DEF Took
  <2> QED  BY <2>12, <2>13
<1> QED  BY <1>11, <1>12

LEMMA ReasonsDiffer == Test!NoSignal # "Time" /\ Test!NoSignal # "Reversal" /\ Test!NoSignal # "Structural"
  BY Zenon DEF Test!NoSignal

(* Where a close is queued for the next open, and the entry beside it.     *)
Reason(g, sp, n, bar) ==
    IF n - g.opened >= sp.maxBars - 1 THEN "Time"
    ELSE IF -g.dir \in Test!Signals(sp, bar) THEN "Reversal"
    ELSE IF g.dir \in bar.breaks THEN "Structural"
    ELSE Test!NoSignal

LEMMA ReasonIs ==
    ASSUME NEW g, NEW sp, NEW n, NEW bar
    PROVE  Reason(g, sp, n, bar) \in {Test!NoSignal, "Time", "Reversal", "Structural"}
  BY DEF Reason

LEMMA DeferredParts ==
    ASSUME NEW g \in LegacyAccounts, NEW sp \in Specs, Test!IsPort(sp), NEW n \in Nat, NEW bar \in Bars,
           g.dir # 0, g.pendingClose = Test!NoSignal, g.pendingEntry = Test!NoEntry,
           n - g.opened >= sp.maxBars - 1 => -g.dir \notin Test!Signals(sp, bar),
           NEW j, j = Test!LegacyDeferred(g, sp, n, bar)
    PROVE  /\ j \in LegacyAccounts /\ SamePlace(g, j) /\ j.slTriggered = g.slTriggered
           /\ j.pendingClose = Reason(g, sp, n, bar)
           /\ j.pendingEntry = IF -g.dir \in Test!Signals(sp, bar)
                               THEN [dir |-> -g.dir, atr |-> bar.atr] ELSE Test!NoEntry
<1> DEFINE late == n - g.opened >= sp.maxBars - 1
           against == -g.dir \in Test!Signals(sp, bar)
           entry == [dir |-> -g.dir, atr |-> bar.atr]
<1>1. /\ g.dir \in {1, -1} /\ -g.dir \in {1, -1} /\ bar.atr \in Int
  BY FieldsOfLegacy, BarsAssumption
<1>2. against <=> Test!Score(bar, -g.dir) >= sp.entries.threshold
  <2>1. PICK e \in {1, -1} : e = -g.dir  BY <1>1
  <2>2. e \in Test!Signals(sp, bar) <=> Test!Score(bar, e) >= sp.entries.threshold  BY SignalsOfPort
  <2> QED  BY <2>1, <2>2
<1>3. entry \in [dir : {1, -1, 0}, atr : Int]  BY <1>1
<1>4. j = IF late THEN [g EXCEPT !.pendingClose = "Time"]
          ELSE IF against THEN [g EXCEPT !.pendingClose = "Reversal", !.pendingEntry = entry]
          ELSE IF g.dir \in bar.breaks THEN [g EXCEPT !.pendingClose = "Structural"]
          ELSE g
  BY <1>2 DEF Test!LegacyDeferred, Test!NoDir
<1>5. late => ~ against  OBVIOUS
<1>6. Reason(g, sp, n, bar) = IF late THEN "Time" ELSE IF against THEN "Reversal"
                              ELSE IF g.dir \in bar.breaks THEN "Structural" ELSE Test!NoSignal
  BY DEF Reason
<1> HIDE DEF late, against, entry
<1> SUFFICES /\ j \in LegacyAccounts /\ SamePlace(g, j) /\ j.slTriggered = g.slTriggered
             /\ j.pendingClose = Reason(g, sp, n, bar)
             /\ j.pendingEntry = IF against THEN entry ELSE Test!NoEntry
  BY DEF against, entry
<1>7. CASE late
  <2>1. j = [g EXCEPT !.pendingClose = "Time"]  BY <1>4, <1>7
  <2>2. j \in LegacyAccounts /\ j.pendingClose = "Time"  BY <2>1 DEF LegacyAccounts
  <2>3. SamePlace(g, j) /\ j.slTriggered = g.slTriggered /\ j.pendingEntry = g.pendingEntry
    BY <2>1 DEF LegacyAccounts, SamePlace
  <2> QED  BY <1>5, <1>6, <1>7, <2>2, <2>3
<1>8. CASE ~ late /\ against
  <2>1. j = [g EXCEPT !.pendingClose = "Reversal", !.pendingEntry = entry]  BY <1>4, <1>8
  <2>2. j \in LegacyAccounts  BY <1>3, <2>1 DEF LegacyAccounts
  <2>4. j.pendingClose = "Reversal" /\ j.pendingEntry = entry  BY <2>1 DEF LegacyAccounts
  <2>3. SamePlace(g, j) /\ j.slTriggered = g.slTriggered
    BY <2>1 DEF LegacyAccounts, SamePlace
  <2> QED  BY <1>6, <1>8, <2>2, <2>3, <2>4
<1>9. CASE ~ late /\ ~ against /\ g.dir \in bar.breaks
  <2>1. j = [g EXCEPT !.pendingClose = "Structural"]  BY <1>4, <1>9
  <2>2. j \in LegacyAccounts /\ j.pendingClose = "Structural"  BY <2>1 DEF LegacyAccounts
  <2>3. SamePlace(g, j) /\ j.slTriggered = g.slTriggered /\ j.pendingEntry = g.pendingEntry
    BY <2>1 DEF LegacyAccounts, SamePlace
  <2> QED  BY <1>6, <1>9, <2>2, <2>3
<1>10. CASE ~ late /\ ~ against /\ g.dir \notin bar.breaks
  <2>1. j = g  BY <1>4, <1>10
  <2> QED  BY <1>6, <1>10, <2>1 DEF SamePlace
<1> QED  BY <1>7, <1>8, <1>9, <1>10

LEMMA DeferTwins ==
    ASSUME NEW a \in Accounts, NEW g, NEW sp \in Specs, Test!IsPort(sp), NEW n \in Nat, NEW bar \in Bars,
           Same(a, g, n), a.pendingClose = Test!NoSignal, g.pendingClose = Test!NoSignal,
           a.pendingEntry = 0, g.pendingEntry = Test!NoEntry, g.slTriggered = FALSE,
           g.dir # 0 => (a.pos.triggered <=> Past(g, sp, bar)),
           g.dir # 0 /\ n - g.opened >= sp.maxBars - 1 => -g.dir \notin Test!Signals(sp, bar),
           NEW b, b = Test!Trail(a, sp, n, bar),
           NEW h, h = Test!LegacyStop(Test!LegacyDeferred(g, sp, n, bar), sp, bar)
    PROVE  Exited(b, h, sp, n, bar)
<1>1. g \in LegacyAccounts /\ a.pos.dir = g.dir /\ a.pos.triggered \in BOOLEAN
  BY FieldsOfAccount DEF Same
<1>2. PICK j : j = Test!LegacyDeferred(g, sp, n, bar)  OBVIOUS
<1>3. PICK beyond \in BOOLEAN : beyond = Past(j, sp, bar)  BY PastIs
<1>4. h = Stopped(j, beyond)  BY <1>2, <1>3, LegacyStopIs
<1>5. CASE g.dir = 0
  <2>1. j = g  BY <1>2, <1>5 DEF Test!LegacyDeferred, Test!NoDir
  <2>2. /\ h \in LegacyAccounts /\ SamePlace(g, h) /\ h.pendingClose = g.pendingClose
        /\ h.pendingEntry = g.pendingEntry /\ h.slTriggered = (g.slTriggered \/ beyond)
    BY <1>1, <1>4, <2>1, StoppedParts
  <2>3. beyond = FALSE  BY <1>3, <1>5, <2>1, PastIs
  <2>4. b = a  BY <1>1, <1>5 DEF Test!Trail, Test!Evaluates, Test!IsOpen, Test!NoDir
  <2>5. Same(a, h, n)  BY <2>2, SameOnEqualParts
  <2>6. a.pos.triggered = FALSE  BY <1>5 DEF Same, Test!NoPosition
  <2>7. h.slTriggered = FALSE  BY <2>2, <2>3
  <2>8. h.pendingClose = Test!NoSignal /\ h.pendingEntry = Test!NoEntry  BY <2>2
  <2> QED  BY <2>4, <2>5, <2>6, <2>7, <2>8 DEF Exited
<1>6. CASE g.dir # 0
  <2>1. PICK signal : signal = Reason(g, sp, n, bar)  OBVIOUS
  <2>2. /\ j \in LegacyAccounts /\ SamePlace(g, j) /\ j.slTriggered = g.slTriggered
        /\ j.pendingClose = signal
        /\ j.pendingEntry = IF -g.dir \in Test!Signals(sp, bar)
                            THEN [dir |-> -g.dir, atr |-> bar.atr] ELSE Test!NoEntry
    BY <1>1, <1>2, <1>6, <2>1, DeferredParts
  <2>3. /\ h \in LegacyAccounts /\ SamePlace(j, h) /\ h.pendingClose = j.pendingClose
        /\ h.pendingEntry = j.pendingEntry /\ h.slTriggered = (j.slTriggered \/ beyond)
    BY <1>4, <2>2, StoppedParts
  <2>4. SamePlace(g, h) /\ j.dir = g.dir /\ h.dir = g.dir  BY <2>2, <2>3 DEF SamePlace
  <2>5. a.pos.opened = g.opened  BY <1>6 DEF Same, Alike
  <2>6. b = [a EXCEPT !.pendingClose = signal]
    <3>1. Test!Evaluates(a, sp, "trail")
      BY <1>1, <1>6 DEF Test!Evaluates, Test!IsOpen, Test!NoDir, Test!IsPort
    <3>2. signal = IF n - a.pos.opened >= sp.maxBars - 1 THEN "Time"
                   ELSE IF -a.pos.dir \in Test!Signals(sp, bar) THEN "Reversal"
                   ELSE IF a.pos.dir \in bar.breaks THEN "Structural"
                   ELSE Test!NoSignal
      BY <1>1, <2>1, <2>5 DEF Reason
    <3> QED  BY <3>1, <3>2, Zenon DEF Test!Trail
  <2>7. b.equity = a.equity /\ b.pos = a.pos /\ b.pendingEntry = a.pendingEntry /\ b.pendingClose = signal
    BY <2>6 DEF Accounts
  <2>8. Same(b, h, n)  BY <2>3, <2>4, <2>7, SameOnEqualParts
  <2>9. h.slTriggered = beyond /\ beyond = a.pos.triggered
    <3>1. LegacyPrice1000(j, sp) = LegacyPrice1000(g, sp)  BY <2>2 DEF SamePlace, LegacyPrice1000
    <3>2. Past(j, sp, bar) = Past(g, sp, bar)  BY <2>4, <3>1 DEF Past
    <3>3. beyond <=> a.pos.triggered  BY <1>3, <1>6, <3>2
    <3>4. h.slTriggered = beyond  BY <1>3, <2>2, <2>3
    <3> QED  BY <1>1, <1>3, <3>3, <3>4
  <2>10. signal = Test!NoSignal => h.pendingEntry = Test!NoEntry
    <3>1. ASSUME signal = Test!NoSignal PROVE -g.dir \notin Test!Signals(sp, bar)
      BY <2>1, <3>1, ReasonsDiffer DEF Reason
    <3> QED  BY <2>2, <2>3, <3>1
  <2> QED  BY <1>6, <2>2, <2>3, <2>4, <2>7, <2>8, <2>9, <2>10 DEF Exited
<1> QED  BY <1>5, <1>6

(* The close is beyond the stop of the runtime.                            *)
Beyond(q, sp, n, bar) == 1000 * q.dir * bar.close <= q.dir * Test!StopPrice1000(q, sp, n)

LEMMA BeyondIs ==
    ASSUME NEW q, NEW sp, NEW n, NEW bar
    PROVE  Beyond(q, sp, n, bar) \in BOOLEAN
  BY DEF Beyond

LEMMA SameThreshold ==
    ASSUME NEW g, NEW q, NEW sp, NEW n, NEW bar, g.dir = q.dir, g.dir # 0,
           LegacyPrice1000(g, sp) = Test!StopPrice1000(q, sp, n)
    PROVE  Past(g, sp, bar) = Beyond(q, sp, n, bar)
  BY DEF Past, Beyond

LEMMA HardStopWatches ==
    ASSUME NEW a, NEW sp, NEW n, NEW bar, Test!Evaluates(a, sp, "hardStop"), a.pos.atr # 0,
           ~ Test!Falls(a.pos, bar, Test!EmergencyPrice(a.pos, sp)), ~ a.pos.triggered
    PROVE  Test!HardStop(a, sp, n, bar) = [a EXCEPT !.pos.triggered = Beyond(a.pos, sp, n, bar)]
<1>1. Test!HardStop(a, sp, n, bar) =
          IF ~ Test!Evaluates(a, sp, "hardStop") \/ a.pos.atr = 0 THEN a
          ELSE IF Test!Falls(a.pos, bar, Test!EmergencyPrice(a.pos, sp))
               THEN Test!CloseAll(a, sp, Test!EmergencyPrice(a.pos, sp) - a.pos.dir * Slippage, n)
          ELSE IF a.pos.triggered THEN [a EXCEPT !.pos.triggered = FALSE, !.pendingClose = "SL"]
          ELSE [a EXCEPT !.pos.triggered = Beyond(a.pos, sp, n, bar)]
  BY DEF Test!HardStop, Beyond
<1> QED  BY <1>1, Zenon

LEMMA OpenExits ==
    ASSUME NEW a \in Accounts, NEW g, NEW sp \in Specs, Test!IsPort(sp), NEW n \in Nat, NEW bar \in Bars,
           Booked(a, sp.fitnessStart, n), Filled(a, g, n), g.dir # 0, ~ a.pos.triggered, a.pos.opened <= n,
           ~ Test!Falls(a.pos, bar, Test!EmergencyPrice(a.pos, sp)),
           n - g.opened >= sp.maxBars - 1 => -g.dir \notin Test!Signals(sp, bar),
           NEW x, x = Test!HardStop(a, sp, n, bar), NEW y, y = Test!Target(x, sp, n, bar),
           NEW z, z = Test!Trail(y, sp, n, bar)
    PROVE  Exited(z, Test!LegacyExits(Test!StopArmed(g), sp, n, bar), sp, n, bar)
<1>1. /\ g \in LegacyAccounts /\ Same(a, g, n - 1) /\ Alike(a, g, n - 1) /\ a.pos.dir = g.dir
      /\ a.pos.price = g.price /\ g.slTriggered = FALSE
      /\ a.pendingClose = Test!NoSignal /\ a.pendingEntry = 0 /\ g.pendingClose = Test!NoSignal
      /\ g.pendingEntry = Test!NoEntry
  <2>1. g \in LegacyAccounts /\ Same(a, g, n - 1) /\ Alike(a, g, n - 1)  BY DEF Filled, Same
  <2>2. g.slTriggered \in BOOLEAN /\ a.pos.triggered = g.slTriggered  BY <2>1, FieldsOfLegacy DEF Filled
  <2> QED  BY <2>1, <2>2 DEF Filled, Same, Alike, Mirror
<1>2. PICK beyond \in BOOLEAN : beyond = Beyond(a.pos, sp, n, bar)  BY BeyondIs
<1>3. x = [a EXCEPT !.pos.triggered = beyond]
  <2>1. Test!Evaluates(a, sp, "hardStop")  BY <1>1 DEF Test!Evaluates, Test!IsOpen, Test!NoDir, Test!IsPort
  <2>2. a.pos.atr # 0  BY <1>1 DEF Alike
  <2>3. x = [a EXCEPT !.pos.triggered = Beyond(a.pos, sp, n, bar)]
    BY <2>1, <2>2, HardStopWatches
  <2> QED  BY <1>2, <2>3, Zenon
<1>4. a.pos \in Positions  BY FieldsOfAccount
<1>5. /\ x.equity = a.equity /\ x.pendingEntry = a.pendingEntry /\ x.pendingClose = a.pendingClose
      /\ x.pos = [a.pos EXCEPT !.triggered = beyond]
  BY <1>3 DEF Accounts
<1>6. x \in Accounts /\ Booked(x, sp.fitnessStart, n)
  <2>1. [a.pos EXCEPT !.triggered = beyond] \in Positions  BY <1>4 DEF Positions
  <2> QED  BY <1>3, <2>1 DEF Accounts, Booked
<1>7. /\ x.pos.dir = a.pos.dir /\ x.pos.price = a.pos.price /\ x.pos.opened = a.pos.opened
      /\ x.pos.atr = a.pos.atr /\ x.pos.subs = a.pos.subs /\ x.pos.tp1 = a.pos.tp1
      /\ x.pos.triggered = beyond
  BY <1>4, <1>5 DEF Positions
<1>8. PICK h : h = Unarmed(g)  OBVIOUS
<1>9. /\ h \in LegacyAccounts /\ SamePlace(g, h) /\ h.slTriggered = FALSE
      /\ h.pendingClose = g.pendingClose /\ h.pendingEntry = g.pendingEntry
  BY <1>1, <1>8, UnarmedParts
<1>10. Test!StopArmed(g) = h  BY <1>1, <1>8 DEF Test!StopArmed, Unarmed
<1>11. h.dir = g.dir /\ h.opened = g.opened /\ h.price = g.price /\ h.atr = g.atr /\ h.tp1 = g.tp1
  BY <1>9 DEF SamePlace
<1>12. Same(x, h, n - 1)
  <2>1. Same(a, h, n - 1)  BY <1>1, <1>9, SameOnEqualParts
  <2>2. Alike(a, h, n - 1)  BY <1>11, <2>1 DEF Same
  <2>3. Mirror(x, h)  BY <1>5, <1>7, <2>2 DEF Alike, Mirror
  <2>4. Alike(x, h, n - 1)  BY <1>7, <2>2, <2>3 DEF Alike
  <2> QED  BY <1>5, <1>7, <1>9, <1>11, <2>1, <2>4 DEF Same
<1>13. PICK j : j = Test!LegacyIntraBar(h, sp, n, bar)  OBVIOUS
<1>14. Took(x, h, y, j, n)
  <2>1. ~ Test!Falls(x.pos, bar, Test!EmergencyPrice(x.pos, sp))  BY <1>7, SamePrices
  <2>2. x.pos.opened <= n /\ x.pendingClose = Test!NoSignal /\ h.dir # 0  BY <1>1, <1>5, <1>7, <1>11
  <2> QED  BY <1>6, <1>12, <1>13, <2>1, <2>2, TargetTwins
<1>15. ASSUME j.dir # 0
       PROVE  /\ y.pos.triggered <=> Past(j, sp, bar)
              /\ j.opened = g.opened /\ j.dir = g.dir
  <2>1. /\ j.dir = g.dir /\ j.price = g.price /\ j.opened = g.opened /\ j.atr = g.atr
        /\ y.pos.triggered = beyond /\ (j.tp1Hit <=> g.tp1 # -1)
    BY <1>7, <1>11, <1>14, <1>15 DEF Took
  <2>2. a.pos.tp1 # -1 /\ n > a.pos.tp1 <=> g.tp1 # -1
    <3>1. g.tp1 \in Int  BY <1>1, FieldsOfLegacy
    <3> QED  BY <1>1, <3>1 DEF Alike
  <2>3. Test!StopPrice1000(a.pos, sp, n) =
            IF g.tp1 # -1 THEN a.pos.price * (1000 + a.pos.dir * 3)
            ELSE 1000 * (a.pos.price - a.pos.dir * a.pos.atr * sp.atrSL)
    BY <2>2 DEF Test!StopPrice1000, Test!Unset
  <2>4. Test!StopPrice1000(a.pos, sp, n) = LegacyPrice1000(j, sp)
    <3>1. a.pos.atr = g.atr  BY <1>1 DEF Alike
    <3> QED  BY <1>1, <2>1, <2>3, <3>1 DEF LegacyPrice1000
  <2>5. Past(j, sp, bar) = Beyond(a.pos, sp, n, bar)
    <3>1. j.dir = a.pos.dir /\ j.dir # 0  BY <1>1, <1>15, <2>1
    <3> QED  BY <2>4, <3>1, SameThreshold
  <2> QED  BY <1>2, <2>1, <2>5, Zenon
<1>16. Exited(z, Test!LegacyStop(Test!LegacyDeferred(j, sp, n, bar), sp, bar), sp, n, bar)
  <2>1. /\ y \in Accounts /\ Same(y, j, n) /\ y.pendingClose = Test!NoSignal /\ y.pendingEntry = 0
        /\ j.pendingClose = Test!NoSignal /\ j.pendingEntry = Test!NoEntry /\ j.slTriggered = FALSE
    BY <1>1, <1>5, <1>9, <1>14 DEF Took
  <2>2. j.dir # 0 /\ n - j.opened >= sp.maxBars - 1 => -j.dir \notin Test!Signals(sp, bar)  BY <1>15
  <2> QED  BY <1>15, <2>1, <2>2, DeferTwins
<1>17. Test!LegacyExits(h, sp, n, bar) = Test!LegacyStop(Test!LegacyDeferred(j, sp, n, bar), sp, bar)
  BY <1>11, <1>13 DEF Test!LegacyExits, Test!NoDir
<1> QED  BY <1>10, <1>16, <1>17

(* All exits of a bar on which neither side does what the other does not.  *)
LEMMA ExitTwins ==
    ASSUME NEW a \in Accounts, NEW g, NEW sp \in Specs, Test!IsPort(sp), NEW n \in Nat, NEW bar \in Bars,
           Booked(a, sp.fitnessStart, n), Filled(a, g, n), a.pos.opened <= n,
           g.dir # 0 /\ a.pos.triggered =>
               /\ ~ Test!Falls(a.pos, bar, Test!EmergencyPrice(a.pos, sp))
               /\ \A s \in 1 .. 3 : ~(/\ ~ a.pos.subs[s].closed
                                      /\ Test!Reaches(a.pos, bar, a.pos.subs[s].target))
               /\ -g.dir \notin Test!Signals(sp, bar),
           g.dir # 0 /\ n - g.opened >= sp.maxBars - 1 => -g.dir \notin Test!Signals(sp, bar),
           NEW x, x = Test!HardStop(a, sp, n, bar), NEW y, y = Test!Target(x, sp, n, bar),
           NEW z, z = Test!Trail(y, sp, n, bar)
    PROVE  Exited(z, Test!LegacyExits(Test!StopArmed(g), sp, n, bar), sp, n, bar)
<1>1. CASE g.dir = 0
  <2>1. x = a /\ y = a /\ z = a  BY <1>1, FlatExits
  <2> QED  BY <1>1, <2>1, FlatExits
<1>2. CASE g.dir # 0 /\ a.pos.triggered
  <2>1. y = x /\ z = x  BY <1>2, ArmedExits
  <2> QED  BY <1>2, <2>1, ArmedExits
<1>3. CASE g.dir # 0 /\ ~ a.pos.triggered /\ Test!Falls(a.pos, bar, Test!EmergencyPrice(a.pos, sp))
  <2>1. y = x /\ z = x  BY <1>3, EmergencyExits
  <2> QED  BY <1>3, <2>1, EmergencyExits
<1>4. CASE g.dir # 0 /\ ~ a.pos.triggered /\ ~ Test!Falls(a.pos, bar, Test!EmergencyPrice(a.pos, sp))
  BY <1>4, OpenExits
<1> QED  BY <1>1, <1>2, <1>3, <1>4

-----------------------------------------------------------------------------
(* The bar.                                                                *)

LEMMA QueueParts ==
    ASSUME NEW a \in Accounts, NEW sp, NEW bar, NEW signals, signals = Test!Signals(sp, bar),
           NEW chosen, chosen = IF 1 \in signals THEN 1 ELSE -1,
           NEW q, q = Test!QueueEntry(a, sp, bar)
    PROVE  /\ q.equity = a.equity /\ q.pos = a.pos /\ q.pendingClose = a.pendingClose
           /\ q.pendingEntry =
                  IF /\ a.pendingEntry = 0 /\ a.equity > 0 /\ signals # {}
                     /\ a.pos.dir = 0 \/ (a.pendingClose # Test!NoSignal /\ chosen = -a.pos.dir)
                  THEN chosen ELSE a.pendingEntry
<1> DEFINE takes == /\ a.pendingEntry = 0 /\ a.equity > 0 /\ signals # {}
                    /\ a.pos.dir = 0 \/ (a.pendingClose # Test!NoSignal /\ chosen = -a.pos.dir)
           b == [a EXCEPT !.pendingEntry = chosen]
<1>1. q = IF takes THEN b ELSE a
  BY DEF Test!QueueEntry, Test!IsOpen, Test!NoDir, Test!Long, Test!Short
<1> HIDE DEF takes
<1>2. /\ b.equity = a.equity /\ b.pos = a.pos /\ b.pendingClose = a.pendingClose
      /\ b.pendingEntry = chosen
  BY DEF Accounts
<1> HIDE DEF b
<1>3. /\ q.equity = a.equity /\ q.pos = a.pos /\ q.pendingClose = a.pendingClose
      /\ q.pendingEntry = IF takes THEN chosen ELSE a.pendingEntry
  BY <1>1, <1>2
<1> QED  BY <1>3 DEF takes

LEMMA LegacyQueueParts ==
    ASSUME NEW g \in LegacyAccounts, NEW sp \in Specs, Test!IsPort(sp), NEW bar \in Bars,
           NEW signals, signals = Test!Signals(sp, bar),
           NEW chosen, chosen = IF 1 \in signals THEN 1 ELSE -1,
           NEW h, h = Test!LegacyQueueEntry(g, sp, bar)
    PROVE  /\ h \in LegacyAccounts /\ SamePlace(g, h)
           /\ h.pendingClose = g.pendingClose /\ h.slTriggered = g.slTriggered
           /\ h.pendingEntry =
                  IF \/ g.dir # 0 \/ g.pendingEntry # Test!NoEntry \/ g.pendingClose # Test!NoSignal
                     \/ g.slTriggered \/ signals = {}
                  THEN g.pendingEntry ELSE [dir |-> chosen, atr |-> bar.atr]
<1> DEFINE skips == \/ g.dir # 0 \/ g.pendingEntry # Test!NoEntry \/ g.pendingClose # Test!NoSignal
                    \/ g.slTriggered
           entry == [dir |-> chosen, atr |-> bar.atr]
           queued == [g EXCEPT !.pendingEntry = entry]
<1>1. (1 \in signals <=> Test!Score(bar, 1) >= sp.entries.threshold)
      /\ (-1 \in signals <=> Test!Score(bar, -1) >= sp.entries.threshold)
  BY SignalsOfPort
<1>2. signals # {} <=> 1 \in signals \/ -1 \in signals
  <2>1. signals \subseteq {1, -1}  BY DEF Test!Signals, Test!Long, Test!Short
  <2> QED  BY <2>1
<1>3. h = IF skips THEN g
          ELSE IF 1 \in signals THEN [g EXCEPT !.pendingEntry = [dir |-> 1, atr |-> bar.atr]]
          ELSE IF -1 \in signals THEN [g EXCEPT !.pendingEntry = [dir |-> -1, atr |-> bar.atr]]
          ELSE g
  BY <1>1 DEF Test!LegacyQueueEntry, Test!NoDir, Test!Long, Test!Short
<1>4. h = IF skips \/ signals = {} THEN g ELSE queued
  <2> HIDE DEF skips
  <2> QED  BY <1>2, <1>3
<1>5. entry \in [dir : {1, -1, 0}, atr : Int]
  <2>1. bar.atr \in Int  BY BarsAssumption
  <2>2. chosen \in {1, -1, 0}  OBVIOUS
  <2> QED  BY <2>1, <2>2
<1> HIDE DEF entry
<1>6. /\ queued \in LegacyAccounts /\ SamePlace(g, queued) /\ queued.pendingEntry = entry
      /\ queued.pendingClose = g.pendingClose /\ queued.slTriggered = g.slTriggered
  BY <1>5 DEF LegacyAccounts, SamePlace
<1> HIDE DEF queued, skips
<1>7. /\ h \in LegacyAccounts /\ SamePlace(g, h)
      /\ h.pendingClose = g.pendingClose /\ h.slTriggered = g.slTriggered
      /\ h.pendingEntry = IF skips \/ signals = {} THEN g.pendingEntry ELSE entry
  <2>1. SamePlace(g, g)  BY DEF SamePlace
  <2> QED  BY <1>4, <1>6, <2>1
<1> QED  BY <1>7 DEF skips, entry

LEMMA QueueTwins ==
    ASSUME NEW a \in Accounts, NEW g, NEW sp \in Specs, Test!IsPort(sp), NEW n \in Nat, NEW bar \in Bars,
           Exited(a, g, sp, n, bar), Test!Signals(sp, bar) # {1, -1},
           ~(a.pos.dir # 0 /\ a.equity <= 0 /\ -a.pos.dir \in Test!Signals(sp, bar)),
           NEW q, q = Test!QueueEntry(a, sp, bar), NEW h, h = Test!LegacyQueueEntry(g, sp, bar),
           NEW b, b.equity = q.equity, b.pos = q.pos, b.pendingEntry = q.pendingEntry,
           b.pendingClose = q.pendingClose, b.atr = bar.atr
    PROVE  Twin(b, h, n)
<1>1. PICK signals : signals = Test!Signals(sp, bar)  OBVIOUS
<1>2. PICK chosen : chosen = IF 1 \in signals THEN 1 ELSE -1  OBVIOUS
<1>3. /\ g \in LegacyAccounts /\ Same(a, g, n) /\ a.equity \in Nat /\ a.pos.dir = g.dir
      /\ g.dir \in {1, -1, 0} /\ a.pendingEntry = 0 /\ a.pendingClose = g.pendingClose
  BY FieldsOfAccount, FieldsOfLegacy DEF Exited, Same
<1>4. /\ b.equity = a.equity /\ b.pos = a.pos /\ b.pendingClose = a.pendingClose
      /\ b.pendingEntry =
             IF /\ a.equity > 0 /\ signals # {}
                /\ a.pos.dir = 0 \/ (a.pendingClose # Test!NoSignal /\ chosen = -a.pos.dir)
             THEN chosen ELSE 0
  BY <1>1, <1>2, <1>3, QueueParts
<1>5. /\ h \in LegacyAccounts /\ SamePlace(g, h)
      /\ h.pendingClose = g.pendingClose /\ h.slTriggered = g.slTriggered
      /\ h.pendingEntry =
             IF \/ g.dir # 0 \/ g.pendingEntry # Test!NoEntry \/ g.pendingClose # Test!NoSignal
                \/ g.slTriggered \/ signals = {}
             THEN g.pendingEntry ELSE [dir |-> chosen, atr |-> bar.atr]
  BY <1>1, <1>2, <1>3, LegacyQueueParts
<1>6. Same(b, h, n)  BY <1>3, <1>4, <1>5, SameOnEqualParts
<1>7. h.dir = g.dir  BY <1>5 DEF SamePlace
<1>8. b.atr >= 0  BY BarsAssumption
<1>9. signals \subseteq {1, -1} /\ signals # {1, -1}
  BY <1>1 DEF Test!Signals, Test!Long, Test!Short
<1>10. Test!NoEntry.dir = 0  BY DEF Test!NoEntry, Test!NoDir
<1>11. CASE g.dir = 0
  <2>1. /\ g.pendingClose = Test!NoSignal /\ g.pendingEntry = Test!NoEntry
        /\ g.slTriggered = a.pos.triggered
    BY <1>11 DEF Exited
  <2>2. a.pos.triggered = FALSE  BY <1>3, <1>11 DEF Same, Test!NoPosition
  <2>3. h.pendingEntry = IF signals = {} THEN Test!NoEntry ELSE [dir |-> chosen, atr |-> bar.atr]
    BY <1>5, <1>11, <2>1, <2>2
  <2>4. b.pendingEntry = IF a.equity > 0 /\ signals # {} THEN chosen ELSE 0  BY <1>3, <1>4, <1>11
  <2>5. SameQueue(b, h)
    <3>1. chosen # 0  BY <1>2
    <3>2. CASE signals = {}  BY <1>10, <2>3, <2>4, <3>2 DEF SameQueue
    <3>3. CASE signals # {}
      <4>1. h.pendingEntry.dir = chosen /\ h.pendingEntry.atr = bar.atr  BY <2>3, <3>3
      <4>2. (h.dir = 0 /\ b.equity = 0) \/ b.pendingEntry = h.pendingEntry.dir
        BY <1>3, <1>4, <1>7, <1>11, <2>4, <3>3, <4>1
      <4> QED  BY <3>1, <4>1, <4>2 DEF SameQueue
    <3> QED  BY <3>2, <3>3
  <2> QED  BY <1>3, <1>4, <1>5, <1>6, <1>7, <1>8, <1>11, <2>1, <2>5 DEF Twin
<1>12. CASE g.dir # 0 /\ g.pendingClose = Test!NoSignal
  <2>1. g.pendingEntry = Test!NoEntry /\ a.pos.triggered = g.slTriggered  BY <1>12 DEF Exited
  <2>2. h.pendingEntry = Test!NoEntry /\ b.pendingEntry = 0  BY <1>3, <1>4, <1>5, <1>12, <2>1
  <2>3. SameQueue(b, h)  BY <1>10, <2>2 DEF SameQueue
  <2> QED  BY <1>3, <1>4, <1>5, <1>6, <1>7, <1>8, <1>12, <2>1, <2>2, <2>3 DEF Twin
<1>13. CASE g.dir # 0 /\ g.pendingClose # Test!NoSignal
  <2>1. g.pendingEntry = IF -g.dir \in signals THEN [dir |-> -g.dir, atr |-> bar.atr] ELSE Test!NoEntry
    BY <1>1, <1>13 DEF Exited
  <2>2. h.pendingEntry = g.pendingEntry  BY <1>5, <1>13
  <2>3. SameQueue(b, h)
    <3>1. CASE -g.dir \in signals
      <4>1. a.equity > 0  BY <1>1, <1>3, <1>13, <3>1
      <4>2. chosen = -g.dir  BY <1>2, <1>3, <1>9, <1>13, <3>1
      <4>3. b.pendingEntry = -g.dir  BY <1>3, <1>4, <1>13, <3>1, <4>1, <4>2
      <4>4. h.pendingEntry.dir = -g.dir /\ h.pendingEntry.atr = bar.atr  BY <2>1, <2>2, <3>1
      <4>5. -g.dir # 0  BY <1>3, <1>13
      <4> QED  BY <4>3, <4>4, <4>5 DEF SameQueue
    <3>2. CASE -g.dir \notin signals
      <4>1. h.pendingEntry = Test!NoEntry  BY <2>1, <2>2, <3>2
      <4>2. signals # {} => chosen # -g.dir  BY <1>2, <1>3, <1>9, <1>13, <3>2
      <4>3. b.pendingEntry = 0  BY <1>3, <1>4, <1>13, <4>2
      <4> QED  BY <1>10, <4>1, <4>3 DEF SameQueue
    <3> QED  BY <3>1, <3>2
  <2> QED  BY <1>3, <1>4, <1>5, <1>6, <1>7, <1>8, <1>13, <2>3 DEF Twin
<1> QED  BY <1>11, <1>12, <1>13

LEMMA EnterRegionTwins ==
    ASSUME NEW a \in Accounts, NEW g, NEW sp, NEW n, NEW k, Twin(a, g, k),
           NEW b, b = Test!EnterRegion(a, sp, n)
    PROVE  Twin(b, g, k)
<1>1. /\ b.equity = a.equity /\ b.pos = a.pos /\ b.pendingEntry = a.pendingEntry
      /\ b.pendingClose = a.pendingClose /\ b.atr = a.atr
  BY DEF Test!EnterRegion, Accounts
<1>2. SamePlace(g, g) /\ g \in LegacyAccounts  BY DEF SamePlace, Twin, Same
<1>3. Same(b, g, k)  BY <1>1, <1>2, SameOnEqualParts DEF Twin
<1>4. SameQueue(b, g)  BY <1>1 DEF Twin, SameQueue
<1> QED  BY <1>1, <1>3, <1>4 DEF Twin

(* Neither side meets in bar n what the other does not treat likewise: of  *)
(* the runtime before and after the bar, and of the legacy strategy.       *)
Agrees(a, g, b, sp, n, bar) ==
    /\ a.pos.triggered =>
           /\ ~ Test!Falls(a.pos, bar, Test!EmergencyPrice(a.pos, sp))
           /\ \A s \in DOMAIN a.pos.subs : ~(/\ ~ a.pos.subs[s].closed
                                             /\ Test!Reaches(a.pos, bar, a.pos.subs[s].target))
    /\ a.pos.dir # 0 /\ (a.pos.triggered \/ n - a.pos.opened >= sp.maxBars - 1) =>
           -a.pos.dir \notin Test!Signals(sp, bar)
    /\ ~(b.pos.dir # 0 /\ b.equity <= 0 /\ -b.pos.dir \in Test!Signals(sp, bar))
    /\ ~(g.slTriggered /\ g.pendingEntry # Test!NoEntry)
    /\ Test!Signals(sp, bar) # {1, -1}
    /\ g.pendingEntry # Test!NoEntry =>
           ~ FlatCapped(sp, Test!LegacyExecuteClose(g, bar).equity, g.pendingEntry.atr,
                        bar.open + g.pendingEntry.dir * Slippage)

LEMMA BarTwins ==
    ASSUME NEW a \in Accounts, NEW g, NEW sp \in Specs, Test!IsPort(sp), NEW n \in Nat, n >= 1,
           NEW bar \in Bars,
           Booked(a, sp.fitnessStart, n) \/ (a.base = -1 /\ a.profit = 0 /\ a.loss = 0),
           a.pos.triggered => Armed(a, sp), a.pos.opened <= n - 1,
           Twin(a, g, n - 1), NEW b, b = Test!RunBar(a, sp, n, bar), Agrees(a, g, b, sp, n, bar)
    PROVE  Twin(b, Test!LegacyBar(g, sp, n, bar), n)
<1>1. Test!IsSizing(sp.sizing) /\ sp.fitnessStart \in Int /\ n \in Int  BY SpecsAssumption
<1>2. bar.open \in Int /\ bar.close \in Int /\ bar.atr \in Int  BY BarsAssumption
<1>3. PICK u : u = Test!EnterRegion(a, sp, n)  OBVIOUS
<1>4. PICK v : v = Test!ExecuteClose(u, sp, n, bar)  OBVIOUS
<1>5. PICK w : w = Test!ExecuteEntry(v, sp, n, bar)  OBVIOUS
<1>6. PICK x : x = Test!HardStop(w, sp, n, bar)  OBVIOUS
<1>7. PICK y : y = Test!Target(x, sp, n, bar)  OBVIOUS
<1>8. PICK z : z = Test!Trail(y, sp, n, bar)  OBVIOUS
<1>9. PICK q : q = Test!QueueEntry(z, sp, bar)  OBVIOUS
<1>10. PICK m : m = Test!Marked(q, bar)  OBVIOUS
<1>11. PICK d : d = Test!Drawn(q, m)  OBVIOUS
<1>12. b = [d EXCEPT !.atr = bar.atr]
  BY <1>3, <1>4, <1>5, <1>6, <1>7, <1>8, <1>9, <1>10, <1>11, Zenon DEF Test!RunBar
<1>13. PICK h : h = Test!LegacyExecuteClose(g, bar)  OBVIOUS
<1>14. PICK j : j = Test!LegacyExecuteEntry(h, sp, n, bar)  OBVIOUS
<1>15. PICK k : k = Test!LegacyExits(Test!StopArmed(j), sp, n, bar)  OBVIOUS
<1>16. PICK l : l = Test!LegacyQueueEntry(k, sp, bar)  OBVIOUS
<1>17. Test!LegacyBar(g, sp, n, bar) = l
  BY <1>13, <1>14, <1>15, <1>16, Zenon DEF Test!LegacyBar
<1>18. /\ u \in Accounts /\ Booked(u, sp.fitnessStart, n) /\ u.pos = a.pos /\ Twin(u, g, n - 1)
  <2>1. u \in Accounts /\ Booked(u, sp.fitnessStart, n) /\ u.pos = a.pos
    BY <1>1, <1>3, EnterRegionType
  <2> QED  BY <1>3, <2>1, EnterRegionTwins
<1>19. /\ v \in Accounts /\ Booked(v, sp.fitnessStart, n) /\ v.pendingClose = Test!NoSignal
       /\ v.pos = a.pos \/ v.pos = Test!NoPosition
       /\ Emptied(v, h, n) /\ h.slTriggered = g.slTriggered /\ h.pendingEntry = g.pendingEntry
  <2>1. /\ v \in Accounts /\ Booked(v, sp.fitnessStart, n) /\ v.pendingClose = Test!NoSignal
        /\ v.pos = a.pos \/ v.pos = Test!NoPosition
    BY <1>1, <1>2, <1>4, <1>18, ExecuteCloseType
  <2>2. /\ Emptied(v, h, n) /\ h.slTriggered = g.slTriggered /\ h.pendingEntry = g.pendingEntry
    BY <1>1, <1>2, <1>4, <1>13, <1>18, CloseTwins
  <2> QED  BY <2>1, <2>2
<1>20. /\ w \in Accounts /\ Booked(w, sp.fitnessStart, n)
       /\ w.pos # v.pos => w.pos.opened = n /\ w.pos.triggered = FALSE
  <2>1. Fills(v, w, sp.fitnessStart, n)  BY <1>1, <1>2, <1>5, <1>19, ExecuteEntryType
  <2> QED  BY <2>1 DEF Fills
<1>21. Filled(w, j, n)
  <2>1. ~(h.slTriggered /\ h.pendingEntry # Test!NoEntry)  BY <1>19 DEF Agrees
  <2>2. h.pendingEntry # Test!NoEntry =>
            ~ FlatCapped(sp, h.equity, h.pendingEntry.atr, bar.open + h.pendingEntry.dir * Slippage)
    BY <1>13, <1>19 DEF Agrees
  <2> QED  BY <1>2, <1>5, <1>14, <1>19, <2>1, <2>2, EntryTwins
<1>22. a.pos.opened \in Int  BY FieldsOfAccount
<1>23. w.pos = a.pos \/ (w.pos.opened = n /\ w.pos.triggered = FALSE) \/ w.pos = Test!NoPosition
  BY <1>19, <1>20
<1>24. /\ Test!NoPosition.triggered = FALSE /\ Test!NoPosition.opened = 0 /\ Test!NoPosition.dir = 0
  BY DEF Test!NoPosition, Test!NoDir
<1>25. Sound(w, sp, n)
  <2>1. w.pos.opened <= n  BY <1>1, <1>22, <1>23, <1>24
  <2>2. w.pos.triggered => w.pos = a.pos  BY <1>23, <1>24
  <2> QED  BY <1>20, <2>1, <2>2 DEF Sound, Armed
<1>26. j.dir # 0 => w.pos.dir = j.dir /\ w.pos.opened = j.opened /\ DOMAIN w.pos.subs = 1 .. 3
  <2>1. DOMAIN w.pos.subs = 1 .. Len(w.pos.subs)  BY <1>20, FieldsOfAccount
  <2> QED  BY <1>21, <2>1 DEF Filled, Same, Alike, Mirror
<1>27. Exited(z, k, sp, n, bar)
  <2>1. ASSUME j.dir # 0, w.pos.triggered
        PROVE  /\ ~ Test!Falls(w.pos, bar, Test!EmergencyPrice(w.pos, sp))
               /\ \A s \in 1 .. 3 : ~(/\ ~ w.pos.subs[s].closed
                                      /\ Test!Reaches(w.pos, bar, w.pos.subs[s].target))
               /\ -j.dir \notin Test!Signals(sp, bar)
    <3>1. w.pos = a.pos  BY <1>23, <1>24, <2>1
    <3>2. /\ ~ Test!Falls(w.pos, bar, Test!EmergencyPrice(w.pos, sp))
          /\ \A s \in DOMAIN w.pos.subs : ~(/\ ~ w.pos.subs[s].closed
                                            /\ Test!Reaches(w.pos, bar, w.pos.subs[s].target))
          /\ w.pos.dir # 0 => -w.pos.dir \notin Test!Signals(sp, bar)
      BY <2>1, <3>1 DEF Agrees
    <3> QED  BY <1>26, <2>1, <3>2
  <2>2. ASSUME j.dir # 0, n - j.opened >= sp.maxBars - 1
        PROVE  -j.dir \notin Test!Signals(sp, bar)
    <3>1. sp.maxBars \in Int /\ sp.maxBars >= 2  BY SpecsAssumption, PortsAssumption
    <3>2. w.pos.opened # n  BY <1>1, <1>26, <2>2, <3>1
    <3>3. w.pos.dir # 0 /\ w.pos.dir = j.dir /\ w.pos.opened = j.opened  BY <1>26, <2>2
    <3>4. w.pos = a.pos  BY <1>23, <1>24, <3>2, <3>3
    <3> QED  BY <2>2, <3>3, <3>4 DEF Agrees
  <2>3. w.pos.opened <= n  BY <1>25 DEF Sound
  <2> QED  BY <1>6, <1>7, <1>8, <1>15, <1>20, <1>21, <2>1, <2>2, <2>3, ExitTwins
<1>28. z \in Accounts /\ q \in Accounts
  <2>1. Sound(x, sp, n)  BY <1>6, <1>25, HardStopType
  <2>2. Sound(y, sp, n)  BY <1>7, <2>1, TargetType
  <2>3. Sound(z, sp, n)  BY <1>8, <2>2, TrailType
  <2>4. Sound(q, sp, n)  BY <1>9, <2>3, QueueEntryType
  <2> QED  BY <2>3, <2>4 DEF Sound
<1>29. /\ d \in Accounts /\ d.equity = q.equity /\ d.pos = q.pos /\ d.pendingEntry = q.pendingEntry
       /\ d.pendingClose = q.pendingClose
  <2>1. m \in Int  BY <1>2, <1>10, <1>28, MarkedIsInt
  <2>2. d \in Accounts /\ d = [q EXCEPT !.peak = d.peak, !.maxDD = d.maxDD]
    BY <1>11, <1>28, <2>1, DrawnType
  <2> DEFINE e == [q EXCEPT !.peak = d.peak, !.maxDD = d.maxDD]
  <2>3. /\ e.equity = q.equity /\ e.pos = q.pos /\ e.pendingEntry = q.pendingEntry
        /\ e.pendingClose = q.pendingClose
    BY <1>28 DEF Accounts
  <2>4. d = e  BY <2>2
  <2> HIDE DEF e
  <2> QED  BY <2>2, <2>3, <2>4
<1>30. /\ b.equity = q.equity /\ b.pos = q.pos /\ b.pendingEntry = q.pendingEntry
       /\ b.pendingClose = q.pendingClose /\ b.atr = bar.atr
  BY <1>12, <1>29 DEF Accounts
<1>31. q.equity = z.equity /\ q.pos = z.pos
  <2>1. PICK signals : signals = Test!Signals(sp, bar)  OBVIOUS
  <2>2. PICK chosen : chosen = IF 1 \in signals THEN 1 ELSE -1  OBVIOUS
  <2> QED  BY <1>9, <1>28, <2>1, <2>2, QueueParts
<1>32. ~(z.pos.dir # 0 /\ z.equity <= 0 /\ -z.pos.dir \in Test!Signals(sp, bar))
  BY <1>30, <1>31 DEF Agrees
<1>33. Test!Signals(sp, bar) # {1, -1}  BY DEF Agrees
<1>34. Twin(b, l, n)  BY <1>9, <1>16, <1>27, <1>28, <1>30, <1>32, <1>33, QueueTwins
<1> QED  BY <1>17, <1>34

-----------------------------------------------------------------------------
(* The backtest of a port.                                                 *)

LEMMA AgreesUnlessApart ==
    ASSUME NEW bar, ~ Test!Differ(bar), i \in Nat, rt.pos.opened \in Int
    PROVE  Agrees(rt, lg, rt', spec, i + 1, bar)
<1>1. ~ Test!FillsWhileArmed(bar) /\ ~ Test!ReversesOtherClose(bar) /\ ~ Test!ReversesBroke(bar)
      /\ ~ Test!StopOutlivesPosition /\ ~ Test!BothFireAgainstLong(bar) /\ ~ Test!FlatSizeIsCapped(bar)
  BY DEF Test!Differ
<1>2. rt.pos.triggered =>
          /\ ~ Test!Falls(rt.pos, bar, Test!EmergencyPrice(rt.pos, spec))
          /\ \A s \in DOMAIN rt.pos.subs : ~(/\ ~ rt.pos.subs[s].closed
                                             /\ Test!Reaches(rt.pos, bar, rt.pos.subs[s].target))
  BY <1>1, Zenon DEF Test!FillsWhileArmed
<1>3. rt.pos.dir # 0 /\ (rt.pos.triggered \/ (i + 1) - rt.pos.opened >= spec.maxBars - 1) =>
          -rt.pos.dir \notin Test!Signals(spec, bar)
  <2>1. rt.pos.dir # 0 /\ (rt.pos.triggered \/ i + 1 - rt.pos.opened >= spec.maxBars - 1) =>
            -rt.pos.dir \notin Test!Signals(spec, bar)
    BY <1>1, Zenon DEF Test!ReversesOtherClose, Test!IsOpen, Test!NoDir
  <2>2. i + 1 - rt.pos.opened = (i + 1) - rt.pos.opened  OBVIOUS
  <2> QED  BY <2>1, <2>2, Zenon
<1>4. ~(rt'.pos.dir # 0 /\ rt'.equity <= 0 /\ -rt'.pos.dir \in Test!Signals(spec, bar))
  BY <1>1, Zenon DEF Test!ReversesBroke, Test!IsOpen, Test!NoDir
<1>5. ~(lg.slTriggered /\ lg.pendingEntry # Test!NoEntry)
  BY <1>1 DEF Test!StopOutlivesPosition
<1>6. Test!Signals(spec, bar) # {1, -1}
  BY <1>1 DEF Test!BothFireAgainstLong, Test!Long, Test!Short
<1>7. lg.pendingEntry # Test!NoEntry =>
          ~ FlatCapped(spec, Test!LegacyExecuteClose(lg, bar).equity, lg.pendingEntry.atr,
                       bar.open + lg.pendingEntry.dir * Slippage)
  <2> DEFINE equity == Test!LegacyExecuteClose(lg, bar).equity
             fill == bar.open + lg.pendingEntry.dir * Slippage
             risk == lg.pendingEntry.atr * spec.atrSL
             Exceeds(base) == (InitialCapital * spec.sizing.riskPct) \div (10000 * risk)
                                  > Test!Buys(base * Leverage, fill)
  <2>1. Test!FlatSizeIsCapped(bar) <=>
            /\ spec.sizing.useInitialCapital /\ lg.pendingEntry # Test!NoEntry
            /\ fill > 0 /\ risk > 0
            /\ \E base \in {InitialCapital, equity} : Exceeds(base)
    BY DEF Test!FlatSizeIsCapped
  <2>2. FlatCapped(spec, equity, lg.pendingEntry.atr, fill) <=>
            /\ spec.sizing.useInitialCapital /\ fill > 0 /\ risk > 0
            /\ \E base \in {InitialCapital, equity} : Exceeds(base)
    BY DEF FlatCapped
  <2> HIDE DEF equity, fill, risk, Exceeds
  <2>3. lg.pendingEntry # Test!NoEntry => ~ FlatCapped(spec, equity, lg.pendingEntry.atr, fill)
    BY <1>1, <2>1, <2>2, Zenon
  <2> QED  BY <2>3, Zenon DEF equity, fill
<1> QED  BY <1>2, <1>3, <1>4, <1>5, <1>6, <1>7 DEF Agrees

(* The same money and the same position.                                   *)
Balanced(a, g) ==
    /\ a.equity = g.equity /\ a.pos.dir = g.dir
    /\ Test!OpenUnits(a) = Test!OpenUnits([pos |-> g])

OpenOf(subs) == [s \in DOMAIN subs |-> IF subs[s].closed THEN 0 ELSE subs[s].units]

LEMMA SameIsBalanced ==
    ASSUME NEW a \in Accounts, NEW g, NEW n, Same(a, g, n)
    PROVE  Balanced(a, g)
<1>1. g \in LegacyAccounts  BY DEF Same
<1>2. OpenOf(a.pos.subs) = OpenOf(g.subs)
  <2>1. CASE g.dir = 0
    <3>1. a.pos.subs = << >> /\ g.subs = << >>  BY <2>1 DEF Same, Test!NoPosition
    <3> QED  BY <3>1
  <2>2. CASE g.dir # 0
    <3>1. Mirror(a, g)  BY <2>2 DEF Same, Alike
    <3>2. DOMAIN a.pos.subs = 1 .. 3 /\ DOMAIN g.subs = 1 .. 3
      <4>1. DOMAIN a.pos.subs = 1 .. Len(a.pos.subs) /\ DOMAIN g.subs = 1 .. Len(g.subs)
        BY <1>1, FieldsOfAccount, FieldsOfLegacy
      <4> QED  BY <3>1, <4>1 DEF Mirror
    <3> QED  BY <3>1, <3>2 DEF Mirror, OpenOf
  <2> QED  BY <2>1, <2>2
<1>3. Test!OpenUnits(a) = Test!Total(OpenOf(a.pos.subs))  BY DEF Test!OpenUnits, OpenOf
<1>4. Test!OpenUnits([pos |-> g]) = Test!Total(OpenOf(g.subs))
  <2>1. [pos |-> g].pos = g  OBVIOUS
  <2> QED  BY <2>1, Zenon DEF Test!OpenUnits, OpenOf
<1> QED  BY <1>2, <1>3, <1>4 DEF Balanced, Same

TwinInv ==
    part = "test" /\ Test!IsPort(spec) /\ ~ apart =>
        IF over THEN i = spec.length /\ Balanced(rt, lg) ELSE Twin(rt, lg, i)

LEMMA TwinInit == Init => TwinInv
<1> SUFFICES ASSUME Init, part = "test" PROVE TwinInv  BY DEF TwinInv
<1>1. Test!Init  BY DEF Init
<1>2. spec \in Specs /\ i = 0 /\ rt = Test!NewAccount(spec) /\ lg = Test!NewLegacy /\ ~ over
  BY <1>1 DEF Test!Init
<1>3. PICK a : a = rt  OBVIOUS
<1>4. PICK g : g = lg  OBVIOUS
<1>5. /\ a.equity = InitialCapital /\ a.pos = Test!NoPosition /\ a.pendingEntry = 0
      /\ a.pendingClose = Test!NoSignal /\ a.atr = 0
  BY <1>2, <1>3 DEF Test!NewAccount, Test!NoDir
<1>6. g = [equity |-> InitialCapital, dir |-> 0, subs |-> << >>, price |-> 0, opened |-> 0,
           atr |-> 0, tp1Hit |-> FALSE, tp1 |-> -1, pendingEntry |-> Test!NoEntry,
           pendingClose |-> Test!NoSignal, slTriggered |-> FALSE,
           trades |-> 0, profit |-> 0, loss |-> 0]
  BY <1>2, <1>4 DEF Test!NewLegacy, Test!NoDir, Test!Unset
<1>7. InitialCapital \in Nat  BY CostsAssumption
<1>8. Test!NoEntry \in [dir : {1, -1, 0}, atr : Int] /\ Test!NoEntry.dir = 0
  BY DEF Test!NoEntry, Test!NoDir
<1>9. << >> \in Seq(LegacyUnits)  OBVIOUS
<1>10. g \in LegacyAccounts  BY <1>6, <1>7, <1>8, <1>9 DEF LegacyAccounts
<1>11. a.pos.dir = 0 /\ a.pos.triggered = FALSE  BY <1>5 DEF Test!NoPosition, Test!NoDir
<1>12. /\ g.equity = InitialCapital /\ g.dir = 0 /\ g.subs = << >> /\ g.pendingEntry = Test!NoEntry
       /\ g.pendingClose = Test!NoSignal /\ g.slTriggered = FALSE
  BY <1>6
<1>13. Same(a, g, 0)  BY <1>5, <1>10, <1>11, <1>12 DEF Same
<1>14. SameQueue(a, g)  BY <1>5, <1>8, <1>12 DEF SameQueue
<1>15. Twin(a, g, 0)
  <2>1. a.atr >= 0  BY <1>5
  <2>2. a.pendingClose = g.pendingClose /\ a.pos.triggered = g.slTriggered  BY <1>5, <1>11, <1>12
  <2>3. g.dir = 0 /\ g.pendingClose = Test!NoSignal  BY <1>12
  <2> QED  BY <1>13, <1>14, <2>1, <2>2, <2>3 DEF Twin
<1> QED  BY <1>2, <1>3, <1>4, <1>15 DEF TwinInv

LEMMA TwinBar ==
    ASSUME TestInv, TwinInv, part = "test", NEW bar \in Bars, Test!Step(bar), UNCHANGED part
    PROVE  TwinInv'
<1> SUFFICES ASSUME Test!IsPort(spec)', ~ apart' PROVE ~ over' /\ Twin(rt, lg, i)'
  BY DEF TwinInv
<1>1. PICK sp \in Specs : sp = spec  BY DEF TestInv
<1>2. PICK a \in Accounts : a = rt  BY DEF TestInv
<1>3. PICK k \in Nat : k = i  BY DEF TestInv
<1>4. PICK n \in Nat : n = k + 1  OBVIOUS
<1>5. PICK g : g = lg  OBVIOUS
<1>6. /\ i' = n /\ rt' = Test!RunBar(a, sp, n, bar) /\ spec' = sp /\ over' = over /\ k < sp.length
      /\ n = i + 1
  BY <1>1, <1>2, <1>3, <1>4 DEF Test!Step
<1>7. Test!IsPort(sp) /\ Test!IsPort(spec)
  <2>1. Test!IsPort(spec)'  OBVIOUS
  <2>2. Test!IsPort(spec)' <=> Test!IsPort(spec)
    <3>1. spec' = spec  BY <1>1, <1>6
    <3> QED  BY <3>1
  <2> QED  BY <1>1, <2>1, <2>2
<1>8. lg' = Test!LegacyBar(g, sp, n, bar) /\ apart' = (apart \/ Test!Differ(bar))
  BY <1>1, <1>5, <1>6, <1>7 DEF Test!Step
<1>9. ~ apart /\ ~ Test!Differ(bar)  BY <1>8
<1>10. ~ over /\ Twin(a, g, k)
  <2>1. IF over THEN i = spec.length /\ Balanced(rt, lg) ELSE Twin(rt, lg, i)
    BY <1>7, <1>9 DEF TwinInv
  <2>2. ~ over
    <3>1. sp.length \in Nat  BY SpecsAssumption
    <3>2. i # spec.length  BY <1>1, <1>3, <1>6, <3>1
    <3> QED  BY <2>1, <3>2
  <2> QED  BY <1>2, <1>3, <1>5, <2>1, <2>2
<1>11. PICK b : b = rt'  OBVIOUS
<1>12. Agrees(a, g, b, sp, n, bar)
  <2>1. Agrees(rt, lg, rt', spec, i + 1, bar)  BY <1>2, <1>3, <1>9, FieldsOfAccount, AgreesUnlessApart
  <2> QED  BY <1>1, <1>2, <1>5, <1>6, <1>11, <2>1
<1>13. /\ Booked(a, sp.fitnessStart, k) \/ (k = 0 /\ Booked(a, sp.fitnessStart, 1))
       /\ a.pos.triggered => Armed(a, sp)
       /\ a.pos.opened <= k
  BY <1>1, <1>2, <1>3 DEF TestInv
<1>14. Booked(a, sp.fitnessStart, n) \/ (a.base = -1 /\ a.profit = 0 /\ a.loss = 0)
  <2>1. sp.fitnessStart \in Int  BY SpecsAssumption
  <2> QED  BY <1>4, <1>13, <2>1 DEF Booked
<1>15. n >= 1 /\ n - 1 = k  BY <1>4
<1>16. Twin(b, Test!LegacyBar(g, sp, n, bar), n)
  <2>1. b = Test!RunBar(a, sp, n, bar)  BY <1>6, <1>11
  <2>2. a.pos.opened <= n - 1 /\ Twin(a, g, n - 1)  BY <1>10, <1>13, <1>15
  <2> QED  BY <1>7, <1>12, <1>13, <1>14, <1>15, <2>1, <2>2, BarTwins
<1>17. PICK h : h = Test!LegacyBar(g, sp, n, bar)  OBVIOUS
<1>18. Twin(b, h, n)  BY <1>16, <1>17
<1>19. rt' = b /\ lg' = h /\ i' = n  BY <1>6, <1>8, <1>11, <1>17
<1> QED  BY <1>6, <1>10, <1>18, <1>19

LEMMA FinishTwins ==
    ASSUME NEW a \in Accounts, NEW g, NEW sp \in Specs, NEW n \in Nat, NEW bar, bar.close \in Int,
           Booked(a, sp.fitnessStart, n), Twin(a, g, n)
    PROVE  Balanced(Test!ForceClose(a, sp, n, bar), Test!LegacyEnd(g, bar))
<1>1. g \in LegacyAccounts /\ Same(a, g, n) /\ a.pos.dir = g.dir  BY DEF Twin, Same
<1>2. PICK e \in Int : e = bar.close  OBVIOUS
<1>3. CASE g.dir = 0
  <2>1. Test!ForceClose(a, sp, n, bar) = a /\ Test!LegacyEnd(g, bar) = g
    BY <1>1, <1>3 DEF Test!ForceClose, Test!LegacyEnd, Test!IsOpen, Test!NoDir
  <2> QED  BY <1>1, <2>1, SameIsBalanced
<1>4. CASE g.dir # 0
  <2>1. PICK b : b = Test!CloseAll(a, sp, e, n)  OBVIOUS
  <2>2. PICK h : h = Test!LegacyCloseAll(g, e)  OBVIOUS
  <2>3. Test!ForceClose(a, sp, n, bar) = b /\ Test!LegacyEnd(g, bar) = h
    BY <1>1, <1>2, <1>4, <2>1, <2>2 DEF Test!ForceClose, Test!LegacyEnd, Test!IsOpen, Test!NoDir
  <2>4. BothLeft(a, g, b, h, sp, n)
    <3>1. Mirror(a, g)  BY <1>4 DEF Twin, Same, Alike
    <3>2. Test!IsSizing(sp.sizing) /\ sp.fitnessStart \in Int /\ n \in Int  BY SpecsAssumption
    <3> QED  BY <1>1, <2>1, <2>2, <3>1, <3>2, CloseAllMirrors
  <2>5. b.pos.dir = 0  BY <2>4 DEF BothLeft, Test!NoPosition, Test!NoDir
  <2>6. b \in Accounts /\ Same(b, h, n)  BY <2>4, <2>5 DEF BothLeft, Same
  <2> QED  BY <2>3, <2>6, SameIsBalanced
<1> QED  BY <1>3, <1>4

LEMMA TwinFinish ==
    ASSUME TestInv, TwinInv, part = "test", Test!Finish, UNCHANGED part
    PROVE  TwinInv'
<1> SUFFICES ASSUME Test!IsPort(spec)', ~ apart'
             PROVE  over' /\ i' = spec'.length /\ Balanced(rt, lg)'
  BY DEF TwinInv
<1>1. PICK sp \in Specs : sp = spec  BY DEF TestInv
<1>2. PICK a \in Accounts : a = rt  BY DEF TestInv
<1>3. PICK n \in Nat : n = i  BY DEF TestInv
<1>4. PICK bar : bar = last  OBVIOUS
<1>5. PICK g : g = lg  OBVIOUS
<1>6. /\ i' = n /\ rt' = Test!ForceClose(a, sp, n, bar) /\ lg' = Test!LegacyEnd(g, bar)
      /\ spec' = spec /\ apart' = apart /\ n = sp.length /\ ~ over /\ over'
  BY <1>1, <1>2, <1>3, <1>4, <1>5 DEF Test!Finish
<1>7. n # 0  BY <1>6, SpecsAssumption
<1>8. Booked(a, sp.fitnessStart, n) /\ bar.close \in Int
  BY <1>1, <1>2, <1>3, <1>4, <1>7 DEF TestInv
<1>9. Twin(a, g, n)
  <2>1. Test!IsPort(spec) /\ ~ apart
    <3>1. Test!IsPort(spec)'  OBVIOUS
    <3>2. Test!IsPort(spec)' <=> Test!IsPort(spec)  BY <1>6
    <3> QED  BY <1>6, <3>1, <3>2
  <2>2. Twin(rt, lg, i)  BY <1>6, <2>1 DEF TwinInv
  <2> QED  BY <1>2, <1>3, <1>5, <2>2
<1>10. PICK b : b = Test!ForceClose(a, sp, n, bar)  OBVIOUS
<1>11. PICK h : h = Test!LegacyEnd(g, bar)  OBVIOUS
<1>12. Balanced(b, h)  BY <1>8, <1>9, <1>10, <1>11, FinishTwins
<1>13. Balanced(rt, lg)'
  <2>1. rt' = b /\ lg' = h  BY <1>6, <1>10, <1>11
  <2> QED  BY <1>12, <2>1
<1> QED  BY <1>1, <1>6, <1>13

LEMMA TwinStep == TestInv /\ TwinInv /\ [Next]_vars => TwinInv'
<1> SUFFICES ASSUME TestInv, TwinInv, [Next]_vars, part' = "test" PROVE TwinInv'  BY DEF TwinInv
<1>1. CASE part = "test" /\ (\E bar \in Bars : Test!Step(bar)) /\ UNCHANGED <<part, charting>>
  BY <1>1, TwinBar
<1>2. CASE part = "test" /\ Test!Finish /\ UNCHANGED <<part, charting>>
  BY <1>2, TwinFinish
<1>3. CASE part = "chart" /\ (\E bar \in ChartBars : OnChart!Bar(bar)) /\ UNCHANGED <<part, testing>>
  BY <1>3
<1>4. CASE UNCHANGED vars
  <2>1. /\ part' = part /\ spec' = spec /\ apart' = apart /\ over' = over /\ i' = i
        /\ rt' = rt /\ lg' = lg
    BY <1>4 DEF vars, testing
  <2> QED  BY <2>1 DEF TwinInv
<1> QED  BY <1>1, <1>2, <1>3, <1>4 DEF Next

(* On every port of the legacy strategy, and on whatever bars and costs,   *)
(* the runtime (runtime.js with its exit blocks) and the hardcoded         *)
(* strategy (strategy.js) hold the same position and the same equity after *)
(* every bar and after the forced close, until a bar on which the code of  *)
(* the two is known to differ: the list of Differ is complete.             *)
THEOREM SameAsLegacyHolds == Spec => []SameAsLegacy
<1>1. TestInv /\ TwinInv => SameAsLegacy
  <2> SUFFICES ASSUME TestInv, TwinInv, part = "test", Test!IsPort(spec), ~ apart
               PROVE  /\ rt.equity = lg.equity
                      /\ rt.pos.dir = lg.dir
                      /\ Test!OpenUnits(rt) = Test!OpenUnits([pos |-> lg])
    BY DEF SameAsLegacy, Test!SameAsLegacy
  <2>1. Balanced(rt, lg) \/ Twin(rt, lg, i)  BY DEF TwinInv
  <2>2. rt \in Accounts  BY DEF TestInv
  <2>3. Twin(rt, lg, i) => Same(rt, lg, i)  BY DEF Twin
  <2>4. Balanced(rt, lg)  BY <2>1, <2>2, <2>3, SameIsBalanced
  <2> QED  BY <2>4 DEF Balanced
<1> QED  BY <1>1, TestInit, TestStep, TwinInit, TwinStep, PTL DEF Spec
=============================================================================
