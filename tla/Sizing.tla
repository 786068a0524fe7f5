------------------------------- MODULE Sizing -------------------------------
(***************************************************************************)
(* The sizing blocks of engine/blocks/library/sizing: how many units the   *)
(* runtime buys when a position opens.                                     *)
(*                                                                         *)
(* Prices are integers, money is in hundredths of a price unit, and a      *)
(* number of units is rounded down to an integer, where the code computes  *)
(* with floating point: a size of zero still means that the block declines *)
(* the entry.  A context c holds what the runtime passes: the fill price,  *)
(* equity, initial capital, the distance of the planned stop (0 for null), *)
(* the ATR of the bar before (0 while it warms up) and the statistics of   *)
(* the trades closed so far.  p holds the parameters of the block.         *)
(***************************************************************************)
EXTENDS Integers, Sequences, SequencesExt

SizeMin(a, b) == IF a < b THEN a ELSE b
SizeMax(a, b) == IF a > b THEN a ELSE b

Total(numbers) ==
    LET sum[n \in 0 .. Len(numbers)] == IF n = 0 THEN 0 ELSE sum[n - 1] + numbers[n]
    IN sum[Len(numbers)]

(* Statistics of no trade; streak is positive after wins, negative after   *)
(* losses; curve is the equity after each closed trade.                    *)
NoStats == [trades |-> 0, wins |-> 0, losses |-> 0, sumWin |-> 0, sumLoss |-> 0,
            worst |-> 0, streak |-> 0, curve |-> << >>]

(* What closeSubAtPrice adds to the statistics for a trade.                *)
WithTrade(s, pnl, equity) ==
    LET won == pnl > 0
        lost == pnl < 0
    IN [trades  |-> s.trades + 1,
        wins    |-> IF won THEN s.wins + 1 ELSE s.wins,
        losses  |-> IF lost THEN s.losses + 1 ELSE s.losses,
        sumWin  |-> IF won THEN s.sumWin + pnl ELSE s.sumWin,
        sumLoss |-> IF lost THEN s.sumLoss - pnl ELSE s.sumLoss,
        worst   |-> SizeMax(s.worst, -pnl),
        streak  |-> CASE won -> SizeMax(s.streak, 0) + 1
                      [] lost -> SizeMin(s.streak, 0) - 1
                      [] OTHER -> s.streak,
        curve   |-> Append(s.curve, equity)]

(* Units that an amount of money buys at the fill price.                   *)
Buys(money, fill) == money \div (100 * fill)

Alive(c) == c.fill > 0 /\ c.equity > 0

Flat(c, p) == IF c.fill > 0 THEN Buys(p.amount, c.fill) ELSE 0

PctOfEquity(c, p) == IF Alive(c) THEN Buys((c.equity * p.pct) \div 100, c.fill) ELSE 0

PctOfInitial(c, p) ==
    IF c.fill > 0 /\ c.initial > 0 THEN Buys((c.initial * p.pct) \div 100, c.fill) ELSE 0

(* A full stop costs riskPct of the base; without a planned stop the entry *)
(* is declined.                                                            *)
AtrRisk(c, p) ==
    LET base == IF p.useInitialCapital THEN c.initial ELSE c.equity
    IN IF c.stop > 0 /\ base > 0 THEN (base * p.riskPct) \div (10000 * c.stop) ELSE 0

VolTarget(c, p) ==
    IF Alive(c) /\ c.atr > 0
    THEN SizeMin((c.equity * p.targetVolPct) \div (10000 * c.atr),
                 Buys((c.equity * p.hardCapPct) \div 100, c.fill))
    ELSE 0

(* f is a percentage here.                                                 *)
FixedFractional(c, p) ==
    IF Alive(c) THEN (c.equity * p.f) \div (100 * SizeMax(c.stats.worst, p.minWorstLoss))
    ELSE 0

(* The Kelly fraction in percent: winRate - (1 - winRate) / (avgWin /      *)
(* avgLoss).  Without a win it is -Infinity in the code: no edge.          *)
KellyPct(s) ==
    IF s.wins = 0 THEN -100
    ELSE (100 * (s.wins * s.sumWin * s.losses - (s.trades - s.wins) * s.sumLoss * s.wins))
             \div (s.trades * s.sumWin * s.losses)

Kelly(c, p) ==
    IF ~ Alive(c) THEN 0
    ELSE IF c.stats.trades < p.minTrades \/ c.stats.losses = 0
         THEN Buys((c.equity * p.warmupPct) \div 100, c.fill)
    ELSE IF KellyPct(c.stats) <= 0 THEN 0
    ELSE Buys((c.equity * SizeMin((KellyPct(c.stats) * p.fractionPct) \div 100, p.maxPct))
                  \div 100, c.fill)

(* stepMult to the power of the streak, capped.                            *)
Escalated(c, p, length) ==
    LET power[n \in 0 .. length] == IF n = 0 THEN 1 ELSE p.stepMult * power[n - 1]
    IN IF Alive(c)
       THEN Buys((c.equity * p.basePct * SizeMin(power[length], p.maxMult)) \div 100, c.fill)
       ELSE 0

Martingale(c, p) == Escalated(c, p, SizeMax(0, -c.stats.streak))

AntiMartingale(c, p) == Escalated(c, p, SizeMax(0, c.stats.streak))

(* Bigger above the moving average of the equity curve, smaller or nothing *)
(* below it.                                                               *)
EquityCurve(c, p) ==
    LET curve == c.stats.curve
        last == SubSeq(curve, Len(curve) - p.maLen + 1, Len(curve))
        pct == IF c.stats.trades < p.minTrades \/ Len(curve) < p.maLen THEN p.basePct
               ELSE IF Last(curve) * p.maLen > Total(last) THEN p.onPct
               ELSE p.offPct
    IN IF Alive(c) THEN Buys((c.equity * pct) \div 100, c.fill) ELSE 0

ComputeSize(c, p) ==
    CASE p.id = "flat"               -> Flat(c, p)
      [] p.id = "pctOfEquity"        -> PctOfEquity(c, p)
      [] p.id = "pctOfInitial"       -> PctOfInitial(c, p)
      [] p.id = "atrRisk"            -> AtrRisk(c, p)
      [] p.id = "volTargetSizing"    -> VolTarget(c, p)
      [] p.id = "fixedFractional"    -> FixedFractional(c, p)
      [] p.id = "kelly"              -> Kelly(c, p)
      [] p.id = "martingale"         -> Martingale(c, p)
      [] p.id = "antiMartingale"     -> AntiMartingale(c, p)
      [] p.id = "equityCurveTrading" -> EquityCurve(c, p)

(* Blocks that read the statistics (sizingRequirements).  For the others   *)
(* the model does not keep them.                                           *)
ReadsStats(p) == p.id \in {"fixedFractional", "kelly", "martingale", "antiMartingale",
                           "equityCurveTrading"}

(* What the parameters of the blocks are.                                  *)
SizingNumbers(p) ==
    CASE p.id = "flat"               -> {p.amount}
      [] p.id = "pctOfEquity"        -> {p.pct}
      [] p.id = "pctOfInitial"       -> {p.pct}
      [] p.id = "atrRisk"            -> {p.riskPct}
      [] p.id = "volTargetSizing"    -> {p.targetVolPct, p.hardCapPct}
      [] p.id = "fixedFractional"    -> {p.f, p.minWorstLoss}
      [] p.id = "kelly"              -> {p.minTrades, p.warmupPct, p.fractionPct, p.maxPct}
      [] p.id = "martingale"         -> {p.basePct, p.stepMult, p.maxMult}
      [] p.id = "antiMartingale"     -> {p.basePct, p.stepMult, p.maxMult}
      [] p.id = "equityCurveTrading" -> {p.basePct, p.onPct, p.offPct, p.maLen, p.minTrades}
IsSizing(p) ==
    /\ p.id \in {"flat", "pctOfEquity", "pctOfInitial", "atrRisk", "volTargetSizing", "fixedFractional",
                 "kelly", "martingale", "antiMartingale", "equityCurveTrading"}
    /\ SizingNumbers(p) \subseteq Int
    /\ p.id = "fixedFractional" => p.minWorstLoss > 0
    /\ p.id = "equityCurveTrading" => p.maLen > 0
=============================================================================
