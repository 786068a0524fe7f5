------------------------------ MODULE Fitness -------------------------------
(***************************************************************************)
(* From the metrics of a backtest to the fitness of a gene:                *)
(* optimizer/fitness.js for a spec, optimizer/island-worker.js for the     *)
(* legacy strategy and for genes that cannot be scored.                    *)
(*                                                                         *)
(* Ratios are in per mille.  Metrics are                                   *)
(*   [error, positions, trades, pf, dd, ret, net, regimes]                 *)
(* where regimes holds the trades and the profit factor of each regime in  *)
(* which the gene has traded; a profit factor without losses is the number *)
(* Infinite.  The walk-forward gate of computeFitness and the pooled       *)
(* regimes are left out: an island passes no walk-forward report.          *)
(***************************************************************************)
EXTENDS Integers

Infinite == 1000000
Least(a, b) == IF a < b THEN a ELSE b

NormalizePf(pf, cap) == IF pf <= 0 THEN 0 ELSE (1000 * Least(pf, cap)) \div cap
NormalizeDd(dd) == IF dd <= 0 THEN 1000 ELSE IF dd >= 1000 THEN 0 ELSE 1000 - dd
NormalizeRet(ret, cap) == IF ret <= 0 THEN 0 ELSE (1000 * Least(ret, cap)) \div cap

(* All weights zero: equal weights.                                        *)
NormalizeWeights(w) ==
    IF w.pf + w.dd + w.ret <= 0 THEN [pf |-> 1, dd |-> 1, ret |-> 1] ELSE w

(* A regime with few trades or without losses is no threat to the floor.   *)
MinRegimeSample == 5
WorstRegimes(m, floor) ==
    {r \in m.regimes : r.trades >= MinRegimeSample /\ r.pf # Infinite /\ r.pf < floor}

GatesFailed(m, config) ==
    (IF m.positions < config.minTradesPerWindow THEN {"trades"} ELSE {})
        \union (IF WorstRegimes(m, config.worstRegimePfFloor) # {} THEN {"worstRegime"} ELSE {})

Composite(m, config) ==
    LET w == NormalizeWeights(config.weights)
        raw == (w.pf * NormalizePf(m.pf, config.capPf) + w.dd * NormalizeDd(m.dd)
                    + w.ret * NormalizeRet(m.ret, config.capRet)) \div (w.pf + w.dd + w.ret)
    IN IF config.frequencyTarget > 0
       THEN (raw * Least(m.positions, config.frequencyTarget)) \div config.frequencyTarget
       ELSE raw

Eliminated == -10000

SpecScore(m, config) ==
    IF m.error \/ GatesFailed(m, config) # {} THEN Eliminated ELSE Composite(m, config)

(* Net profit, reduced by up to 30 % for a drawdown of maxDd and more.     *)
LegacyScore(m, minTrades, maxDd) ==
    LET ratio == Least((1000 * m.dd) \div maxDd, 1000)
        penalty == (3 * ratio * ratio) \div 10000
    IN CASE m.error              -> Eliminated
         [] m.trades < 3         -> -5000
         [] m.trades < minTrades -> -1000 + m.trades * 10
         [] OTHER                -> (m.net * (1000 - penalty)) \div 1000
=============================================================================
