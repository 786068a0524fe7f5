--------------------------- MODULE PipelineCases ---------------------------
(***************************************************************************)
(* The inputs of the stations of MCPipeline.                               *)
(***************************************************************************)
EXTENDS ParamSpace, Fitness

-----------------------------------------------------------------------------
(* A small block library and five files: one that uses pins, ranges and    *)
(* omitted parameters; one with another shape that gives only the cap of   *)
(* the return; one with two instances of a block and weights of which one  *)
(* is left out; one without that cap; one without a fitness section.  A    *)
(* sixth name is free.                                                     *)
Span(min, max, step) == [min |-> min, max |-> max, step |-> step]
Block(kind, needsStop, params) == [kind |-> kind, needsStop |-> needsStop, params |-> params]
SmallRegistry ==
    [atrHardStop |-> Block("hardStop", FALSE, [atrLen |-> Span(5, 25, 5)]),
     flat |-> Block("sizing", FALSE, [usd |-> Span(10, 10, 1)]),
     atrRisk |-> Block("sizing", TRUE, [atrLen |-> Span(10, 30, 5)]),
     emaTrend |-> Block("entry", FALSE, [fast |-> Span(2, 8, 1)]),
     volumeFilter |-> Block("filter", FALSE, [len |-> Span(10, 20, 2)])]

Empty == [x \in {} |-> 0]
NoBlock == [block |-> "none", instance |-> "none", params |-> Empty]
Ref(b, params) == [block |-> b, instance |-> "main", params |-> params]
Filled(stop, sizing) ==
    [regime |-> NoBlock, hardStop |-> stop, target |-> NoBlock, trail |-> NoBlock, sizing |-> sizing]

Simple(name, fitness) ==
    [name |-> name, slots |-> Filled(Ref("atrHardStop", Empty), Ref("flat", Empty)),
     entries |-> <<Ref("emaTrend", Empty)>>, filters |-> << >>,
     mode |-> "all", threshold |-> << >>, fmode |-> "all", fitness |-> fitness, other |-> "default"]

SmallFiles ==
    [a |-> [name |-> "a",
            slots |-> Filled(Ref("atrHardStop", [atrLen |-> <<10, 20, 5>>]), Ref("atrRisk", [atrLen |-> <<15>>])),
            entries |-> <<Ref("emaTrend", [fast |-> <<3, 6, 1>>])>>,
            filters |-> << >>, mode |-> "score", threshold |-> <<1, 2, 1>>, fmode |-> "all",
            fitness |-> [weights |-> <<25, 20, 55>>, ret |-> 150, rest |-> "own", extras |-> "own"],
            other |-> "own"],
     b |-> [name |-> "b",
            slots |-> Filled(Ref("atrHardStop", Empty), Ref("flat", Empty)),
            entries |-> <<Ref("emaTrend", [fast |-> <<2>>])>>,
            filters |-> <<Ref("volumeFilter", [len |-> <<10, 14, 4>>])>>,
            mode |-> "any", threshold |-> << >>, fmode |-> "any",
            fitness |-> [weights |-> <<-1, -1, -1>>, ret |-> 150, rest |-> "none", extras |-> "none"],
            other |-> "default"],
     c |-> [name |-> "c",
            slots |-> Filled(Ref("atrHardStop", Empty), Ref("flat", Empty)),
            entries |-> <<Ref("emaTrend", Empty), [Ref("emaTrend", Empty) EXCEPT !.instance = "slow"]>>,
            filters |-> << >>, mode |-> "score", threshold |-> <<2>>, fmode |-> "all",
            fitness |-> [weights |-> <<60, 40, -1>>, ret |-> 100, rest |-> "own", extras |-> "none"],
            other |-> "default"],
     d |-> [name |-> "none"],
     e |-> Simple("e", [weights |-> <<60, 20, 20>>, ret |-> -1, rest |-> "own", extras |-> "none"]),
     f |-> Simple("f", [rest |-> "none"])]
TypedNumbers == {-1, 0, 12, 40}

-----------------------------------------------------------------------------
(* Two planets over a small space of a spec, with and without a knockout,  *)
(* constrained by one another, a literal and a pinned parameter, and       *)
(* by constraints of which the second undoes the repair of the first;      *)
(* and the groups of constrained parameters of the legacy strategy with    *)
(* their full ranges, of which every random individual is looked at.       *)
NoMask == << >>
SmallSpace == [fast |-> SpecParam("int", 100, 300, 100),
               slow |-> SpecParam("int", 100, 400, 100)]
SmallConstraints ==
    << [form |-> "spec", lhs |-> "fast", op |-> "<", rhs |-> "slow",
        literal |-> FALSE, repair |-> "clamp-rhs"],
       [form |-> "spec", lhs |-> "slow", op |-> ">=", rhs |-> 300,
        literal |-> TRUE, repair |-> "clamp-lhs"],
       [form |-> "spec", lhs |-> "slow", op |-> "<=", rhs |-> "pinned",
        literal |-> FALSE, repair |-> "clamp-lhs"] >>
Planets(masks) ==
    [params |-> SmallSpace, constraints |-> SmallConstraints, masks |-> masks,
     size |-> 4, migrants |-> 2, elite |-> 3]

FreezeFast == [x \in {"fast"} |-> Midpoint(SmallSpace.fast)]
FreezeSlow == [x \in {"slow"} |-> Midpoint(SmallSpace.slow)]

Alone(params, constraints) ==
    [params |-> params, constraints |-> constraints, masks |-> {NoMask},
     size |-> 1, migrants |-> 0, elite |-> 3]
Order(lhs, rhs, margin) == [form |-> "order", lhs |-> lhs, rhs |-> rhs, margin |-> margin]

Undone ==
    Alone(SmallSpace,
          << [form |-> "spec", lhs |-> "fast", op |-> "<", rhs |-> "slow",
              literal |-> FALSE, repair |-> "clamp-rhs"],
             [form |-> "spec", lhs |-> "slow", op |-> "<=", rhs |-> 200,
              literal |-> TRUE, repair |-> "clamp-lhs"] >>)

LegacyEmas ==
    Alone([emaFast |-> LegacyParam("int", 800, 4000, 100),
           emaSlow |-> LegacyParam("int", 3000, 15000, 500)],
          << Order("emaFast", "emaSlow", 1000) >>)
LegacyTargets ==
    Alone([tp1Mult |-> LegacyParam("float", 150, 300, 25),
           tp2Mult |-> LegacyParam("float", 150, 600, 25),
           tp3Mult |-> LegacyParam("float", 300, 1200, 50)],
          << Order("tp1Mult", "tp2Mult", 50), Order("tp2Mult", "tp3Mult", 100) >>)
LegacyShares ==
    Alone([tp1Pct |-> LegacyParam("int", 1000, 5000, 500),
           tp2Pct |-> LegacyParam("int", 1000, 5000, 500)],
          << [form |-> "sum", lhs |-> "tp1Pct", rhs |-> "tp2Pct", limit |-> 9000] >>)

CaseSetups == {Planets({NoMask}), Planets({NoMask, FreezeFast}), Planets({NoMask, FreezeSlow}),
             Undone, LegacyEmas, LegacyTargets, LegacyShares}

(* Distinct genes may score alike; a knockout changes the score.           *)
CaseScore(g) ==
    IF "fast" \in DOMAIN g THEN (3 * (g.fast \div 100) + 4 * (g.slow \div 100)) % 7 ELSE 0

-----------------------------------------------------------------------------
(* Four specs that use every entry, filter and regime block, with gaps in  *)
(* the market, both window schemes, and runs that end before the data do.  *)
Kind(o, h, l, c, v) == [open |-> o, high |-> h, low |-> l, close |-> c, volume |-> v]
CaseBars == {Kind(100, 112, 96, 108, 20), Kind(104, 108, 84, 92, 60), Kind(100, 104, 98, 102, 5)}

Entries ==
    {[id |-> "stochCross", stochLen |-> 2, stochSmth |-> 2, longLevel |-> 60, shortLevel |-> 40],
     [id |-> "emaTrend", emaFast |-> 1, emaSlow |-> 3],
     [id |-> "maPullback", emaFast |-> 2, emaSlow |-> 3],
     [id |-> "bbSqueezeBreakout", bbLen |-> 2, bbMult |-> 20, squeezePctile |-> 60, lookbackBars |-> 2],
     [id |-> "rsiPullback", rsiLen |-> 2, longLevel |-> 40, shortLevel |-> 60],
     [id |-> "donchianBreakout", period |-> 2],
     [id |-> "volumeSurge", volLen |-> 2, multiplier |-> 12]}
Filters ==
    {[id |-> "volumeFilter", volLen |-> 2, multiplier |-> 8],
     [id |-> "volatilityFloor", atrLen |-> 2, minAtrPct |-> 10],
     [id |-> "htfTrendFilter", htfTfMin |-> 2, maLen |-> 2]}
Gate == [id |-> "regimeGate", allowedLong |-> {"bull", "high", "trending"}, allowedShort |-> {"bear", "none"}]
HtfRegime(ma) == [id |-> "htfTrendRegime", htfTfMin |-> 3, maLen |-> ma, slopeLookback |-> 1, slopeThreshold |-> 1]
AdxRegime == [id |-> "rangeRegime", adxLen |-> 2, adxThreshold |-> 40]
VolumeRegime == [id |-> "volRegime", atrLen |-> 2, rankLen |-> 2, highThreshold |-> 60, lowThreshold |-> 40]

Setup(blocks, regime, worst, scheme, n, to, gaps) ==
    [gene |-> blocks \union {regime, Gate}, worst |-> blocks \union {worst, Gate},
     scheme |-> scheme, nWindows |-> n, from |-> 2, to |-> to, gaps |-> gaps]
EvaluationSetups ==
    {Setup(Entries, HtfRegime(1), HtfRegime(2), "anchored", 2, 99, {}),
     Setup(Filters, HtfRegime(2), HtfRegime(2), "rolling", 1, 7, {4, 5}),
     Setup(Filters, AdxRegime, AdxRegime, "rolling", 2, 99, {3}),
     Setup(Filters, VolumeRegime, VolumeRegime, "anchored", 1, 6, {})}
CaseShare == <<3, 5>>

-----------------------------------------------------------------------------
(* Two islands on two threads and four genes: one without losses and too   *)
(* few trades to be listed, two that may be listed, one that loses in a    *)
(* regime in which it trades often.  The file has room for two.            *)
TwoIslands == 1 .. 2
OwnWorker(i) == i
FourGenes == 1 .. 4
M(positions, trades, pf, dd, ret, regimes) ==
    [error |-> FALSE, positions |-> positions, trades |-> trades, pf |-> pf, dd |-> dd, ret |-> ret,
     net |-> 10 * ret, regimes |-> regimes]
Regime(trades, pf) == [trades |-> trades, pf |-> pf]
CaseMetrics(g) ==
    CASE g = 1 -> M(8, 24, Infinite, 100, 500, {Regime(24, Infinite)})
      [] g = 2 -> M(12, 36, 2000, 200, 300, {Regime(32, 2200), Regime(4, 500)})
      [] g = 3 -> M(10, 30, 1500, 300, 200, {Regime(25, 1700), Regime(5, 1000)})
      [] g = 4 -> M(11, 33, 1200, 400, 100, {Regime(27, 1400), Regime(6, 900)})
CaseConfig == [weights |-> [pf |-> 2, dd |-> 1, ret |-> 1], capPf |-> 4000, capRet |-> 1000,
             minTradesPerWindow |-> 5, frequencyTarget |-> 10, worstRegimePfFloor |-> 1000]
=============================================================================
