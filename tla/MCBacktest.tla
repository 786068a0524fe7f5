----------------------------- MODULE MCBacktest -----------------------------
(***************************************************************************)
(* Bars and specs small enough to run every sequence of bars.  Around a    *)
(* price of 20 the ATR is 4, so targets, stop and emergency stop are apart *)
(* and a bar can reach any of them on either side.                         *)
(*                                                                         *)
(* The initial state chooses what runs over the bars: the backtest of the  *)
(* runtime and the legacy strategy (Backtest), or the runtime beside the   *)
(* scripts generated for TradingView (Chart).  The variables of the other  *)
(* stay 0.                                                                 *)
(***************************************************************************)
EXTENDS Integers, Sequences

CONSTANTS Slippage, CommissionPct, InitialCapital, Leverage,
          Bars, Specs, ChartBars, ChartSpecs

ASSUME CostsAssumption == /\ Slippage \in Nat
                          /\ CommissionPct \in Nat
                          /\ InitialCapital \in Nat \ {0}
                          /\ Leverage \in Nat \ {0}

(* The blocks that are shipped vote for both directions. *)
ASSUME ChartAssumption ==
    \A s \in ChartSpecs : /\ s.maxBars \in Nat \ {0, 1}
                          /\ \A b \in DOMAIN s.entries.dirs : s.entries.dirs[b] = 0
                          /\ \A b \in DOMAIN s.filters.dirs : s.filters.dirs[b] = 0

VARIABLES part, rt, i, apart,
          spec, lg, last, over,
          cspec, strategy, track

Test == INSTANCE Backtest
OnChart == INSTANCE Chart WITH Bars <- ChartBars

(* A run has data, at positive prices; active tranches have a positive     *)
(* share and distance, and sizing parameters are numbers.  The time exit   *)
(* of a port leaves a position at least one bar (structural-exit.js asks   *)
(* for 5), and every bar has a vote of each of its entry blocks.           *)
ASSUME BarsAssumption ==
    \A b \in Bars : {b.open, b.high, b.low, b.close, b.atr} \subseteq Int /\ b.low > 0 /\ b.atr >= 0
ASSUME SpecsAssumption ==
    \A s \in Specs :
        LET active == Test!Tranches(s)
        IN /\ s.length \in Nat \ {0}
           /\ {s.fitnessStart, s.emergencyPct, s.atrSL, s.maxBars} \subseteq Int
           /\ DOMAIN active = 1 .. Len(active)
           /\ \A k \in DOMAIN active : {active[k].pct, active[k].mult} \subseteq Nat \ {0}
           /\ active # << >> => Test!PctSum(active) > 0
           /\ Test!IsSizing(s.sizing)
ASSUME PortsAssumption ==
    \A s \in Specs : Test!IsPort(s) =>
        /\ s.maxBars >= 2
        /\ \A b \in Bars : DOMAIN b.entries = DOMAIN s.entries.dirs
ASSUME TranchesAssumption ==
    \A s \in ChartSpecs : DOMAIN OnChart!Tranches(s) = 1 .. Len(OnChart!Tranches(s))

testing == <<spec, lg, last, over>>
charting == <<cspec, strategy, track>>
vars == <<part, rt, i, apart, testing, charting>>

Init ==
    \/ part = "test" /\ Test!Init /\ cspec = 0 /\ strategy = 0 /\ track = 0
    \/ part = "chart" /\ OnChart!Init /\ spec = 0 /\ lg = 0 /\ last = 0 /\ over = 0

Next ==
    \/ part = "test" /\ (\E bar \in Bars : Test!Step(bar)) /\ UNCHANGED <<part, charting>>
    \/ part = "test" /\ Test!Finish /\ UNCHANGED <<part, charting>>
    \/ part = "chart" /\ (\E bar \in ChartBars : OnChart!Bar(bar)) /\ UNCHANGED <<part, testing>>
Spec == Init /\ [][Next]_vars

-----------------------------------------------------------------------------
Long == 1
Short == -1
NoDir == 0

Prices == {<<20, 22, 18, 20>>, <<20, 26, 20, 24>>, <<20, 30, 20, 28>>,
           <<20, 20, 14, 16>>, <<20, 20, 10, 12>>, <<20, 26, 14, 20>>, <<10, 11, 9, 10>>}
ChartPrices == {<<20, 22, 18, 20>>, <<20, 30, 20, 28>>, <<20, 20, 14, 16>>,
                <<20, 20, 10, 12>>, <<20, 26, 14, 20>>}
Says == {[e |-> <<{}, {}>>, f |-> <<{}>>, b |-> {}, a |-> 0],
         [e |-> <<{Long}, {Long}>>, f |-> <<{Long, Short}>>, b |-> {}, a |-> 4],
         [e |-> <<{Short}, {Short}>>, f |-> <<{Short}>>, b |-> {Short}, a |-> 4],
         [e |-> <<{Short}, {Long}>>, f |-> <<{Long}>>, b |-> {Long, Short}, a |-> 4]}
BarsOf(prices) ==
    {[open |-> p[1], high |-> p[2], low |-> p[3], close |-> p[4],
      entries |-> s.e, filters |-> s.f, breaks |-> s.b, atr |-> s.a] : p \in prices, s \in Says}
MCBars == BarsOf(Prices)
MCChartBars == BarsOf(ChartPrices)

T(mult, pct) == [mult |-> mult, pct |-> pct]
Slot(mode, threshold, dirs) == [mode |-> mode, threshold |-> threshold, dirs |-> dirs]
All == {"hardStop", "target", "trail"}

RiskSizing(useInitialCapital, riskPct) ==
    [id |-> "atrRisk", useInitialCapital |-> useInitialCapital, riskPct |-> riskPct]
Port(threshold, n, maxBars, sizing) ==
    [length |-> n, fitnessStart |-> 0, entries |-> Slot("score", threshold, <<NoDir, NoDir>>),
     filters |-> Slot("all", 1, << >>), exits |-> All,
     atrSL |-> 1, emergencyPct |-> 50, maxBars |-> maxBars,
     targets |-> <<T(1, 40), T(2, 40), T(4, 20)>>,
     sizing |-> sizing]

Other(mode, filter, exits, start, sizing) ==
    [length |-> 4, fitnessStart |-> start, entries |-> Slot(mode, 1, <<NoDir, Long>>),
     filters |-> Slot(filter, 1, <<Short>>), exits |-> exits,
     atrSL |-> 1, emergencyPct |-> 50, maxBars |-> 2,
     targets |-> <<T(2, 30), T(1, 60), T(3, 0)>>, sizing |-> sizing]

MCSpecs ==
    {Port(2, 6, 4, RiskSizing(FALSE, 50)), Port(1, 4, 3, RiskSizing(FALSE, 50)),
     Port(1, 5, 4, RiskSizing(TRUE, 20)),
     Other("any", "all", {"hardStop", "target"}, 3, [id |-> "flat", amount |-> 30000]),
     Other("all", "any", All, 3, [id |-> "pctOfInitial", pct |-> 100]),
     Other("score", "score", {"target", "trail"}, 2, [id |-> "pctOfEquity", pct |-> 90]),
     Other("any", "all", All, 3, RiskSizing(TRUE, 90)),
     Other("any", "all", {"trail"}, 4, [id |-> "volTargetSizing", targetVolPct |-> 50, hardCapPct |-> 80]),
     Other("any", "any", All, 3, [id |-> "fixedFractional", f |-> 20, minWorstLoss |-> 1000]),
     Other("score", "any", All, 3, [id |-> "kelly", minTrades |-> 1, warmupPct |-> 50, fractionPct |-> 50, maxPct |-> 50]),
     Other("any", "any", All, 3, [id |-> "martingale", basePct |-> 30, stepMult |-> 2, maxMult |-> 3]),
     Other("any", "score", All, 3, [id |-> "antiMartingale", basePct |-> 30, stepMult |-> 2, maxMult |-> 3]),
     Other("any", "any", All, 3, [id |-> "equityCurveTrading", basePct |-> 50, onPct |-> 90, offPct |-> 0, maLen |-> 2, minTrades |-> 1])}

Charted(mode, filter, filters, exits, maxBars, sizing) ==
    [length |-> 5, fitnessStart |-> 0, entries |-> Slot(mode, 1, <<NoDir, NoDir>>),
     filters |-> Slot(filter, 1, [b \in 1..filters |-> NoDir]), exits |-> exits,
     atrSL |-> 1, emergencyPct |-> 50, maxBars |-> maxBars,
     targets |-> <<T(2, 30), T(1, 60), T(3, 0)>>, sizing |-> sizing]

MCChartSpecs ==
    {Charted("score", "all", 0, All, 3, RiskSizing(TRUE, 40)),
     Charted("all", "any", 1, All, 2, RiskSizing(FALSE, 40)),
     Charted("any", "score", 1, {"hardStop", "target"}, 3, RiskSizing(FALSE, 40)),
     Charted("all", "all", 1, {"target", "trail"}, 3, RiskSizing(FALSE, 40)),
     Charted("all", "all", 0, {}, 4, [id |-> "pctOfInitial", pct |-> 50])}

-----------------------------------------------------------------------------
(* Profit, trades and drawdown of the fitness region fit together          *)
(* (Backtest).                                                             *)
BooksBalance == part = "test" => Test!BooksBalance

(* A close beyond the stop closes the position two bars later (Backtest).  *)
StopTakesTwoBars ==
    [][part = "test" /\ i' # i =>
        /\ rt.pos.triggered /\ Test!SamePosition => rt'.pendingClose = "SL"
        /\ rt.pendingClose # Test!NoSignal => ~ Test!SamePosition]_vars

(* The runtime and the legacy strategy hold the same position and equity   *)
(* until a bar they are known to treat differently (Backtest).             *)
SameAsLegacy == part = "test" => Test!SameAsLegacy

(* The indicator's tracker leaves every position by time (Chart).          *)
TrackerLetsGo == part = "chart" => OnChart!TrackerLetsGo

(* The generated strategy holds the runtime's position until a bar they    *)
(* are known to treat differently (Chart).                                 *)
SameAsStrategy == part = "chart" => OnChart!SameAsStrategy
=============================================================================
