------------------------------ MODULE Backtest ------------------------------
(***************************************************************************)
(* A backtest: the runtime and the legacy strategy over the same bars, one *)
(* step per bar, each bar any of Bars, and the forced close after the last *)
(* one.  Specs holds the specs (with the length of the data) that are run; *)
(* the legacy strategy runs along when the spec is a port of it.           *)
(***************************************************************************)
EXTENDS Legacy

CONSTANTS Bars, Specs

VARIABLES spec,     \* what is run
          rt,       \* the account of the runtime
          lg,       \* the account of the legacy strategy
          i,        \* bars done
          last,     \* the bar before
          over,     \* the position left at the end has been closed
          apart     \* history: the engines have met a bar they treat differently

vars == <<spec, rt, lg, i, last, over, apart>>

(* The port of the legacy strategy: all exits, no filter, risk sizing,     *)
(* entry blocks that vote for both directions, three targets in ascending  *)
(* order whose shares are 100 percent.                                     *)
IsPort(s) ==
    /\ s.exits = {"hardStop", "target", "trail"}
    /\ s.filters.dirs = << >>
    /\ s.sizing.id = "atrRisk"
    /\ s.entries.mode = "score"
    /\ s.entries.dirs # << >>
    /\ \A b \in DOMAIN s.entries.dirs : s.entries.dirs[b] = NoDir
    /\ Len(s.targets) = 3
    /\ Tranches(s) = s.targets
    /\ s.targets[1].pct + s.targets[2].pct + s.targets[3].pct = 100

NoBar == [open |-> 0, high |-> 0, low |-> 0, close |-> 0,
          entries |-> << >>, filters |-> << >>, breaks |-> {}, atr |-> 0]

Init ==
    /\ spec \in Specs
    /\ rt = NewAccount(spec)
    /\ lg = NewLegacy
    /\ i = 0
    /\ last = NoBar
    /\ over = FALSE
    /\ apart = FALSE

(***************************************************************************)
(* Where runtime and legacy strategy differ.  On the bar after a close     *)
(* beyond the stop, on which the close is queued:                          *)
(*   - the runtime ends the evaluation there, the legacy strategy still    *)
(*     fills targets;                                                      *)
(*   - the emergency stop of that bar leaves the legacy strategy with a    *)
(*     stale queued close that keeps it from entering on this bar.         *)
(* The runtime queues an entry against a position whose close is queued    *)
(* for whatever reason, the legacy strategy only on a reversal; on a       *)
(* reversal the legacy strategy queues it even when nothing is left of the *)
(* equity.  When a reversal and a close beyond the stop fall on one bar,   *)
(* the slTriggered of the legacy strategy survives and closes the next     *)
(* position.  When both directions fire against a long position, the       *)
(* runtime chooses long and does not reverse.  And with useInitialCapital  *)
(* the legacy strategy caps the size by the leverage on the initial        *)
(* capital, the runtime by that on the equity.                             *)
(***************************************************************************)
FillsWhileArmed(bar) ==
    /\ rt.pos.triggered
    /\ \/ \E s \in DOMAIN rt.pos.subs : /\ ~ rt.pos.subs[s].closed
                                        /\ Reaches(rt.pos, bar, rt.pos.subs[s].target)
       \/ Falls(rt.pos, bar, EmergencyPrice(rt.pos, spec))
ReversesOtherClose(bar) ==
    /\ IsOpen(rt)
    /\ rt.pos.triggered \/ i + 1 - rt.pos.opened >= spec.maxBars - 1
    /\ -rt.pos.dir \in Signals(spec, bar)
ReversesBroke(bar) == IsOpen(rt)' /\ rt'.equity <= 0 /\ -rt'.pos.dir \in Signals(spec, bar)
StopOutlivesPosition == lg.slTriggered /\ lg.pendingEntry # NoEntry
BothFireAgainstLong(bar) == Signals(spec, bar) = {Long, Short}
FlatSizeIsCapped(bar) ==
    LET equity == LegacyExecuteClose(lg, bar).equity
        fill == bar.open + lg.pendingEntry.dir * Slippage
        risk == lg.pendingEntry.atr * spec.atrSL
    IN /\ spec.sizing.useInitialCapital
       /\ lg.pendingEntry # NoEntry
       /\ fill > 0 /\ risk > 0
       /\ \E base \in {InitialCapital, equity} :
              (InitialCapital * spec.sizing.riskPct) \div (10000 * risk) > Buys(base * Leverage, fill)

Differ(bar) == \/ FillsWhileArmed(bar)
               \/ ReversesOtherClose(bar)
               \/ ReversesBroke(bar)
               \/ StopOutlivesPosition
               \/ BothFireAgainstLong(bar)
               \/ FlatSizeIsCapped(bar)

Step(bar) ==
    /\ i < spec.length
    /\ i' = i + 1
    /\ last' = bar
    /\ rt' = RunBar(rt, spec, i', bar)
    /\ IF IsPort(spec)
       THEN lg' = LegacyBar(lg, spec, i', bar) /\ apart' = (apart \/ Differ(bar))
       ELSE UNCHANGED <<lg, apart>>
    /\ UNCHANGED <<spec, over>>

Finish ==
    /\ i = spec.length
    /\ ~ over
    /\ over' = TRUE
    /\ rt' = ForceClose(rt, spec, i, last)
    /\ lg' = LegacyEnd(lg, last)
    /\ UNCHANGED <<spec, i, last, apart>>

Next == (\E bar \in Bars : Step(bar)) \/ Finish
Spec == Init /\ [][Next]_vars

-----------------------------------------------------------------------------
(* The profit of the fitness region (equity against the snapshot taken on  *)
(* its first bar) is the sum of the trades counted in it, unless a loss    *)
(* was cut off at zero; and it is not worse than the drawdown reported for *)
(* the region.  The three are kept by different code at different points   *)
(* of the bar.                                                             *)
BooksBalance ==
    rt.base # Unset =>
        /\ rt.floored \/ NetProfit(rt) = rt.profit - rt.loss
        /\ rt.base - rt.equity <= rt.maxDD

SamePosition == IsOpen(rt) /\ IsOpen(rt)' /\ rt'.pos.opened = rt.pos.opened

(* A close beyond the stop closes the position two bars later, whatever    *)
(* the price does in between: an armed position is gone or its close is    *)
(* queued one bar later, and a queued close is filled at the next open.    *)
StopTakesTwoBars ==
    [][i' # i => /\ rt.pos.triggered /\ SamePosition => rt'.pendingClose = "SL"
                 /\ rt.pendingClose # NoSignal => ~ SamePosition]_vars

(* As long as the engines have met none of the bars they treat             *)
(* differently, they hold the same position and the same equity.           *)
SameAsLegacy ==
    IsPort(spec) /\ ~ apart => /\ rt.equity = lg.equity
                               /\ rt.pos.dir = lg.dir
                               /\ OpenUnits(rt) = OpenUnits([pos |-> lg])
=============================================================================
