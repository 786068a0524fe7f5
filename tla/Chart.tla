-------------------------------- MODULE Chart --------------------------------
(***************************************************************************)
(* A chart with both scripts that are generated for a spec, the indicator  *)
(* (Pine) and the strategy (PineStrategy), beside the runtime's backtest   *)
(* of the same bars (Runtime).                                             *)
(***************************************************************************)
EXTENDS PineStrategy

CONSTANTS Bars,
          ChartSpecs   \* of blocks that vote for both directions, as all shipped ones do

VARIABLES cspec,     \* the spec and the gene that the scripts were generated from
          rt,        \* the account of the runtime
          strategy,  \* the account of the strategy tester
          track,     \* the position tracked by the indicator
          i,         \* bars done
          apart      \* history: runtime and strategy have met a bar they treat differently

vars == <<cspec, rt, strategy, track, i, apart>>

Init ==
    /\ cspec \in ChartSpecs
    /\ rt = NewAccount(cspec)
    /\ strategy = NoHolding
    /\ track = NoTrack
    /\ i = 0
    /\ apart = FALSE

(***************************************************************************)
(* The bars that runtime and strategy treat differently:                   *)
(*   - both directions fire: the runtime takes the long one, the strategy  *)
(*     orders both;                                                        *)
(*   - an entry whose size does not come from a risk per trade: the        *)
(*     strategy orders a quantity of 0;                                    *)
(*   - an entry without an ATR: no stop and no targets in the runtime;     *)
(*   - the emergency stop on the bar of the entry, where the strategy's    *)
(*     orders are not active yet;                                          *)
(*   - a bar that reaches the emergency stop and a target: the emulator    *)
(*     guesses which came first;                                           *)
(*   - a target on the bar after a close beyond the stop, on which the     *)
(*     runtime only queues the close;                                      *)
(*   - a signal against the position: without a trail block the runtime    *)
(*     does not reverse;                                                   *)
(*   - a lost account.                                                     *)
(***************************************************************************)
ReachesTarget(p, bar) ==
    \E s \in DOMAIN p.subs : ~ p.subs[s].closed /\ p.subs[s].target > 0
                             /\ Reaches(p, bar, p.subs[s].target)
StopsOnEntryBar(r, bar) ==
    r.pendingEntry # NoDir /\ "hardStop" \in cspec.exits /\
        LET dir == r.pendingEntry
            fill == bar.open + dir * Slippage
        IN Falls([dir |-> dir], bar, EmergencyPrice([dir |-> dir, price |-> fill], cspec))

Differ(bar) ==
    \/ Signals(cspec, bar) = {Long, Short}
    \/ rt.pendingEntry # NoDir /\ (rt.atr = 0 \/ cspec.sizing.id # "atrRisk")
    \/ StopsOnEntryBar(rt, bar)
    \/ /\ IsOpen(rt) /\ rt.pendingClose = NoSignal /\ ReachesTarget(rt.pos, bar)
       /\ rt.pos.triggered \/ Falls(rt.pos, bar, EmergencyPrice(rt.pos, cspec))
    \/ /\ IsOpen(rt)' /\ rt'.pendingEntry = NoDir
       /\ "trail" \notin cspec.exits /\ -rt'.pos.dir \in Signals(cspec, bar)
    \/ rt'.equity = 0

Bar(bar) ==
    /\ i < cspec.length
    /\ i' = i + 1
    /\ rt' = RunBar(rt, cspec, i', bar)
    /\ strategy' = RunStrategy(strategy, cspec, i', bar, rt.atr)
    /\ track' = Open(Script(track, cspec, bar, i'), cspec, bar, i').track
    /\ apart' = (apart \/ Differ(bar))
    /\ UNCHANGED cspec

Next == \E bar \in Bars : Bar(bar)
Spec == Init /\ [][Next]_vars

-----------------------------------------------------------------------------
(* With a structural exit the tracker cannot get stuck in a position, from *)
(* which no entry would be alerted any more: it leaves by time, which only *)
(* the bars on which a tranche fires for the first time can put off.       *)
TrackerLetsGo ==
    track.dir # NoDir /\ "trail" \in cspec.exits =>
        i - track.opened <= cspec.maxBars - 2 + Cardinality(track.fired)

(* As long as they have met none of the bars they treat differently, the   *)
(* strategy on the chart holds the position that the runtime holds: the    *)
(* same direction, since the same bar, with the same tranches left.        *)
SameAsStrategy ==
    ~ apart =>
        /\ strategy.dir = rt.pos.dir
        /\ IsOpen(rt) => /\ strategy.opened = rt.pos.opened
                         /\ Cardinality(strategy.held) =
                                Cardinality({s \in DOMAIN rt.pos.subs : ~ rt.pos.subs[s].closed})
=============================================================================
