------------------------------ MODULE Runtime ------------------------------
(***************************************************************************)
(* The bar step of the composable runtime (engine/runtime.js) with its     *)
(* exit blocks atrHardStop, atrScaleOutTarget and structuralExit: what one *)
(* bar does to the account r, as functions from account to account that    *)
(* are composed in the order of the loop.                                  *)
(*                                                                         *)
(* A bar holds its prices, what the indicator series say of it (the votes  *)
(* of every entry and filter block, the structural break, the ATR) and     *)
(* nothing of other bars.  Money is in hundredths of a price unit; prices  *)
(* are integers.  spec holds what the spec and the gene fix: slots, modes  *)
(* and parameters.  Left out, as sums over the same closed trades: the     *)
(* Sharpe ratio, the trade and equity lists, and the tally by regime (what *)
(* the fitness makes of it is in module Fitness).                          *)
(***************************************************************************)
EXTENDS Sizing

CONSTANTS Slippage,         \* ticks x mintick, on market fills only
          CommissionPct,    \* per side, in percent of the notional
          InitialCapital,   \* in hundredths
          Leverage

Long == 1
Short == -1
NoDir == 0
NoSignal == ""
Unset == -1

NoPosition == [dir |-> NoDir, price |-> 0, opened |-> 0, atr |-> 0, subs |-> << >>,
               triggered |-> FALSE, tp1 |-> Unset]

(* The account before the first bar.  base is oosEquityStart, floored is a *)
(* history variable: a loss has been cut off at zero equity.               *)
NewAccount(spec) ==
    [equity |-> InitialCapital, peak |-> InitialCapital, maxDD |-> 0,
     pos |-> NoPosition, pendingEntry |-> NoDir, pendingClose |-> NoSignal,
     trades |-> 0, positions |-> 0, profit |-> 0, loss |-> 0,
     base |-> IF spec.fitnessStart <= 1 THEN InitialCapital ELSE Unset,
     stats |-> NoStats, atr |-> 0, floored |-> FALSE]

IsOpen(r) == r.pos.dir # NoDir
AllSubsClosed(r) == \A s \in DOMAIN r.pos.subs : r.pos.subs[s].closed
OpenUnits(r) ==
    LET subs == r.pos.subs
    IN Total([s \in DOMAIN subs |-> IF subs[s].closed THEN 0 ELSE subs[s].units])

Commission(units, price) == CommissionPct * units * price
Pnl(pos, units, exit) ==
    100 * units * pos.dir * (exit - pos.price)
        - Commission(units, pos.price) - Commission(units, exit)

(* Peak and drawdown once the account is worth value.                      *)
Drawn(r, value) ==
    LET peak == SizeMax(r.peak, value)
    IN [r EXCEPT !.peak = peak, !.maxDD = SizeMax(@, peak - value)]

(* closeSubAtPrice: equity always changes, the metrics only count exits in *)
(* the fitness region.                                                     *)
CloseSub(r, spec, s, exit, i) ==
    LET pnl == Pnl(r.pos, r.pos.subs[s].units, exit)
        equity == SizeMax(0, r.equity + pnl)
        counted == i >= spec.fitnessStart
        closed == [r EXCEPT !.equity = equity,
                            !.pos.subs[s].closed = TRUE,
                            !.floored = @ \/ r.equity + pnl < 0,
                            !.trades = IF counted THEN @ + 1 ELSE @,
                            !.profit = IF counted /\ pnl > 0 THEN @ + pnl ELSE @,
                            !.loss = IF counted /\ pnl <= 0 THEN @ - pnl ELSE @,
                            !.stats = IF ReadsStats(spec.sizing)
                                      THEN WithTrade(@, pnl, equity) ELSE @]
    IN IF r.pos.subs[s].closed THEN r ELSE Drawn(closed, equity)

(* Subs that leave at a price, in order: exits is a function from them.    *)
CloseSubs(r, spec, exits, i) ==
    LET done[s \in 0 .. Len(r.pos.subs)] ==
            IF s = 0 THEN r
            ELSE IF s \in DOMAIN exits THEN CloseSub(done[s - 1], spec, s, exits[s], i)
            ELSE done[s - 1]
    IN done[Len(r.pos.subs)]

CloseAll(r, spec, exit, i) ==
    [CloseSubs(r, spec, [s \in DOMAIN r.pos.subs |-> exit], i) EXCEPT !.pos = NoPosition]

(* ------------------------------ signals ------------------------------ *)

Eligible(slot, dir) == {b \in DOMAIN slot.dirs : slot.dirs[b] \in {dir, NoDir}}
Voters(slot, votes, dir) == {b \in Eligible(slot, dir) : dir \in votes[b]}

(* aggregateEntries: no block, no signal.                                  *)
AggregateEntries(slot, votes, dir) ==
    LET eligible == Eligible(slot, dir)
        yes == Voters(slot, votes, dir)
    IN slot.dirs # << >> /\
       CASE slot.mode = "score" -> Cardinality(yes) >= slot.threshold
         [] slot.mode = "all"   -> eligible # {} /\ yes = eligible
         [] slot.mode = "any"   -> yes # {}

(* aggregateFilters: no block permits everything, and in mode "all" no     *)
(* eligible block is no veto.                                              *)
AggregateFilters(slot, votes, dir) ==
    LET yes == Voters(slot, votes, dir)
    IN slot.dirs = << >> \/
       CASE slot.mode = "score" -> Cardinality(yes) >= slot.threshold
         [] slot.mode = "any"   -> yes # {}
         [] slot.mode = "all"   -> yes = Eligible(slot, dir)

(* Directions in which the entries fire and the filters permit.            *)
Signals(spec, bar) ==
    {dir \in {Long, Short} : /\ AggregateEntries(spec.entries, bar.entries, dir)
                             /\ AggregateFilters(spec.filters, bar.filters, dir)}

(* ------------------------------- opening ------------------------------ *)

(* planStop of atrHardStop: the distance to the stop, 0 when there is no   *)
(* hard stop or the ATR of the signal bar is missing.                      *)
PlanStop(r, spec) == IF "hardStop" \in spec.exits THEN r.atr * spec.atrSL ELSE 0

(* The active tranches, nearest first.                                     *)
Tranches(spec) ==
    SortSeq(SelectSeq(spec.targets, LAMBDA t : t.pct > 0 /\ t.mult > 0),
            LAMBDA s, t : s.mult < t.mult)
PctSum(active) == Total([k \in DOMAIN active |-> active[k].pct])

(* onPositionOpen of atrScaleOutTarget: shares by pct, the last tranche    *)
(* gets the remainder; without ATR or tranche the main sub stays.          *)
Subs(spec, atr, dir, fill, units) ==
    LET active == Tranches(spec)
        pctSum == PctSum(active)
        Share(k) == (units * active[k].pct) \div pctSum
        before == Total([k \in 1 .. Len(active) - 1 |-> Share(k)])
    IN IF "target" \notin spec.exits \/ atr = 0 \/ active = << >>
       THEN << [units |-> units, closed |-> FALSE, target |-> 0] >>
       ELSE [k \in 1 .. Len(active) |->
                [units  |-> IF k = Len(active) THEN units - before ELSE Share(k),
                 closed |-> FALSE,
                 target |-> fill + dir * atr * active[k].mult]]

(* openPosition: the size of the block, capped by leverage.                *)
OpenPosition(r, spec, dir, fill, i) ==
    LET wanted == ComputeSize([fill |-> fill, equity |-> r.equity, initial |-> InitialCapital,
                               stop |-> PlanStop(r, spec), atr |-> r.atr, stats |-> r.stats],
                              spec.sizing)
        cap == Buys((IF r.equity > 0 THEN r.equity ELSE InitialCapital) * Leverage, fill)
        units == SizeMin(wanted, cap)
    IN IF units <= 0 THEN r
       ELSE [r EXCEPT !.pos = [dir |-> dir, price |-> fill, opened |-> i, atr |-> r.atr,
                               subs |-> Subs(spec, r.atr, dir, fill, units),
                               triggered |-> FALSE, tp1 |-> Unset],
                      !.positions = IF i >= spec.fitnessStart THEN @ + 1 ELSE @]

(* ------------------------------- the bar ------------------------------ *)

(* The first bar of the fitness region: what profit and drawdown start at. *)
EnterRegion(r, spec, i) ==
    IF r.base = Unset /\ i >= spec.fitnessStart
    THEN [r EXCEPT !.base = r.equity, !.peak = r.equity, !.maxDD = 0]
    ELSE r

(* 5a: a queued close fills at the open, with slippage.                    *)
ExecuteClose(r, spec, i, bar) ==
    LET done == IF r.pendingClose # NoSignal /\ IsOpen(r)
                THEN CloseAll(r, spec, bar.open - r.pos.dir * Slippage, i)
                ELSE r
    IN [done EXCEPT !.pendingClose = NoSignal]

(* 5b: a queued entry fills at the open of a flat account that is worth    *)
(* something.                                                              *)
ExecuteEntry(r, spec, i, bar) ==
    LET dir == r.pendingEntry
        fill == bar.open + dir * Slippage
        taken == [r EXCEPT !.pendingEntry = NoDir]
    IN IF dir = NoDir THEN r
       ELSE IF r.equity <= 0 THEN taken
       ELSE IF IsOpen(r) THEN r
       ELSE IF fill > 0 THEN OpenPosition(taken, spec, dir, fill, i) ELSE taken

(* A slot is evaluated while the position is open and no close is queued   *)
(* on this bar (positionStillOpen and the break after closeNextBarOpen).   *)
Evaluates(r, spec, slot) == slot \in spec.exits /\ IsOpen(r) /\ r.pendingClose = NoSignal

(* Price of the emergency stop.                                            *)
EmergencyPrice(pos, spec) == (pos.price * (100 - pos.dir * spec.emergencyPct)) \div 100

(* Price times 1000 of the stop; it locks the gain once the first target   *)
(* has been hit on an earlier bar.                                         *)
StopPrice1000(pos, spec, i) ==
    IF pos.tp1 # Unset /\ i > pos.tp1 THEN pos.price * (1000 + pos.dir * 3)
    ELSE 1000 * (pos.price - pos.dir * pos.atr * spec.atrSL)

(* Whether the bar reaches a price against, or in favour of, a position.   *)
Falls(pos, bar, price) == IF pos.dir = Long THEN bar.low <= price ELSE bar.high >= price
Reaches(pos, bar, price) == IF pos.dir = Long THEN bar.high >= price ELSE bar.low <= price

(* Mutant of HardStop: the bar after checks the price again.               *)
HardStopRechecks(r, spec, i, bar) ==
    LET esl == EmergencyPrice(r.pos, spec)
        beyond == 1000 * r.pos.dir * bar.close <= r.pos.dir * StopPrice1000(r.pos, spec, i)
    IN IF ~ Evaluates(r, spec, "hardStop") \/ r.pos.atr = 0 THEN r
       ELSE IF Falls(r.pos, bar, esl) THEN CloseAll(r, spec, esl - r.pos.dir * Slippage, i)
       ELSE IF r.pos.triggered /\ beyond THEN [r EXCEPT !.pendingClose = "SL"]
       ELSE [r EXCEPT !.pos.triggered = beyond]

(* atrHardStop: emergency stop at once; a close beyond the stop arms the   *)
(* flag, the next bar queues the close, the bar after that fills it.       *)
HardStop(r, spec, i, bar) ==
    LET esl == EmergencyPrice(r.pos, spec)
    IN IF ~ Evaluates(r, spec, "hardStop") \/ r.pos.atr = 0 THEN r
       ELSE IF Falls(r.pos, bar, esl) THEN CloseAll(r, spec, esl - r.pos.dir * Slippage, i)
       ELSE IF r.pos.triggered
            THEN [r EXCEPT !.pos.triggered = FALSE, !.pendingClose = "SL"]
       ELSE [r EXCEPT !.pos.triggered =
                1000 * r.pos.dir * bar.close <= r.pos.dir * StopPrice1000(r.pos, spec, i)]

(* Mutant of Target: limits fill on the bar of the entry.                  *)
TargetOnEntryBar(r, spec, i, bar) ==
    LET hit == {s \in DOMAIN r.pos.subs : /\ ~ r.pos.subs[s].closed
                                          /\ r.pos.subs[s].target > 0
                                          /\ Reaches(r.pos, bar, r.pos.subs[s].target)}
        noted == IF 1 \in hit THEN [r EXCEPT !.pos.tp1 = i] ELSE r
        done == CloseSubs(noted, spec, [s \in hit |-> r.pos.subs[s].target], i)
    IN IF ~ Evaluates(r, spec, "target") THEN r
       ELSE IF AllSubsClosed(done) THEN [done EXCEPT !.pos = NoPosition] ELSE done

(* atrScaleOutTarget: every open tranche whose limit the bar reaches, not  *)
(* on the entry bar; the first one is remembered for the stop.             *)
Target(r, spec, i, bar) ==
    LET hit == {s \in DOMAIN r.pos.subs : /\ ~ r.pos.subs[s].closed
                                          /\ r.pos.subs[s].target > 0
                                          /\ Reaches(r.pos, bar, r.pos.subs[s].target)}
        noted == IF 1 \in hit THEN [r EXCEPT !.pos.tp1 = i] ELSE r
        done == CloseSubs(noted, spec, [s \in hit |-> r.pos.subs[s].target], i)
    IN IF ~ Evaluates(r, spec, "target") \/ i <= r.pos.opened THEN r
       ELSE IF AllSubsClosed(done) THEN [done EXCEPT !.pos = NoPosition] ELSE done

(* structuralExit: time, reversal or a structural break, all at the next   *)
(* open.                                                                   *)
Trail(r, spec, i, bar) ==
    LET signal == IF i - r.pos.opened >= spec.maxBars - 1 THEN "Time"
                  ELSE IF -r.pos.dir \in Signals(spec, bar) THEN "Reversal"
                  ELSE IF r.pos.dir \in bar.breaks THEN "Structural"
                  ELSE NoSignal
    IN IF Evaluates(r, spec, "trail") THEN [r EXCEPT !.pendingClose = signal] ELSE r

(* 5f: flat, or a reversal of the position whose close is queued.  Long    *)
(* comes first when both fire.                                             *)
QueueEntry(r, spec, bar) ==
    LET signals == Signals(spec, bar)
        chosen == IF Long \in signals THEN Long ELSE Short
    IN IF /\ r.pendingEntry = NoDir
          /\ r.equity > 0
          /\ signals # {}
          /\ ~ IsOpen(r) \/ (r.pendingClose # NoSignal /\ chosen = -r.pos.dir)
       THEN [r EXCEPT !.pendingEntry = chosen]
       ELSE r

(* 5g: what the account is worth at the close.                             *)
Marked(r, bar) == r.equity + 100 * OpenUnits(r) * r.pos.dir * (bar.close - r.pos.price)

(* Mutant of RunBar: the region begins after the fills of its first bar.   *)
RunBarLateSnapshot(r, spec, i, bar) ==
    LET opened == EnterRegion(ExecuteEntry(ExecuteClose(r, spec, i, bar), spec, i, bar), spec, i)
        exited == Trail(Target(HardStop(opened, spec, i, bar), spec, i, bar), spec, i, bar)
        queued == QueueEntry(exited, spec, bar)
    IN [Drawn(queued, Marked(queued, bar)) EXCEPT !.atr = bar.atr]

RunBar(r, spec, i, bar) ==
    LET opened == ExecuteEntry(ExecuteClose(EnterRegion(r, spec, i), spec, i, bar), spec, i, bar)
        exited == Trail(Target(HardStop(opened, spec, i, bar), spec, i, bar), spec, i, bar)
        queued == QueueEntry(exited, spec, bar)
    IN [Drawn(queued, Marked(queued, bar)) EXCEPT !.atr = bar.atr]

(* After the last bar, at its close.                                       *)
ForceClose(r, spec, i, bar) == IF IsOpen(r) THEN CloseAll(r, spec, bar.close, i) ELSE r

NetProfit(r) == r.equity - (IF r.base = Unset THEN InitialCapital ELSE r.base)
=============================================================================
