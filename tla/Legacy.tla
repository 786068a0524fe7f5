------------------------------- MODULE Legacy -------------------------------
(***************************************************************************)
(* The bar step of the hardcoded strategy (engine/strategy.js), the        *)
(* reference that the composable runtime has to reproduce.  Same bars,     *)
(* costs and money as Runtime; the account g has its variables: posDir and *)
(* subs, entryPrice, entryBar, entryAtr, tp1Hit, tp1HitBar, pendingEntry   *)
(* with the ATR of the signal bar, pendingClose, and slTriggered, which    *)
(* belongs to no position.  Scores are counted from the same votes.        *)
(***************************************************************************)
EXTENDS Runtime

NoEntry == [dir |-> NoDir, atr |-> 0]

NewLegacy ==
    [equity |-> InitialCapital, dir |-> NoDir, subs |-> << >>, price |-> 0, opened |-> 0,
     atr |-> 0, tp1Hit |-> FALSE, tp1 |-> Unset, pendingEntry |-> NoEntry,
     pendingClose |-> NoSignal, slTriggered |-> FALSE,
     trades |-> 0, profit |-> 0, loss |-> 0]

(* closeSub and the flag its callers set.                                  *)
LegacyCloseSub(g, s, exit) ==
    LET pnl == Pnl([dir |-> g.dir, price |-> g.price], g.subs[s].units, exit)
    IN IF g.subs[s].closed THEN g
       ELSE [g EXCEPT !.equity = SizeMax(0, @ + pnl),
                      !.subs[s].closed = TRUE,
                      !.trades = @ + 1,
                      !.profit = IF pnl > 0 THEN @ + pnl ELSE @,
                      !.loss = IF pnl <= 0 THEN @ - pnl ELSE @]

LegacyCloseSubs(g, exits) ==
    LET done[s \in 0 .. Len(g.subs)] ==
            IF s = 0 THEN g
            ELSE IF s \in DOMAIN exits THEN LegacyCloseSub(done[s - 1], s, exits[s])
            ELSE done[s - 1]
    IN done[Len(g.subs)]

LegacyCloseAll(g, exit) ==
    [LegacyCloseSubs(g, [s \in DOMAIN g.subs |-> exit]) EXCEPT !.dir = NoDir, !.subs = << >>]

Score(bar, dir) == Cardinality({b \in DOMAIN bar.entries : dir \in bar.entries[b]})

LegacyExecuteClose(g, bar) ==
    LET done == IF g.pendingClose # NoSignal /\ g.dir # NoDir
                THEN LegacyCloseAll(g, bar.open - g.dir * Slippage) ELSE g
    IN [done EXCEPT !.pendingClose = NoSignal]

(* Risk sizing on equity; three tranches, the third gets the remainder.    *)
LegacyOpen(g, spec, entry, fill, i) ==
    LET dist == entry.atr * spec.atrSL
        base == IF spec.sizing.useInitialCapital THEN InitialCapital ELSE g.equity
        units == SizeMin((base * spec.sizing.riskPct) \div (10000 * dist),
                         Buys(base * Leverage, fill))
        first == (units * spec.targets[1].pct) \div 100
        second == (units * spec.targets[2].pct) \div 100
        Sub(n, t) == [units |-> n, mult |-> spec.targets[t].mult, closed |-> FALSE]
    IN IF dist <= 0 \/ fill <= 0 \/ units <= 0 THEN g
       ELSE [g EXCEPT !.dir = entry.dir, !.price = fill, !.opened = i, !.atr = entry.atr,
                      !.subs = << Sub(first, 1), Sub(second, 2), Sub(units - first - second, 3) >>,
                      !.tp1Hit = FALSE, !.tp1 = Unset]

LegacyExecuteEntry(g, spec, i, bar) ==
    LET entry == g.pendingEntry
        taken == [g EXCEPT !.pendingEntry = NoEntry]
    IN IF entry.dir = NoDir THEN g
       ELSE IF g.equity <= 0 THEN taken
       ELSE IF g.dir # NoDir THEN g
       ELSE LegacyOpen(taken, spec, entry, bar.open + entry.dir * Slippage, i)

(* The second step of the stop: the flag becomes a queued close.           *)
StopArmed(g) ==
    LET queued == IF g.slTriggered /\ g.dir # NoDir THEN [g EXCEPT !.pendingClose = "SL"] ELSE g
    IN [queued EXCEPT !.slTriggered = FALSE]

(* Exits 1 and 2: emergency stop, or the targets.                          *)
LegacyIntraBar(g, spec, i, bar) ==
    LET pos == [dir |-> g.dir, price |-> g.price]
        esl == EmergencyPrice(pos, spec)
        Limit(s) == g.price + g.dir * g.atr * g.subs[s].mult
        hit == {s \in DOMAIN g.subs : ~ g.subs[s].closed /\ Reaches(pos, bar, Limit(s))}
        taken == LegacyCloseSubs(IF 1 \in hit THEN [g EXCEPT !.tp1 = i] ELSE g,
                                 [s \in hit |-> Limit(s)])
        noted == [taken EXCEPT !.tp1Hit = @ \/ (taken.tp1 # Unset /\ i > taken.tp1)]
    IN IF Falls(pos, bar, esl) THEN LegacyCloseAll(g, esl - g.dir * Slippage)
       ELSE IF i = g.opened THEN g
       ELSE IF \A s \in DOMAIN noted.subs : noted.subs[s].closed
            THEN [noted EXCEPT !.dir = NoDir, !.subs = << >>]
       ELSE noted

(* Exits 3 and 4: time, or a structural break, which reverses when the     *)
(* opposite score is reached.                                              *)
LegacyDeferred(g, spec, i, bar) ==
    LET opposite == Score(bar, -g.dir) >= spec.entries.threshold
    IN IF g.dir = NoDir \/ g.pendingClose # NoSignal THEN g
       ELSE IF i - g.opened >= spec.maxBars - 1 THEN [g EXCEPT !.pendingClose = "Time"]
       ELSE IF opposite THEN [g EXCEPT !.pendingClose = "Reversal",
                                       !.pendingEntry = [dir |-> -g.dir, atr |-> bar.atr]]
       ELSE IF g.dir \in bar.breaks THEN [g EXCEPT !.pendingClose = "Structural"]
       ELSE g

(* Exit 5, the first step of the stop: a close beyond it.                  *)
LegacyStop(g, spec, bar) ==
    LET stop1000 == IF g.tp1Hit THEN g.price * (1000 + g.dir * 3)
                    ELSE 1000 * (g.price - g.dir * g.atr * spec.atrSL)
    IN [g EXCEPT !.slTriggered = @ \/ (g.dir # NoDir /\ 1000 * g.dir * bar.close <= g.dir * stop1000)]

LegacyExits(g, spec, i, bar) ==
    IF g.dir = NoDir THEN g
    ELSE LegacyStop(LegacyDeferred(LegacyIntraBar(g, spec, i, bar), spec, i, bar), spec, bar)

LegacyQueueEntry(g, spec, bar) ==
    LET Fires(dir) == Score(bar, dir) >= spec.entries.threshold
        Queued(dir) == [g EXCEPT !.pendingEntry = [dir |-> dir, atr |-> bar.atr]]
    IN IF g.dir # NoDir \/ g.pendingEntry # NoEntry \/ g.pendingClose # NoSignal \/ g.slTriggered
       THEN g
       ELSE IF Fires(Long) THEN Queued(Long)
       ELSE IF Fires(Short) THEN Queued(Short)
       ELSE g

LegacyBar(g, spec, i, bar) ==
    LET opened == LegacyExecuteEntry(LegacyExecuteClose(g, bar), spec, i, bar)
    IN LegacyQueueEntry(LegacyExits(StopArmed(opened), spec, i, bar), spec, bar)

LegacyEnd(g, bar) == IF g.dir = NoDir THEN g ELSE LegacyCloseAll(g, bar.close)
=============================================================================
