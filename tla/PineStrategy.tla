---------------------------- MODULE PineStrategy ----------------------------
(***************************************************************************)
(* The strategy that engine/pine-codegen.js writes in mode "strategy": its *)
(* script on one bar, and the orders of TradingView's broker emulator that *)
(* it relies on.  The emulator is not part of the repository; it does here *)
(* what the comments of the generator say of it: an order given on a bar's *)
(* close is filled at the next open, limits and stops are active from the  *)
(* bar after the one that placed them, and an entry against a position     *)
(* turns it round.                                                         *)
(*                                                                         *)
(* The account is the tracked position: which tranches are still held      *)
(* (tranche 0 stands for the whole of a position without tranches), what   *)
(* the script has captured of it, and the orders for the next open.        *)
(***************************************************************************)
EXTENDS Pine

NoHolding == [dir |-> NoDir, held |-> {}, entry |-> 0, atr |-> 0, opened |-> 0, working |-> FALSE,
         triggered |-> FALSE, tp1 |-> Unset, orders |-> {}, closing |-> FALSE]

Lots(spec) == IF "target" \in spec.exits /\ Tranches(spec) # << >>
              THEN DOMAIN Tranches(spec) ELSE {0}

-----------------------------------------------------------------------------
(* The emulator at the open: close_all, then the entry, unless it is in    *)
(* the direction of the position (pyramiding = 0).  The script captures    *)
(* the fill at the close of this bar, with the ATR of the bar before.      *)
Opened(spec, dir, i, bar, atr) ==
    [NoHolding EXCEPT !.dir = dir, !.held = Lots(spec), !.entry = bar.open + dir * Slippage,
                 !.atr = atr, !.opened = i]

AtOpen(q, spec, i, bar, atr) ==
    LET wanted == IF Short \in q.orders THEN Short ELSE IF Long \in q.orders THEN Long ELSE NoDir
    IN IF wanted # NoDir THEN Opened(spec, wanted, i, bar, atr)
       ELSE IF q.closing THEN NoHolding
       ELSE [q EXCEPT !.orders = {}]

(* During the bar: the stop of every strategy.exit takes what is held, the *)
(* limits take their tranche.                                              *)
StopReached(q, spec, bar) ==
    LET level == q.entry * (100 - q.dir * spec.emergencyPct)
    IN /\ q.working /\ "hardStop" \in spec.exits
       /\ IF q.dir = Long THEN 100 * bar.low <= level ELSE 100 * bar.high >= level
LimitsReached(q, spec, bar) ==
    {k \in q.held \ {0} : q.working /\
        Reaches(q, bar, q.entry + q.dir * q.atr * Tranches(spec)[k].mult)}

DuringBar(q, spec, i, bar) ==
    LET left == q.held \ LimitsReached(q, spec, bar)
    IN IF StopReached(q, spec, bar) \/ (q.dir # NoDir /\ left = {}) THEN NoHolding
       ELSE IF left # q.held /\ q.tp1 = Unset THEN [q EXCEPT !.held = left, !.tp1 = i]
       ELSE [q EXCEPT !.held = left]

-----------------------------------------------------------------------------
(* strat_qty is positive.  It is passed for a risk per trade with a hard   *)
(* stop, from whose distance it is computed; every other entry has the     *)
(* default quantity, which is 0 (default_qty_value), and opens nothing.    *)
(* The tester's equity is taken to be positive.                            *)
HasQuantity(spec, bar) ==
    /\ spec.sizing.id = "atrRisk" /\ spec.sizing.riskPct > 0
    /\ "hardStop" \in spec.exits
    /\ bar.atr * spec.atrSL > 0

(* The script at the close.  It gives its entry orders on the raw signals  *)
(* and not on those of the tracker.                                        *)
Entries(q, spec, bar) ==
    [q EXCEPT !.orders = {dir \in Raw(spec, bar) : q.dir # dir /\ HasQuantity(spec, bar)}]

(* slTriggered of the bar before: close_all. *)
DeferredClose(q) ==
    IF q.triggered /\ q.dir # NoDir THEN [q EXCEPT !.closing = TRUE, !.triggered = FALSE] ELSE q

(* strategy.exit: from the next bar on its orders are working. *)
PlaceExits(q, spec) == [q EXCEPT !.working = q.dir # NoDir]

(* Mutant of TriggerStop: breakeven counts on the bar of the fill. *)
TriggerStopAtOnce(q, spec, i, bar) ==
    LET level == IF q.tp1 # Unset THEN q.entry * (1000 + q.dir * 3)
                 ELSE 1000 * (q.entry - q.dir * q.atr * spec.atrSL)
    IN IF "hardStop" \in spec.exits /\ q.dir # NoDir /\ ~ q.triggered
       THEN [q EXCEPT !.triggered = 1000 * q.dir * bar.close <= q.dir * level]
       ELSE q

(* The close against the stop; after the first target, from the bar after  *)
(* it, the stop locks the gain.                                            *)
TriggerStop(q, spec, i, bar) ==
    LET level == IF q.tp1 # Unset /\ i > q.tp1 THEN q.entry * (1000 + q.dir * 3)
                 ELSE 1000 * (q.entry - q.dir * q.atr * spec.atrSL)
    IN IF "hardStop" \in spec.exits /\ q.dir # NoDir /\ ~ q.triggered
       THEN [q EXCEPT !.triggered = 1000 * q.dir * bar.close <= q.dir * level]
       ELSE q

(* Time and structure, independent of the tracker. *)
StructuralClose(q, spec, i, bar) ==
    IF "trail" \in spec.exits /\ q.dir # NoDir
       /\ (i - q.opened >= spec.maxBars - 1 \/ q.dir \in bar.breaks)
    THEN [q EXCEPT !.closing = TRUE] ELSE q

RunStrategy(q, spec, i, bar, atr) ==
    LET filled == DuringBar(AtOpen(q, spec, i, bar, atr), spec, i, bar)
        given == PlaceExits(DeferredClose(Entries(filled, spec, bar)), spec)
    IN StructuralClose(TriggerStop(given, spec, i, bar), spec, i, bar)
=============================================================================
