-------------------------------- MODULE Pine --------------------------------
(***************************************************************************)
(* The indicator that engine/pine-codegen.js writes for a spec and a gene: *)
(* what its script does on one bar of the chart, with the position tracker *)
(* that emitExitStateMachine puts into it.                                 *)
(* TradingView runs the script once per closed bar.                        *)
(*                                                                         *)
(* Specs, bars and the blocks' votes are those of Runtime: the templates   *)
(* of the blocks are taken to say on a bar what the blocks say.            *)
(***************************************************************************)
EXTENDS Runtime

NoTrack == [dir |-> NoDir, entry |-> 0, opened |-> 0, atr |-> 0, armed |-> FALSE, fired |-> {}]

(* What one run of the script works with: the tracked position, and why    *)
(* the bar left it, if it did.                                             *)
BarStart(track) == [track |-> track, reason |-> NoSignal]

Tracked(s) == s.track.dir # NoDir /\ s.reason = NoSignal

Exit(s, reason) == [track |-> NoTrack, reason |-> reason]
Enter(dir, bar, i) ==
    [NoTrack EXCEPT !.dir = dir, !.entry = bar.close, !.opened = i, !.atr = bar.atr]

-----------------------------------------------------------------------------
(* aggregate over directionGatedSignals: a block of the other direction    *)
(* contributes the literal false, and no block at all is false.            *)
Aggregate(slot, votes, dir) ==
    LET yes == Voters(slot, votes, dir)
    IN slot.dirs # << >> /\
       CASE slot.mode = "score" -> Cardinality(yes) >= slot.threshold
         [] slot.mode = "all"   -> yes = DOMAIN slot.dirs
         [] slot.mode = "any"   -> yes # {}

(* rawLong and rawShort. *)
Raw(spec, bar) ==
    {dir \in {Long, Short} :
        /\ Aggregate(spec.entries, bar.entries, dir)
        /\ spec.filters.dirs # << >> => Aggregate(spec.filters, bar.filters, dir)}

-----------------------------------------------------------------------------
(* (0) the stop that was armed on the bar before *)
DeferredStop(s) == IF Tracked(s) /\ s.track.armed THEN Exit(s, "SL") ELSE s

(* (1) the emergency stop, on the entry bar too *)
Emergency(s, spec, bar) ==
    LET p == s.track
        level == p.entry * (100 - p.dir * spec.emergencyPct)
        hit == IF p.dir = Long THEN 100 * bar.low <= level ELSE 100 * bar.high >= level
    IN IF "hardStop" \in spec.exits /\ Tracked(s) /\ hit THEN Exit(s, "ESL") ELSE s

(* Mutant of Targets: a tranche that has fired may fire again. *)
TargetsAgain(s, spec, bar, i) ==
    LET p == s.track
        hit == {k \in DOMAIN Tranches(spec) :
                  Reaches(p, bar, p.entry + p.dir * p.atr * Tranches(spec)[k].mult)}
    IN IF "target" \in spec.exits /\ Tracked(s) /\ i > p.opened /\ hit # {}
       THEN [s EXCEPT !.track.fired = @ \cup hit, !.reason = "TP"]
       ELSE s

(* (2) the tranches the bar reaches for the first time; the position stays *)
Targets(s, spec, bar, i) ==
    LET p == s.track
        hit == {k \in DOMAIN Tranches(spec) \ p.fired :
                  Reaches(p, bar, p.entry + p.dir * p.atr * Tranches(spec)[k].mult)}
    IN IF "target" \in spec.exits /\ Tracked(s) /\ i > p.opened /\ hit # {}
       THEN [s EXCEPT !.track.fired = @ \cup hit, !.reason = "TP"]
       ELSE s

(* (3) a close beyond the stop arms it for the next bar *)
ArmStop(s, spec, bar) ==
    LET p == s.track
        beyond == p.dir * bar.close <= p.dir * (p.entry - p.dir * p.atr * spec.atrSL)
    IN IF "hardStop" \in spec.exits /\ Tracked(s) /\ beyond
       THEN [s EXCEPT !.track.armed = TRUE] ELSE s

(* (4) reversal, time and structural break, at once; a reversal turns the  *)
(* tracked position round                                                  *)
Structural(s, spec, bar, i) ==
    LET p == s.track
        rev == -p.dir \in Raw(spec, bar)
        reason == CASE rev -> "Reversal"
                    [] i - p.opened >= spec.maxBars - 1 -> "Time"
                    [] p.dir \in bar.breaks -> "Structural"
                    [] OTHER -> NoSignal
    IN IF "trail" \notin spec.exits \/ ~ Tracked(s) \/ reason = NoSignal THEN s
       ELSE IF rev THEN [Exit(s, reason) EXCEPT !.track = Enter(-p.dir, bar, i)]
       ELSE Exit(s, reason)

(* goLong and goShort: both may be true. *)
Go(s, spec, bar) ==
    IF spec.exits = {} THEN Raw(spec, bar)
    ELSE IF s.track.dir = NoDir /\ s.reason = NoSignal THEN Raw(spec, bar)
    ELSE {}

(* (5) the entry; when both are true, the short one is tracked *)
Open(s, spec, bar, i) ==
    LET go == Go(s, spec, bar)
    IN IF spec.exits = {} \/ go = {} THEN s
       ELSE [s EXCEPT !.track = Enter(IF Short \in go THEN Short ELSE Long, bar, i)]

Script(track, spec, bar, i) ==
    Structural(ArmStop(Targets(Emergency(DeferredStop(BarStart(track)), spec, bar),
                               spec, bar, i), spec, bar), spec, bar, i)
=============================================================================
