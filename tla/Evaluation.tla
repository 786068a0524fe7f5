----------------------------- MODULE Evaluation -----------------------------
(***************************************************************************)
(* What a gene is evaluated on: bars arrive in the market, a run loads     *)
(* them, and its walk-forward windows replay parts of them.                *)
(*                                                                         *)
(* A setup is a spec (its blocks with the largest parameters they may      *)
(* take), a gene of it (the blocks with their values) and the settings of  *)
(* the run.                                                                *)
(***************************************************************************)
EXTENDS Blocks

CONSTANTS Setups,        \* the configurations
          BarKinds,      \* open, high, low, close and volume of a bar
          MaxBars        \* bars in the market

VARIABLES setup,
          market         \* the base bars so far, oldest first

vars == <<setup, market>>

Init == setup \in Setups /\ market = << >>

(* Minutes without trades leave a gap at the times the setup names.        *)
NextTs ==
    LET last == IF market = << >> THEN -1 ELSE market[Len(market)].ts
    IN Min({t \in last + 1 .. last + 1 + Cardinality(setup.gaps) : t \notin setup.gaps})
Arrive ==
    /\ Len(market) < MaxBars
    /\ \E kind \in BarKinds :
           market' = Append(market, [f \in Fields |-> IF f = "ts" THEN NextTs ELSE kind[f]])
    /\ UNCHANGED setup

Next == Arrive
Spec == Init /\ [][Next]_vars

-----------------------------------------------------------------------------
Run(bars) == Load(bars, CollectDeps(setup.worst), setup.from, setup.to)
Windows(bundle) ==
    IF Loads(bundle) /\ HasWindows(Size(bundle), bundle.start, setup.nWindows)
    THEN ComputeWindows(Size(bundle), bundle.start, setup.scheme, setup.nWindows) ELSE << >>

(* What the blocks say on the traded bars before the end of the run.       *)
Heard(bundle) ==
    {<<bundle.base.ts[i], b, OnBar(bundle, setup.gene, b)[i]>> :
        i \in {j \in Bars(bundle) : j >= bundle.start /\ bundle.base.ts[j] < setup.to}, b \in setup.gene}

(* Nothing that a block says on a bar of a window, of either timeframe,    *)
(* depends on a bar that came after the window: it is what the block would *)
(* have said if the data had ended there.                                  *)
NoLookahead ==
    LET bundle == Run(market)
        windows == Windows(bundle)
    IN \A w \in DOMAIN windows :
           LET upper == windows[w].oosEnd
               slice == SliceBundle(bundle, upper, windows[w].isEnd)
               then == Run(SelectSeq(market, LAMBDA b : b.ts <= bundle.base.ts[upper - 1]))
           IN \A b \in setup.gene : OnBar(slice, setup.gene, b) = OnBar(then, setup.gene, b)

(* Every window fits a non-empty past before a non-empty future within the *)
(* data; the futures follow each other, equally long, without overlap; and *)
(* what the rounding leaves over is less than one bar for every window and *)
(* the region.                                                             *)
WindowsTile ==
    LET bundle == Run(market)
        windows == Windows(bundle)
        last == windows[setup.nWindows - 1]
    IN windows # << >> =>
           /\ \A w \in DOMAIN windows :
                  /\ bundle.start <= windows[w].isStart
                  /\ windows[w].isStart < windows[w].isEnd
                  /\ windows[w].isEnd < windows[w].oosEnd
                  /\ w > 0 => windows[w].isEnd = windows[w - 1].oosEnd
                  /\ windows[w].oosEnd - windows[w].isEnd = windows[0].oosEnd - windows[0].isEnd
           /\ last.oosEnd <= Size(bundle)
           /\ Size(bundle) - last.oosEnd < setup.nWindows

(* The trades of a finished run are recomputed over other candles than the *)
(* run was scored on: loaded with another warm-up, cut at another bar, the *)
(* higher timeframes not cut at all, and with what arrived since.  As long *)
(* as the run's warm-up holds every period of the base timeframe, the      *)
(* blocks say the same on every traded bar before the end date.            *)
RecalcSeesTheRun ==
    LET deps == CollectDeps(setup.worst)
        warm == \A d \in deps : d.tf = 0 => d.period <= WarmupBars
        some == \E n \in DOMAIN market : market[n].ts >= setup.from
    IN warm /\ some =>
           Heard(LoadDataBundle(market, deps, setup.from, setup.to)) = Heard(Run(market))
=============================================================================
