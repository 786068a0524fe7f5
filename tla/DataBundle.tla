----------------------------- MODULE DataBundle -----------------------------
(***************************************************************************)
(* The candles of a run: optimizer/runner.js loads and cuts them,          *)
(* engine/data-bundle.js aligns the higher timeframes with the base bars,  *)
(* optimizer/walk-forward.js slices the result into windows.               *)
(*                                                                         *)
(* Time is counted in base bars.  A market is the sequence of base bars    *)
(* that the database yields, gaps included; a higher timeframe of k base   *)
(* bars has a bar for every k-aligned span in which there is data.         *)
(***************************************************************************)
EXTENDS Indicators, Sequences

CONSTANTS WarmupBars,    \* base bars loaded before the start (200)
          MinBars,       \* fewer bars are an error (100)
          OosShare       \* <<a, b>>: a/b of the bars are out of sample (1/5)

Fields == {"open", "high", "low", "close", "volume", "ts"}
Columns(bars) == [f \in Fields |-> [i \in 0 .. Len(bars) - 1 |-> bars[i + 1][f]]]

Between(bars, from, to) == SelectSeq(bars, LAMBDA b : b.ts >= from /\ b.ts <= to)

(* loadCandles for a higher timeframe, from the first minute on or after   *)
(* `from`: a span that has begun before is only summed up from there.      *)
SpanBar(bars, k, n) ==
    LET part == SelectSeq(bars, LAMBDA b : b.ts \div k = n)
        size == Len(part)
    IN [ts     |-> n * k,
        open   |-> part[1].open,
        high   |-> Max({part[j].high : j \in 1 .. size}),
        low    |-> Min({part[j].low : j \in 1 .. size}),
        close  |-> part[size].close,
        volume |-> Total([j \in 1 .. size |-> part[j].volume], 1 .. size)]
LoadCandles(market, k, from) ==
    LET bars == SelectSeq(market, LAMBDA b : b.ts >= from)
        spans == {bars[j].ts \div k : j \in 1 .. Len(bars)}
        nth(j) == CHOOSE n \in spans : Cardinality({m \in spans : m < n}) = j - 1
    IN Table([j \in 1 .. Cardinality(spans) |-> SpanBar(bars, k, nth(j))])

HtfNone == -1

(* Mutant of HtfBarIndex: the bar in progress counts as closed.            *)
HtfBarIndexForming(baseTs, htfTs, k) ==
    [i \in DOMAIN baseTs |-> Cardinality({j \in DOMAIN htfTs : htfTs[j] <= baseTs[i]}) - 1]

(* makeHtfBarIndex: the last bar of k base bars that has closed when the   *)
(* base bar opens; both lists are in the order of time.                    *)
HtfBarIndex(baseTs, htfTs, k) ==
    Table([i \in DOMAIN baseTs |-> Cardinality({j \in DOMAIN htfTs : htfTs[j] + k <= baseTs[i]}) - 1])

(* What a run over [from, to] sees; `deps` are the indicators that the     *)
(* spec may ask for with the largest parameters it allows.                 *)
HtfWarmup(deps, k) == Max({d.period : d \in {x \in deps : x.tf = k}})
StartBar(ts, from) ==
    LET traded == {i \in DOMAIN ts : ts[i] >= from}
    IN IF traded = {} THEN 0 ELSE Min(traded)
Htf(market, base, deps, k, from, to) ==
    LET candles == Columns(Between(LoadCandles(market, k, from - HtfWarmup(deps, k) * k), 0, to))
    IN [candles |-> candles, index |-> HtfBarIndex(base.ts, candles.ts, k)]
Load(market, deps, from, to) ==
    LET base == Columns(Between(market, from - WarmupBars, to))
    IN [base  |-> base,
        start |-> StartBar(base.ts, from),
        htfs  |-> [k \in {d.tf : d \in deps} \ {0} |-> Htf(market, base, deps, k, from, to)]]

(* Mutant of FirstAtOrAfter: the bar that opens on time is skipped.        *)
FirstAfter(ts, t) == Cardinality({i \in DOMAIN ts : ts[i] <= t})

FirstAtOrAfter(ts, t) == Cardinality({i \in DOMAIN ts : ts[i] < t})
Cut(s, upper) == Table([i \in {j \in DOMAIN s : j < upper} |-> s[i]])

(* loadDataBundle, which the trades of a finished run are recomputed from: *)
(* `to` is the first bar left out, and the higher timeframes go on.        *)
LoadDataBundle(market, deps, from, to) ==
    LET warmup == Max({WarmupBars} \union {d.period : d \in {x \in deps : x.tf = 0}})
        loaded == Columns(SelectSeq(market, LAMBDA b : b.ts >= from - warmup))
        base == [f \in Fields |-> Cut(loaded[f], FirstAtOrAfter(loaded.ts, to))]
        htf(k) == LET candles == Columns(LoadCandles(market, k, from - HtfWarmup(deps, k) * k))
                  IN [candles |-> candles, index |-> HtfBarIndex(base.ts, candles.ts, k)]
    IN [base  |-> base,
        start |-> FirstAtOrAfter(loaded.ts, from),
        htfs  |-> [k \in {d.tf : d \in deps} \ {0} |-> htf(k)]]

Size(bundle) == Cardinality(DOMAIN bundle.base.close)
Loads(bundle) ==
    /\ Size(bundle) >= MinBars
    /\ \A k \in DOMAIN bundle.htfs : DOMAIN bundle.htfs[k].candles.close # {}

(* Mutant of OosStep: windows are rounded up.                              *)
OosStepUp(usable, n) == (((usable * OosShare[1]) \div OosShare[2]) + n - 1) \div n

(* computeWindows.                                                         *)
OosRegion(usable) == (usable * OosShare[1]) \div OosShare[2]
OosStep(usable, n) == OosRegion(usable) \div n
HasWindows(total, warmup, n) ==
    /\ total - warmup >= 2 * n
    /\ OosStep(total - warmup, n) >= 1
    /\ OosRegion(total - warmup) < total - warmup
ComputeWindows(total, warmup, scheme, n) ==
    LET usable == total - warmup
        step == OosStep(usable, n)
        isBase == usable - OosRegion(usable)
        isStart(w) == IF scheme = "anchored" THEN warmup ELSE warmup + w * step
        isEnd(w) == warmup + isBase + w * step
    IN [w \in 0 .. n - 1 |->
           [isStart |-> isStart(w), isEnd |-> isEnd(w), oosEnd |-> Min({isEnd(w) + step, total})]]

(* sliceBundle: the base candles and the index of each higher timeframe    *)
(* end at upper; its candles stay whole.                                   *)
SliceHtfs(htfs, upper) == [k \in DOMAIN htfs |-> [htfs[k] EXCEPT !.index = Cut(@, upper)]]
SliceBundle(bundle, upper, start) ==
    [base  |-> [f \in Fields |-> Cut(bundle.base[f], upper)],
     start |-> start,
     htfs  |-> SliceHtfs(bundle.htfs, upper)]
=============================================================================
