------------------------------- MODULE Blocks -------------------------------
(***************************************************************************)
(* The entry, filter and regime blocks of engine/blocks/library: what each *)
(* asks of the indicator cache and what it says on a bar.                  *)
(*                                                                         *)
(* A block instance is a record of its id and its parameters.  Fractions   *)
(* are in tenths (multipliers) or percent (levels, thresholds).            *)
(***************************************************************************)
EXTENDS DataBundle

CONSTANT SqueezeBars     \* the bars a squeeze is ranked over (100)

On(tf, indicator, source, period) ==
    [tf |-> tf, indicator |-> indicator, source |-> source, period |-> period]
Base(indicator, source, period) == On(0, indicator, source, period)

IndicatorDeps(b) ==
    CASE b.id = "stochCross"        -> {Base("stoch", "close", b.stochLen)}
      [] b.id \in {"emaTrend", "maPullback"} ->
             {Base("ema", "close", b.emaFast), Base("ema", "close", b.emaSlow)}
      [] b.id = "bbSqueezeBreakout" -> {Base("sma", "close", b.bbLen), Base("stdev", "close", b.bbLen)}
      [] b.id = "rsiPullback"       -> {Base("rsi", "close", b.rsiLen)}
      [] b.id = "donchianBreakout"  -> {Base("highest", "high", b.period), Base("lowest", "low", b.period)}
      [] b.id \in {"volumeSurge", "volumeFilter"} -> {Base("sma", "volume", b.volLen)}
      [] b.id = "volatilityFloor"   -> {Base("atr", "close", b.atrLen)}
      [] b.id = "rangeRegime"       -> {Base("adx", "close", b.adxLen)}
      [] b.id = "volRegime"         -> {Base("atr", "close", b.atrLen), Base("percentrank", "close", b.rankLen)}
      [] b.id \in {"htfTrendFilter", "htfTrendRegime"} -> {On(b.htfTfMin, "ema", "close", b.maLen)}
      [] b.id = "regimeGate"        -> {}

(* collectDeps and computeDataRequirements take the union over the slots.  *)
CollectDeps(blocks) == UNION {IndicatorDeps(b) : b \in blocks}

TfCandles(bundle, tf) == IF tf = 0 THEN bundle.base ELSE bundle.htfs[tf].candles
Series(bundle, dep) == Table(Compute(TfCandles(bundle, dep.tf), dep))

Bars(bundle) == DOMAIN bundle.base.close
Silent == [long |-> FALSE, short |-> FALSE]
Either(long, short) == [long |-> long, short |-> short]

CrossBelow(k, d, b) ==
    [i \in DOMAIN k |-> Either(Ok(k[i]) /\ Crossover(k, d)[i] /\ k[i] < b.longLevel,
                              Ok(k[i]) /\ Crossunder(k, d)[i] /\ k[i] > b.shortLevel)]
SmoothedCross(k, b) == CrossBelow(k, Table(Sma(k, b.stochSmth)), b)
StochCross(bundle, b) ==
    SmoothedCross(Table(Sma(Series(bundle, Base("stoch", "close", b.stochLen)), b.stochSmth)), b)

Trend(f, s) ==
    [i \in DOMAIN f |-> Either(Ok(f[i]) /\ Ok(s[i]) /\ f[i] > s[i], Ok(f[i]) /\ Ok(s[i]) /\ f[i] < s[i])]
EmaTrend(bundle, b) ==
    Trend(Series(bundle, Base("ema", "close", b.emaFast)), Series(bundle, Base("ema", "close", b.emaSlow)))

(* The price dips to the fast average within a trend and closes back.      *)
Dips(c, f, trend) ==
    [i \in DOMAIN f |-> Either(trend[i].long /\ c.low[i] <= f[i] /\ c.close[i] > f[i],
                              trend[i].short /\ c.high[i] >= f[i] /\ c.close[i] < f[i])]
MaPullback(bundle, b) ==
    Dips(bundle.base, Series(bundle, Base("ema", "close", b.emaFast)), Table(EmaTrend(bundle, b)))

Width(basis, sd, mult) ==
    Table([i \in DOMAIN basis |->
              IF basis[i] > 0 /\ Ok(sd[i]) THEN (20 * mult * sd[i]) \div basis[i] ELSE NaN])
Ranked(width, i) == {j \in Window(i, SqueezeBars) : Ok(width[j])}
Squeeze(width, i, percentile) ==
    /\ i >= SqueezeBars /\ Ok(width[i])
    /\ 100 * Cardinality({j \in Ranked(width, i) : width[j] < width[i]})
           < percentile * Cardinality(Ranked(width, i))
Breakout(c, basis, width, b) ==
    [i \in DOMAIN basis |->
        IF Ok(basis[i]) /\ \E j \in Max({0, i - b.lookbackBars + 1}) .. i : Squeeze(width, j, b.squeezePctile)
        THEN Either(c[i] > basis[i], c[i] < basis[i]) ELSE Silent]
Bands(c, basis, sd, b) == Breakout(c, basis, Width(basis, sd, b.bbMult), b)
BbSqueezeBreakout(bundle, b) ==
    Bands(bundle.base.close, Series(bundle, Base("sma", "close", b.bbLen)),
          Series(bundle, Base("stdev", "close", b.bbLen)), b)

Reversal(r, b) ==
    [i \in DOMAIN r |->
        IF i < 1 THEN Silent ELSE IF ~Ok(r[i]) \/ ~Ok(r[i - 1]) THEN Silent
        ELSE Either(r[i - 1] <= b.longLevel /\ r[i] > b.longLevel,
                    r[i - 1] >= b.shortLevel /\ r[i] < b.shortLevel)]
RsiPullback(bundle, b) == Reversal(Series(bundle, Base("rsi", "close", b.rsiLen)), b)

(* Against the channel of the bars before this one.                        *)
Channel(c, hi, lo) ==
    [i \in DOMAIN c |->
        IF i < 1 THEN Silent ELSE IF ~Ok(hi[i - 1]) \/ ~Ok(lo[i - 1]) THEN Silent
        ELSE Either(c[i] > hi[i - 1], c[i] < lo[i - 1])]
DonchianBreakout(bundle, b) ==
    Channel(bundle.base.close, Series(bundle, Base("highest", "high", b.period)),
            Series(bundle, Base("lowest", "low", b.period)))

(* Volume against its average: the surge of an entry, the gate of a filter.*)
HeavyBars(volume, average, multiplier) ==
    {i \in DOMAIN volume : Ok(average[i]) /\ average[i] > 0 /\ 10 * volume[i] >= average[i] * multiplier}
Heavy(bundle, b) ==
    HeavyBars(bundle.base.volume, Series(bundle, Base("sma", "volume", b.volLen)), b.multiplier)
Surge(c, heavy) ==
    [i \in DOMAIN c.close |-> Either(i \in heavy /\ c.close[i] > c.open[i],
                                    i \in heavy /\ c.close[i] < c.open[i])]
VolumeSurge(bundle, b) == Surge(bundle.base, Heavy(bundle, b))
Both(bundle, passing) == [i \in Bars(bundle) |-> Either(i \in passing, i \in passing)]
VolumeFilter(bundle, b) == Both(bundle, Heavy(bundle, b))

Moving(c, a, b) == {i \in DOMAIN c : Ok(a[i]) /\ c[i] > 0 /\ 100 * a[i] >= b.minAtrPct * c[i]}
VolatilityFloor(bundle, b) ==
    Both(bundle, Moving(bundle.base.close, Series(bundle, Base("atr", "close", b.atrLen)), b))

(* No closed bar of the higher timeframe: no opinion.                      *)
Side(close, ma, h) ==
    IF h = HtfNone THEN Either(TRUE, TRUE)
    ELSE IF ~Ok(ma[h]) THEN Either(TRUE, TRUE) ELSE Either(close[h] > ma[h], close[h] < ma[h])
Sides(htf, ma) == [i \in DOMAIN htf.index |-> Side(htf.candles.close, ma, htf.index[i])]
HtfTrendFilter(bundle, b) ==
    Sides(bundle.htfs[b.htfTfMin], Series(bundle, On(b.htfTfMin, "ema", "close", b.maLen)))

Slope(now, before, threshold) ==
    CASE 100 * (now - before) > threshold * now  -> "bull"
      [] 100 * (now - before) < -threshold * now -> "bear"
      [] OTHER                                   -> "chop"
SlopeAt(ma, h, b) ==
    IF h = HtfNone \/ h < b.slopeLookback THEN "none"
    ELSE IF ~Ok(ma[h]) \/ ~Ok(ma[h - b.slopeLookback]) \/ ma[h] <= 0 THEN "none"
    ELSE Slope(ma[h], ma[h - b.slopeLookback], b.slopeThreshold)
Slopes(index, ma, b) == [i \in DOMAIN index |-> SlopeAt(ma, index[i], b)]
HtfTrendRegime(bundle, b) ==
    Slopes(bundle.htfs[b.htfTfMin].index, Series(bundle, On(b.htfTfMin, "ema", "close", b.maLen)), b)

Strength(a, b) ==
    [i \in DOMAIN a |-> IF ~Ok(a[i]) THEN "none" ELSE IF a[i] > b.adxThreshold THEN "trending" ELSE "ranging"]
RangeRegime(bundle, b) == Strength(Series(bundle, Base("adx", "close", b.adxLen)), b)

Volatility(rank, b) ==
    CASE rank > b.highThreshold * b.rankLen -> "high"
      [] rank < b.lowThreshold * b.rankLen  -> "low"
      [] OTHER                              -> "normal"
Volatilities(a, b) ==
    [i \in DOMAIN a |->
        IF i < b.rankLen \/ ~Ok(a[i]) THEN "none"
        ELSE Volatility(100 * Cardinality({j \in i - b.rankLen .. i - 1 : Ok(a[j]) /\ a[j] < a[i]}), b)]
VolRegime(bundle, b) == Volatilities(Series(bundle, Base("atr", "close", b.atrLen)), b)

(* parseSet and membership: "any" and "nothing" are sets of labels too.    *)
RegimeGate(bundle, b, labels) ==
    [i \in Bars(bundle) |-> Either(labels[i] \in b.allowedLong, labels[i] \in b.allowedShort)]

Regimes == {"htfTrendRegime", "rangeRegime", "volRegime"}
LabelsOf(bundle, regime) ==
    IF regime = {} THEN [i \in Bars(bundle) |-> "none"]
    ELSE LET b == CHOOSE x \in regime : TRUE
         IN CASE b.id = "htfTrendRegime" -> HtfTrendRegime(bundle, b)
              [] b.id = "rangeRegime"    -> RangeRegime(bundle, b)
              [] b.id = "volRegime"      -> VolRegime(bundle, b)
Labels(bundle, blocks) == LabelsOf(bundle, {b \in blocks : b.id \in Regimes})

OnBar(bundle, blocks, b) ==
    CASE b.id = "stochCross"        -> StochCross(bundle, b)
      [] b.id = "emaTrend"          -> EmaTrend(bundle, b)
      [] b.id = "maPullback"        -> MaPullback(bundle, b)
      [] b.id = "bbSqueezeBreakout" -> BbSqueezeBreakout(bundle, b)
      [] b.id = "rsiPullback"       -> RsiPullback(bundle, b)
      [] b.id = "donchianBreakout"  -> DonchianBreakout(bundle, b)
      [] b.id = "volumeSurge"       -> VolumeSurge(bundle, b)
      [] b.id = "volumeFilter"      -> VolumeFilter(bundle, b)
      [] b.id = "volatilityFloor"   -> VolatilityFloor(bundle, b)
      [] b.id = "htfTrendFilter"    -> HtfTrendFilter(bundle, b)
      [] b.id = "regimeGate"        -> RegimeGate(bundle, b, Table(Labels(bundle, blocks)))
      [] b.id \in Regimes           -> Labels(bundle, blocks)
=============================================================================
