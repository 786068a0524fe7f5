----------------------------- MODULE Indicators -----------------------------
(***************************************************************************)
(* engine/indicators.js and the dispatch of engine/indicator-cache.js.     *)
(*                                                                         *)
(* A series is a function from the bars 0 .. n - 1 to integers.  Divisions *)
(* round down, and so does the square root: the properties compare values  *)
(* of one formula over different series, never two formulas.               *)
(***************************************************************************)
EXTENDS Integers, FiniteSets, Functions, FiniteSetsExt, TLC

NaN == -999999
Ok(v) == v # NaN

(* f itself; TLC evaluates the two sides of a merge once.                  *)
Table(f) == f @@ << >>

Total(s, W) == FoldFunctionOnSet(+, 0, s, W)
Window(i, period) == i - period + 1 .. i
FirstValid(s) == Cardinality({i \in DOMAIN s : \A j \in 0 .. i : ~Ok(s[j])})
Abs(v) == IF v < 0 THEN -v ELSE v

Sma(s, period) ==
    [i \in DOMAIN s |->
        CASE period = 1                     -> s[i]
          [] i < FirstValid(s) + period - 1 -> NaN
          [] OTHER                          -> Total(s, Window(i, period)) \div period]

(* Seeded with the average of the first period values.                     *)
Ema(s, period) ==
    LET seed == FirstValid(s) + period - 1
        out[i \in DOMAIN s] ==
            CASE i < seed -> NaN
              [] i = seed -> Total(s, Window(i, period)) \div period
              [] OTHER    -> (2 * s[i] + (period - 1) * out[i - 1]) \div (period + 1)
    IN Table(out)

(* Wilder's average of x, seeded at bar `seed` with the plain average of   *)
(* the period values that end there.                                       *)
Wilder(x, period, seed) ==
    LET out[i \in DOMAIN x] ==
            CASE i < seed -> NaN
              [] i = seed -> Total(x, Window(i, period)) \div period
              [] OTHER    -> (out[i - 1] * (period - 1) + x[i]) \div period
    IN Table(out)

Share(gain, loss) == IF loss = 0 THEN 100 ELSE (100 * gain) \div (gain + loss)
Rsi(s, period) ==
    LET change(i) == IF i = 0 THEN 0 ELSE s[i] - s[i - 1]
        gain == Wilder([i \in DOMAIN s |-> Max({change(i), 0})], period, period)
        loss == Wilder([i \in DOMAIN s |-> Max({-change(i), 0})], period, period)
    IN [i \in DOMAIN s |-> IF i < period THEN NaN ELSE Share(gain[i], loss[i])]

Highest(s, period) ==
    [i \in DOMAIN s |-> IF i < period - 1 THEN NaN ELSE Max({s[j] : j \in Window(i, period)})]
Lowest(s, period) ==
    [i \in DOMAIN s |-> IF i < period - 1 THEN NaN ELSE Min({s[j] : j \in Window(i, period)})]

Within(close, hh, ll) ==
    CASE ~Ok(hh)  -> NaN
      [] hh > ll  -> ((close - ll) * 100) \div (hh - ll)
      [] OTHER    -> 50
Stoch(c, period) ==
    LET hh == Table(Highest(c.high, period))
        ll == Table(Lowest(c.low, period))
    IN [i \in DOMAIN c.close |-> Within(c.close[i], hh[i], ll[i])]

TrueRange(c) ==
    Table([i \in DOMAIN c.close |->
        IF i = 0 THEN c.high[i] - c.low[i]
        ELSE Max({c.high[i] - c.low[i], Abs(c.high[i] - c.close[i - 1]), Abs(c.low[i] - c.close[i - 1])})])

Atr(c, period) == Wilder(TrueRange(c), period, period - 1)

Root(v) == CHOOSE r \in 0 .. v : r * r <= v /\ (r + 1) * (r + 1) > v
Deviation(s, window, avg) ==
    IF ~Ok(avg) THEN NaN
    ELSE Root(Total([j \in window |-> (s[j] - avg) * (s[j] - avg)], window) \div Cardinality(window))
Stdev(s, period) ==
    LET avg == Table(Sma(s, period))
    IN [i \in DOMAIN s |-> Deviation(s, Window(i, period), avg[i])]

Percentrank(s, period) ==
    [i \in DOMAIN s |-> IF i < period THEN NaN
                        ELSE (100 * Cardinality({j \in i - period .. i - 1 : s[j] < s[i]})) \div period]

(* Directional movement, smoothed three times over.  dx is NaN on a bar    *)
(* without movement; the average then keeps its value.                     *)
Smoothed(x, period) ==
    LET sm[i \in DOMAIN x] ==
            IF i <= period THEN Total(x, 1 .. i)
            ELSE sm[i - 1] - (sm[i - 1] \div period) + x[i]
    IN Table(sm)
Up(c, i) == IF i = 0 THEN 0 ELSE c.high[i] - c.high[i - 1]
Down(c, i) == IF i = 0 THEN 0 ELSE c.low[i - 1] - c.low[i]
Larger(move, other) == IF move > other /\ move > 0 THEN move ELSE 0
PlusDm(c) == [i \in DOMAIN c.close |-> Larger(Up(c, i), Down(c, i))]
MinusDm(c) == [i \in DOMAIN c.close |-> Larger(Down(c, i), Up(c, i))]
Di(dm, tr) == IF tr > 0 THEN (100 * dm) \div tr ELSE 0
Spread(plus, minus) ==
    IF plus + minus = 0 THEN NaN ELSE (100 * Abs(plus - minus)) \div (plus + minus)
Dx(tr, plus, minus, period) ==
    Table([i \in DOMAIN tr |-> IF i < period THEN NaN ELSE Spread(Di(plus[i], tr[i]), Di(minus[i], tr[i]))])
Seeded(dx, seeds, first, period) ==
    LET out[i \in DOMAIN dx] ==
            CASE i < first \/ seeds = {} -> NaN
              [] i = first               -> Total(dx, seeds) \div Cardinality(seeds)
              [] OTHER -> IF ~Ok(dx[i]) THEN out[i - 1] ELSE (out[i - 1] * (period - 1) + dx[i]) \div period
    IN Table(out)
AdxOf(dx, period) ==
    Seeded(dx, {i \in period .. 2 * period - 1 : Ok(dx[i])}, 2 * period - 1, period)
Adx(c, period) ==
    AdxOf(Dx(Smoothed(TrueRange(c), period), Smoothed(PlusDm(c), period), Smoothed(MinusDm(c), period), period),
          period)

Crossover(a, b) ==
    [i \in DOMAIN a |-> /\ i > 0 /\ Ok(a[i]) /\ Ok(b[i]) /\ Ok(a[i - 1]) /\ Ok(b[i - 1])
                        /\ a[i] > b[i] /\ a[i - 1] <= b[i - 1]]
Crossunder(a, b) == Crossover([i \in DOMAIN a |-> IF Ok(a[i]) THEN -a[i] ELSE NaN],
                              [i \in DOMAIN b |-> IF Ok(b[i]) THEN -b[i] ELSE NaN])

(* buildIndicatorCache for one dependency over the candles of its          *)
(* timeframe.  A dependency is its own key.                                *)
Compute(c, dep) ==
    CASE dep.indicator = "sma"         -> Sma(c[dep.source], dep.period)
      [] dep.indicator = "ema"         -> Ema(c[dep.source], dep.period)
      [] dep.indicator = "rsi"         -> Rsi(c[dep.source], dep.period)
      [] dep.indicator = "stdev"       -> Stdev(c[dep.source], dep.period)
      [] dep.indicator = "percentrank" -> Percentrank(c[dep.source], dep.period)
      [] dep.indicator = "highest"     -> Highest(c[dep.source], dep.period)
      [] dep.indicator = "lowest"      -> Lowest(c[dep.source], dep.period)
      [] dep.indicator = "stoch"       -> Stoch(c, dep.period)
      [] dep.indicator = "atr"         -> Atr(c, dep.period)
      [] dep.indicator = "adx"         -> Adx(c, dep.period)
=============================================================================
