SPECIFICATION Spec
CONSTANTS
    Slippage = 2
    CommissionPct = 1
    InitialCapital = 20000
    Leverage = 2
    Bars <- MCBars
    Specs <- MCSpecs
    ChartBars <- MCChartBars
    ChartSpecs <- MCChartSpecs
INVARIANT BooksBalance
INVARIANT SameAsLegacy
INVARIANT TrackerLetsGo
INVARIANT SameAsStrategy
PROPERTY StopTakesTwoBars
\* The data end.
CHECK_DEADLOCK FALSE
