\* The editor, the islands, the evaluation and the ranking, one at a time.
SPECIFICATION Spec
CONSTANTS
  Registry <- MCRegistry
  Files <- MCFiles
  Typed <- MCTyped
  GeneSetups <- MCGeneSetups
  GeneScore <- MCGeneScore
  RunSetups <- MCRunSetups
  BarKinds <- MCBarKinds
  OosShare <- MCOosShare
  Islands <- MCIslands
  WorkerOf <- MCWorkerOf
  Genes <- MCGenes
  Metrics <- MCMetrics
  Config <- MCConfig
  MaxSteps = 3
  MaxBars = 7
  WarmupBars = 2
  MinBars = 2
  SqueezeBars = 2
  Modes = {"spec", "legacy"}
  MinTrades = 30
  MaxDd = 500
  TopK = 2
  MaxEntries = 2
  MaxRuns = 3
INVARIANT SaveKeepsTheSpec
INVARIANT GenesFit
PROPERTY BestSurvives
INVARIANT NoLookahead
INVARIANT WindowsTile
INVARIANT RecalcSeesTheRun
INVARIANT RankingIsComplete
\* The series of runs, the market and the clicks are bounded.
CHECK_DEADLOCK FALSE
