SPECIFICATION Spec
CONSTANTS
  None = None
  Samples = {0, 1}
  Slopes = {0, 1, 3}
  Cap = 2
  Loose = 2
  Tight = 1
  NearAt = 1
  NearExtra = 1
  MinSettle = 2
  RampMargin = 0
  Wait = 2
  LowWait = 1
  LowCeiling = 1
  Grace = 1
  MaxGas = 3
  MinStep = 1
  Initial = 1
  MaxProbe = 2
  MaxStep = 2
  Hard = 2
  Growth = 2
  StepGrowth = 2
  Backoff = 2
  Budget = 3
  Window = 2
  Periods = {1, 2}
  ProbePeriod = 1
  MaxPeriod = 2
INVARIANTS StepSizingTypeOK BudgetHolds SettledIsReal LearnedIsClean SmallerAfterRatePause
