SPECIFICATION StreamingSpec
CONSTANTS
  Configs <- SmallConfigs
  Lengths = {0, 1, 3, 4}
  Inputs <- SmallInputs
  Idle = Idle
  MaxCalls = 4
  MaxFed = 3
INVARIANT AggregatesEverything
PROPERTY OkMeansEveryRecord OverLimitIsForever
CHECK_DEADLOCK FALSE
