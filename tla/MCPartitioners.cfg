\* The computation ends; sums of costs of 32 and more are truncated.
SPECIFICATION Spec
CONSTANTS
  MaxLen = 3
  RuleLists <- MCRuleLists
  Stride = 2
  Bucket = 1
  Huge = 10000
  CostBits = 5
  Dims <- MCDims
  DimLen <- MCDimLen
  PrefixDims = 2
  DimRules <- MCDimRules
  Step = 2
  NoCost = 1000000
  Rounds = 100
  PSRules <- MCPSRules
  NumFields = 2
  PSRange <- MCPSRange
  IntBits = 2
INVARIANTS
  RangesRight
  DimsRight
  BucketsRight
  ChoiceBest
CHECK_DEADLOCK FALSE
