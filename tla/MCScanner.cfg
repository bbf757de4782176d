SPECIFICATION Spec
CONSTANTS
  Inputs <- MCInputs
  MaxText = 27
  kParallelTextThreshold = 4
  kParallelRuleThreshold = 2
  kMaxGroupDepth = 2
  MaxWord = 3
INVARIANTS
  ResultIsPromised
  FindingsComplete
  FailureSurfaces
  PrefilterSound
  CheckDigitsDecide
