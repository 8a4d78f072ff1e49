SPECIFICATION Spec
CONSTANTS
  Cont = 16
  MaxVarintLen = 3
  TopWeight = 256
INVARIANTS
  WordsSurvive
  TolerantAndMinimal
  ZigzagInverse
