SPECIFICATION Spec
CONSTANTS
  Cont = 32
  MaxVarintLen = 3
  TopWeight = 1024
  IDMax = 9
  ArrayMax = 8
  MaxDepth = 2
  Opts <- NoOptions
  Fp32Width = 1
  Fp64Width = 2
  MaxCountLen = 2
  Forms = {"buffer"}
  Buffers = {"b1"}
  Cap <- Sizes
  EncWindow = 7
  Offsets = {0}
  Calls <- SequenceCalls
  StrictUTF8Compiled = TRUE
  WellFormed <- No60
  MaxOps = 6
  MaxSwaps = 0
PROPERTIES
  FirstErrorKept
