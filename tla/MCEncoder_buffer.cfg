SPECIFICATION FairSpec
CONSTANTS
  Cont = 32
  MaxVarintLen = 3
  TopWeight = 1024
  IDMax = 9
  ArrayMax = 8
  MaxDepth = 1
  Opts <- Lenient
  Fp32Width = 1
  Fp64Width = 2
  MaxCountLen = 2
  Forms = {"buffer"}
  Buffers = {"b1", "b3", "b4"}
  Cap <- Sizes
  EncWindow = 7
  Offsets = {0, 1}
  Calls <- AllCalls
  StrictUTF8Compiled = TRUE
  WellFormed <- No60
  MaxOps = 3
  MaxSwaps = 1
INVARIANTS
  OutputIsMessage
  FullOnlyWhenFull
  HeaderRoomKept
  ReadsAsWritten
PROPERTIES
  TakenUntouched
  WritesReturn
