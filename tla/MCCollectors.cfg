SPECIFICATION Spec
CONSTANTS
  ReserveRowsMax = 2
  NextCap <- Doubled
  StrictUTF8Compiled = TRUE
  WellFormed <- PairsOnly
  Arrays <- AllArrays
  OptionLists <- OptionsOf
  Ids = {0, 1, 2}
  AccChunk = 1
  MaxDecodes = 2
  MaxFields <- FieldsOf
INVARIANTS
  TypeOK
  FieldInStep
  StorageOwned
PROPERTIES
  CollectsWhatArrived
  HeadersAllocateNothing
CHECK_DEADLOCK FALSE
