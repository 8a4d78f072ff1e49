SPECIFICATION Spec
CONSTANTS
  AccChunk = 1
  Growth = 2
  Pieces <- AllPieces
  MaxBufs = 3
  MaxSince = 3
INVARIANTS
  TypeOK
  HandedUntouched
  AssemblesPayloads
PROPERTIES
  AllocatesWhatArrived
