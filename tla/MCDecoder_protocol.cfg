SPECIFICATION Spec
CONSTANTS
  Cont = 16
  MaxVarintLen = 3
  TopWeight = 256
  IDMax = 2
  ArrayMax = 3
  MaxDepth = 2
  Fp32Width = 1
  Fp64Width = 2
  MaxResets = 0
  PolicyVisitors = {1, 3}
  Streams <- Messages
  Answers <- AnyAnswers
INVARIANTS
  TypeOK
  ScopesCoherent
  VisitorsNested
  FieldAccounted
  PolicyBeforeStrings
PROPERTIES
  KeepsVisitorProtocol
  InvalidIsTerminal
  FeedReturns
