SPECIFICATION FairSpec
CONSTANTS
  MaxCalls = 3
  DataSizes = {1, 3}
INVARIANTS
  TypeOK
  Aligned
PROPERTIES
  ImplementsCalls
  RunReturns
