SPECIFICATION Spec
CONSTANTS
  t1 = t1
  t2 = t2
  Threads = {t1}
  Requests <- PlaintextMatrix
  MaskRows <- Rows
  Modulus = 8
  Garbage = {1, 2}
  Throws = Throws
  Nothing = Nothing
  MaxCalls = 1
PROPERTY ImplementsService
