SPECIFICATION Spec
CONSTANTS
  t1 = t1
  t2 = t2
  Threads = {t1, t2}
  Requests <- AllButPlaintextMatrices
  MaskRows <- Rows
  Modulus = 8
  Garbage = {1, 2}
  Throws = Throws
  Nothing = Nothing
  MaxCalls = 2
INVARIANTS
  MasksOnce
  DeletesWhatIsThere
  ServesWhatIsMeant
PROPERTY ImplementsService
