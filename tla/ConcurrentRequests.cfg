SPECIFICATION Spec
CONSTANTS
  Threads = {t1, t2}
  N = 3
  T = 2
  MaxRequests = 3
SYMMETRY MCSymmetry
INVARIANTS
  AsksWholeSet
  IndexOfClients
  SetupCallsOrdered
