SPECIFICATION Spec
CONSTANTS
  c1 = c1
  c2 = c2
  Throws = Throws
  Misread = Misread
  Dies = Dies
  Nothing = Nothing
  Lost = Lost
  Callers = {c1, c2}
  Calls <- MCCalls
  Key <- MCKey
  NodeShares <- MCShares
  KnownShares = 2
  TripletRow <- MCTriplet
  IntMax = 68
  MaxCalls = 2
INVARIANTS
  HandledAsSent
  RefusalsTold
  AnswersArrive
  TensorsSurvive
