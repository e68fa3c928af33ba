SPECIFICATION FairSpec
CONSTANTS
  Calls = {k1, k2, k3}
  None = None
  Torn = Torn
INVARIANTS
  UnansweredHurried
PROPERTIES
  ApartIsRight
  HangsOnlyByLoss
