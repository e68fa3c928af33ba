SPECIFICATION Spec
CONSTANTS
  MaxParties = 6
  MaxCombine = 4
INVARIANTS
  EnumeratesAll
  ListsSorted
  RankIsPlace
  CombinesExactly
