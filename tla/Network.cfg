SPECIFICATION Spec
CONSTANTS
  N = 3
  T = 3
  Addrs = {a, b, c}
  Nothing = Nothing
  Refusal = Refusal
  MaxCrashes = 2
  MaxRestarts = 2
INVARIANTS
  TypeOK
  RosterNamesLists
  ViewIsPrefix
  FirstClientsDecrypt
  DecryptSound
