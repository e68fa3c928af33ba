SPECIFICATION Spec
CONSTANTS
  N = 3
  T = 2
  Addrs = {a, b, c}
  Nothing = Nothing
  Refusal = Refusal
  MaxCrashes = 0
  MaxRestarts = 0
INVARIANT StartupDecryptSound
