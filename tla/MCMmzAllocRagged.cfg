CONSTANTS
  ZoneCount = 1
  Lo <- MCLo
  Hi <- MCHi
  Grain = 1
  Sizes = {1, 2, 4}
  Aligns = {0, 4}
  WordLimit = 256
SPECIFICATION Spec
INVARIANT NeverBad
