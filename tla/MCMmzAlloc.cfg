CONSTANTS
  ZoneCount = 2
  Lo <- MCLo
  Hi <- MCHi
  Grain = 2
  Sizes = {1, 3, 6}
  Aligns = {0, 4}
  WordLimit = 256
SPECIFICATION Spec
INVARIANTS TypeOK BlocksDisjoint NeverBad BestFit FailOnlyIfFull
