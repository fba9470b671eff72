CONSTANTS
  Users = {0, 1}
  N = 4
  Gap = 2
  Windows <- SomeWindows
  MaxPts = 6
SPECIFICATION Spec
INVARIANTS TypeOK ColumnsInStep GapKept
PROPERTIES WindowExact
