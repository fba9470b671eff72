CONSTANTS
  Users = {0}
  N = 4
  Gap = 2
  Windows <- SomeWindows
  MaxPts = 6
SPECIFICATION Spec
PROPERTY NoOverlap
CONSTRAINT NoRaces
