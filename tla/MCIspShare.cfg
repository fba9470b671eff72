CONSTANTS
  Procs = {main, p1, p2}
  NoPid = NoPid
  ShareLen = 5
SPECIFICATION Spec
INVARIANT UnshareRevokes
