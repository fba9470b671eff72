CONSTANTS
  fd1 = fd1
  fd2 = fd2
  Files = {fd1, fd2}
  Cpus = {0, 1}
  Modules <- AllModules
  Openers <- AllOpeners
  Timeouts <- SomeTimeouts
  DefaultMargin = 2
  MaxMargin = 3
  HrUnit = 1
  HrWrap = 3
  HrTick = 3
  FeedMax = 4
SPECIFICATION Spec

PROPERTY StopsLiveThread
CHECK_DEADLOCK FALSE
