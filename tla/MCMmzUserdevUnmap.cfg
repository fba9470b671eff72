CONSTANTS
  Files = {f1}
  Blocks = {b1}
  OSync = {f1}
  NoFile = NoFile
  NoBlock = NoBlock
  Kernel = Kernel
  MaxUserMap = 1
  MaxKernMap = 0
SPECIFICATION Spec
INVARIANT NoInvalidRefer
