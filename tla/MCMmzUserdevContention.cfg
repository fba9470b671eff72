CONSTANTS
  Files = {f1, f2}
  Blocks = {b1, b2}
  OSync = {f1}
  NoFile = NoFile
  NoBlock = NoBlock
  Kernel = Kernel
  MaxUserMap = 2
  MaxKernMap = 2
SPECIFICATION FairSpec
CONSTRAINT FewMappings
INVARIANTS TypeOK RefsMatchUsers LiveIffHeld
PROPERTIES KernelAttributeFixed UserAttributeFixed ImplementsPromise ReleaseTerminates
