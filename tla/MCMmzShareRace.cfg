CONSTANTS
  owner = owner
  fd1 = fd1
  fd2 = fd2
  Procs = {owner, other}
  Owner = owner
  Files = {fd1, fd2}
  BlockFile = fd1
  Opener <- EachOpens
  Uses <- OwnCaller
  NoPid = NoPid
  MaxPid = 5
SPECIFICATION Spec
INVARIANT OwnerStaysListed
