CONSTANTS
  owner = owner
  fd1 = fd1
  fd2 = fd2
  Procs = {owner, child1, child2, child3, child4, child5}
  Owner = owner
  Files = {fd1, fd2}
  BlockFile = fd1
  Opener <- OneOpener
  Uses <- OneCaller
  NoPid = NoPid
  MaxPid = 5
SPECIFICATION Spec
INVARIANTS TypeOK ListExact OwnerStaysListed
