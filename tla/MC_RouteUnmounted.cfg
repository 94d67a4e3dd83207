\* A recovery that finds no listener, then a mount and another loss.
CONSTANTS
  MaxPeers = 3
  MaxAttach = 5
  Environments <- Unmounted
SPECIFICATION Spec
INVARIANT HeldStreamIsOfThisPeer
CHECK_DEADLOCK FALSE
