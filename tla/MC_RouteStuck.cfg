\* The attachment begun between a loss and its recovery fails.
CONSTANTS
  MaxPeers = 2
  MaxAttach = 5
  Environments <- Busy
SPECIFICATION FairSpec
PROPERTY RecoveryReattaches
CHECK_DEADLOCK FALSE
