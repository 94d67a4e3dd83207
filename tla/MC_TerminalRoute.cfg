\* Two peers, with the attachments a loss and a lost route can need; recoveries
\* nothing interferes with, and a view that acts at any time.
CONSTANTS
  MaxPeers = 2
  MaxAttach = 5
  Environments <- QuietAndBusy
SPECIFICATION FairSpec
INVARIANTS TypeOK LiveStreamIsHeld HeldStreamIsOfThisPeer QuietRecoveryIsClean
PROPERTIES QuietlyReattaches
CHECK_DEADLOCK FALSE
