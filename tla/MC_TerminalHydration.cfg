\* Two attachments, one resync each, three pieces of output of which two can be held
\* back; the plane and its timer are fair, Core and the reader owe nothing.
CONSTANTS
  MaxAttach = 2
  MaxEpoch = 1
  MaxOutput = 3
  MaxPages = 1
  MaxWire = 1
  MaxPending = 2
SPECIFICATION FairSpec
INVARIANTS TypeOK HeldFollowsScreen
PROPERTIES RendererSeesPrefix HydrationEnds
CHECK_DEADLOCK FALSE
