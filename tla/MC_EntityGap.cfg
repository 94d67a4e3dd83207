\* Deltas ahead of their snapshot.
CONSTANTS
  MaxGen = 2
  MaxId = 4
  MaxSeq = 2
  FaultSets <- Early
SPECIFICATION Spec
PROPERTIES GapForcesResubscription
CHECK_DEADLOCK FALSE
