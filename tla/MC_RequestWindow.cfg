\* Three callers, a window of one, a line of one, two replacements of the peer, with fairness.
CONSTANTS
  Requests = {r1, r2, r3}
  MaxOutstanding = 1
  MaxWaiting = 1
  MaxGen = 2
SPECIFICATION FairSpec
INVARIANTS TypeOK SlotAccounting PendingMatchesCallers NoLostWakeup CallersCanBeAnswered
PROPERTIES SettlesOnce AnswersItsRequest EveryCallSettles
CHECK_DEADLOCK FALSE
