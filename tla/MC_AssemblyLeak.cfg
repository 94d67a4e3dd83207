\* Two peers; a chunk of the first is in line when it is replaced.
CONSTANTS
  Short = {s, c}
  Long = {l}
  Closing = {c}
  MaxAssemblies = 2
  MaxBytes = 5
  MaxCompleted = 1
  MaxQueued = 2
  MaxGen = 2
  MaxSent = 3
SPECIFICATION Spec
INVARIANT AssembliesOfThisPeer
CHECK_DEADLOCK FALSE
