\* A window of two, a queue of one and three bytes; two inputs, a resize, two attachments.
CONSTANTS
  Window = 2
  MaxQueued = 1
  MaxBytes = 3
  PasteFrames = 2
  Geometries = {1}
  SendMayFail = TRUE
  MaxTyped = 2
  MaxResizes = 1
  MaxAttach = 2
  MaxResync = 1
SPECIFICATION Spec
INVARIANTS TypeOK BytesAccounted PumpIsNeverMissed FramesInOrder OutcomesAreTrue InflightIsAnswered ConsentIsCurrent
CHECK_DEADLOCK FALSE
