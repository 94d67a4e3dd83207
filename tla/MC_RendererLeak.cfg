\* A renderer whose unmount waits for its plane; no liveness is asked.
CONSTANTS
  MaxHosts = 3
  SlowRenderer = FALSE
SPECIFICATION Spec
INVARIANT LeftRendererIsDestroyed
CHECK_DEADLOCK FALSE
