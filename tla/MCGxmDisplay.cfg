CONSTANTS
  g1 = g1
  g2 = g2
  b1 = b1
  b2 = b2
  Drawers <- MCDrawers
  Presenters <- MCPresenters
  Drainers <- MCDrainers
  Display = display
  Buffers <- MCBuffers
  MaxPending = 3
  MaxCommands = 2
  MaxWork = 3
SPECIFICATION Spec
INVARIANTS
  CurrentIsProcessed
  NobodyOversleeps
PROPERTIES
  QueueKeepsPromise
  FramesKeepPromise
  AllWorkDone
CHECK_DEADLOCK FALSE
