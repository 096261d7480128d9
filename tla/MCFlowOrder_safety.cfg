\* By hand, INVARIANT NoneLost fails: a frame too large to write has its number.
SPECIFICATION Spec
CONSTANTS
  f1 = f1
  f2 = f2
  Flows <- TwoFlows
  Kinds <- WithLarge
  BufferLimit = 2
  GateCap = 2
  Skew = 2
  MaxFrames = 4
SYMMETRY FlowSymmetry
CHECK_DEADLOCK FALSE
INVARIANT InOrder GapFreeFlowsArrive
PROPERTY NothingAfterTerminal
