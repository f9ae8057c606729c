CONSTANTS
  Layout <- RightLayout
  ActivationYs <- HostYs
  ExitYs <- RightExitYs
  Controls = {k}
  ReturnEdge = "Left"
  MaxActivations = 1
  MaxCaptured = 1
  MaxInFlight = 1
  MaxBarrier = 1
  MaxFaults = 2
SPECIFICATION LiveSpec
CHECK_DEADLOCK FALSE
PROPERTIES
  ExitHonoured
  InputComesBack
  ClientFreed
  Reconnects
