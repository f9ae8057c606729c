CONSTANTS
  Layout <- LeftLayout
  ActivationYs <- HostYs
  ExitYs <- LeftExitYs
  Controls = {k}
  ReturnEdge = "Right"
  MaxActivations = 2
  MaxCaptured = 1
  MaxInFlight = 2
  MaxBarrier = 1
  MaxFaults = 0
SPECIFICATION Spec
CHECK_DEADLOCK FALSE
PROPERTY ProbeHarmless
