SPECIFICATION Spec
CONSTANTS
  a = a
  MaxPairings = 2
  Addresses = {a}
  Asked = {"left", "right"}
  MaxFailures = 2
  MaxStarts = 3
  MaxFaults = 1
INVARIANTS TypeOK TokensCurrent PairingAgrees SessionFollowsFile
PROPERTY CommitAfterClient
CHECK_DEADLOCK FALSE
