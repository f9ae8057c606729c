SPECIFICATION Spec
CONSTANTS
  x = x
  y = y
  t1 = t1
  t2 = t2
  Transfers = {t1}
  Requests <- EmptyRequests
  Names = {x, y}
  MaxCount = 2
  MaxTotal = 3
  MaxIndex = 3
  Existing <- MCExisting
  Window = 2
  FilesChange = FALSE
  MaxFaults = 0
INVARIANT CompletedIsPublished
CHECK_DEADLOCK FALSE
