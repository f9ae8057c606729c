SPECIFICATION FairSpec
CONSTANTS
  x = x
  y = y
  t1 = t1
  t2 = t2
  Transfers = {t1, t2}
  Requests <- MCRequests
  Names = {x, y}
  MaxCount = 2
  MaxTotal = 3
  MaxIndex = 3
  Existing <- MCExisting
  Window = 2
  FilesChange = TRUE
  MaxFaults = 1
INVARIANTS TypeOK PublishedWhole PublishedKept CompletedIsPublished
PROPERTY SenderEnds
CHECK_DEADLOCK FALSE
