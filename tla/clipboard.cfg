SPECIFICATION FairSpec
CONSTANTS
  e = e
  a = a
  b = b
  Contents = {e, a, b}
  Chunks <- MCChunks
  NoContent = NoContent
  Window = 2
  Batch = 2
  PromptProvider = TRUE
  Copies <- MCCopies
  MaxCopies = 3
  MaxDrops = 1
INVARIANTS TypeOK BlockOnlyOnLarge
PROPERTIES NoEcho Converges
CHECK_DEADLOCK FALSE
