SPECIFICATION Spec
CONSTANTS
  e = e
  a = a
  b = b
  Contents = {e, a, b}
  Chunks <- MCChunks
  NoContent = NoContent
  Window = 2
  Batch = 2
  PromptProvider = FALSE
  Copies <- LagCopies
  MaxCopies = 2
  MaxDrops = 0
PROPERTY NoEcho
CHECK_DEADLOCK FALSE
