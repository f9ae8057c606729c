CONSTANTS
  TheLayouts <- MCLayouts
  Points <- MCPoints
SPECIFICATION Spec
INVARIANTS
  CallsTypeOK
  EntryInsidePeer
  WarpOffBarrier
  RoundTrip
  EntryIsNearest
