\* Two sub-flows, three segments, reordering.
SPECIFICATION Spec

CONSTANTS
  MaxSubflows = 2
  QueueLimit = 2
  Reorder = TRUE
  MaxSegments = 3
  SpuriousTimeouts = FALSE

INVARIANTS
  TypeOK
  FinFollowsData
  CloseMeetsAssertions
  CloseHelps

PROPERTIES
  FinKeepsPlace
  IsEndedStream
