\* Every sub-flow that sends a FIN is closed, and a deferred Close is carried
\* out.
SPECIFICATION FairSpec

CONSTANTS
  MaxSubflows = 2
  QueueLimit = 2
  Reorder = TRUE
  MaxSegments = 1
  SpuriousTimeouts = FALSE

PROPERTIES
  FinIsAnswered
  CloseOnEmpty
