\* Both FIN+ACKs of sub-flow 0 may be lost.
SPECIFICATION Spec

CONSTANTS
  MaxSubflows = 2
  QueueLimit = 2
  Reorder = FALSE
  MaxSegments = 2
  SpuriousTimeouts = FALSE

INVARIANT
  LossCutsNothingOff
