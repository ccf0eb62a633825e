\* The full mesh, where the first SYN+ACK may be lost.
SPECIFICATION Spec

CONSTANTS
  MaxSubflows = 2
  QueueLimit = 2
  Reorder = FALSE
  ConnRetries = 2
  PathManagers = {"FullMesh"}

INVARIANT
  LossIsSurvived
