\* Two sub-flows, two tries for each SYN and SYN+ACK, every path manager.
SPECIFICATION FairSpec

CONSTANTS
  MaxSubflows = 2
  QueueLimit = 2
  Reorder = TRUE
  ConnRetries = 2
  PathManagers <- AllPathManagers

INVARIANTS
  TypeOK
  TokensAgree
  OtherFaultsNever

PROPERTIES
  HandshakesEnd
  IsAgreement
