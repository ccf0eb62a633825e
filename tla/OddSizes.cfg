SPECIFICATION Spec
CONSTANTS
  MaxSubflows = 2
  QueueLimit = 2
  Reorder = TRUE
  MSS = 2
  SynSent <- NoSynLost
  MaxBytes = 7
  SendSize = 3
  SndBufSize = 4
  RemoteRecvWnd = 6
  InitialSsthresh = 2
  AlgoCC = "Fully_Coupled"
  CwndModulus = 64
  SpuriousTimeouts = TRUE
  RcvBufSize = 4
  ReadSize = 2
INVARIANT IInv
INVARIANT WindowsAreOpen
INVARIANT TimeoutHelps
INVARIANT UnsentIsTimed
