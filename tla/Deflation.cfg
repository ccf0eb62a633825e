SPECIFICATION Spec
CONSTANTS
  MaxSubflows = 1
  QueueLimit = 12
  Reorder = FALSE
  MSS = 1
  SynSent <- NoSynLost
  MaxBytes = 23
  SendSize = 23
  SndBufSize = 23
  RemoteRecvWnd = 12
  InitialSsthresh = 99
  AlgoCC = "UNCOUPLED"
  CwndModulus = 64
  SpuriousTimeouts = FALSE
  RcvBufSize = 4
  ReadSize = 2
PROPERTY PartialAckDeflates
