SPECIFICATION FairSpec
CONSTANTS
  MaxSubflows = 2
  QueueLimit = 2
  Reorder = FALSE
  MSS = 1
  SynSent <- SecondSynLost
  MaxBytes = 4
  SendSize = 4
  SndBufSize = 4
  RemoteRecvWnd = 4
  InitialSsthresh = 2
  AlgoCC = "RTT_Compensator"
  CwndModulus = 64
  SpuriousTimeouts = FALSE
  RcvBufSize = 4
  ReadSize = 2
PROPERTY AllDelivered
CHECK_DEADLOCK FALSE
