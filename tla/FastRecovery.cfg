SPECIFICATION Spec
CONSTANTS
  MaxSubflows = 1
  QueueLimit = 6
  Reorder = TRUE
  MSS = 1
  SynSent <- NoSynLost
  MaxBytes = 10
  SendSize = 10
  SndBufSize = 10
  RemoteRecvWnd = 5
  InitialSsthresh = 9
  AlgoCC = "Uncoupled_TCPs"
  CwndModulus = 64
  SpuriousTimeouts = FALSE
  RcvBufSize = 4
  ReadSize = 2
INVARIANT AcksMeetAssertions
INVARIANT FastRecoveryEnds
INVARIANT FlightWithinWindow
