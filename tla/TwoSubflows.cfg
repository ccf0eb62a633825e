SPECIFICATION FairSpec
CONSTANTS
  MaxSubflows = 2
  QueueLimit = 2
  Reorder = TRUE
  MSS = 1
  SynSent <- NoSynLost
  MaxBytes = 4
  SendSize = 4
  SndBufSize = 4
  RemoteRecvWnd = 4
  InitialSsthresh = 2
  AlgoCC = "COUPLED_INC"
  CwndModulus = 64
  SpuriousTimeouts = TRUE
  RcvBufSize = 4
  ReadSize = 2
INVARIANT TypeOK
INVARIANT NoDataLost
INVARIANT OutstandingIsTimed
INVARIANT ArrivalsMeetAssertions
INVARIANT StoredMeetsAssertions
INVARIANT ReceiveBufferHasRoom
INVARIANT RecoveryFindsSegment
PROPERTY IsStream
PROPERTY IsLiveStream
