------------------------ MODULE MpTcpTransferTheorems -----------------------
(***************************************************************************)
(* The properties of MpTcpTransfer as theorems: each safety property the   *)
(* runs check on small instances, for every value of the constants.        *)
(***************************************************************************)
EXTENDS MpTcpTransferProofs

-----------------------------------------------------------------------------
(* What follows from IInv in each state. *)

(* The variables have their types: the indices of the round robin and of   *)
(* the loops stay sub-flows and no counter of SendDataPacket, NewACK or    *)
(* ReceivedData goes below zero.                                           *)
THEOREM TypeCorrect == Spec => []TypeOK
<1>1. IInv => TypeOK
  BY DEF IInv
<1>2. QED
  BY <1>1, Invariance, PTL

(* What DiscardUpTo forgets, the receiver has in the stream or in          *)
(* unOrdered.                                                              *)
THEOREM DiscardedIsHeld == Spec => []NoDataLost
<1>1. IInv => NoDataLost
  <2> SUFFICES ASSUME IInv, NEW s \in Subflows,
                      NEW m \in sentDSN[s] \ mapDSN[s]
               PROVE  Holds(s, m)
    BY DEF NoDataLost
  <2>1. ~(m.ssn > highestAck[s])
    BY Recorded
  <2>2. highestAck[s] + 1 <= RxSeqNumber[s]
    BY DEF IInv, SenderInv, Progress
  <2>3. m.ssn < RxSeqNumber[s]
    BY <2>1, <2>2, SegmentTypes, NumberTypes
  <2>4. QED
    BY <2>3 DEF IInv, ReceiverInv, PassedIsHeld
<1>2. QED
  BY <1>1, Invariance, PTL

(* Whatever the paths reorder or repeat, ReceivedData meets neither its    *)
(* fatal error nor its assertion.                                          *)
THEOREM ArrivalsAreExpected == Spec => []ArrivalsMeetAssertions
<1>1. IInv => ArrivalsMeetAssertions
  <2> SUFFICES ASSUME IInv, NEW s \in Subflows,
                      NEW i \in 1 .. Len(dataPath[s])
               PROVE  LET m == dataPath[s][i] IN
                      /\ m.ssn = RxSeqNumber[s] => m.dsn >= nextRxSequence
                      /\ m.ssn > RxSeqNumber[s] => m.dsn > nextRxSequence
    BY DEF ArrivalsMeetAssertions
  <2>1. dataPath[s] \in Seq(sentDSN[s])
    BY DEF IInv, SenderInv, InTransit
  <2>2. PICK m \in sentDSN[s] : m = dataPath[s][i]
    BY <2>1
  <2>3. /\ m.ssn \in Nat /\ m.dsn \in Nat /\ Ends(m) \in Nat /\ m.ssn < Ends(m)
        /\ RxSeqNumber[s] \in Nat /\ nextRxSequence \in Nat
    BY SegmentTypes, NumberTypes
  <2>4. m.ssn = RxSeqNumber[s] => m.dsn >= nextRxSequence
    <3>1. m.dsn < nextRxSequence => Ends(m) <= RxSeqNumber[s]
      BY DEF IInv, ReceiverInv, DeliveredIsPassed
    <3>2. QED
      BY <2>3, <3>1
  <2>5. m.ssn > RxSeqNumber[s] => m.dsn > nextRxSequence
    <3>1. m.dsn <= nextRxSequence => m.ssn <= RxSeqNumber[s]
      BY NextIsReached
    <3>2. QED
      BY <2>3, <3>1
  <2>6. QED
    BY <2>2, <2>4, <2>5
<1>2. QED
  BY <1>1, Invariance, PTL

(* The walk of ReadUnOrderedData over unOrdered meets its assertions, and  *)
(* one sub-flow's entries are in one order by both numbers.                *)
THEOREM StoredIsInOrder == Spec => []StoredMeetsAssertions
<1>1. IInv => StoredMeetsAssertions
  <2> SUFFICES ASSUME IInv, NEW e \in unOrdered
               PROVE  /\ e.dsn <= nextRxSequence =>
                           e.dsn = nextRxSequence /\ e.ssn <= RxSeqNumber[e.sub]
                      /\ \A f \in unOrdered :
                           e.sub = f.sub /\ e.dsn < f.dsn => e.ssn < f.ssn
    BY DEF StoredMeetsAssertions
  <2>1. ASSUME NEW f \in unOrdered, e.sub = f.sub, e.dsn < f.dsn
        PROVE  e.ssn < f.ssn
    <3>1. PICK s \in Subflows : s = e.sub /\ s = f.sub
      BY <2>1, EntryTypes
    <3>2. PICK m \in sentDSN[s] : m = SegmentOf(e) /\ m.dsn = e.dsn /\ m.ssn = e.ssn
      BY <3>1, EntryTypes
    <3>3. PICK n \in sentDSN[s] : n = SegmentOf(f) /\ n.dsn = f.dsn /\ n.ssn = f.ssn
      BY <3>1, EntryTypes
    <3>4. /\ m.dsn \in Nat /\ m.ssn \in Nat /\ m.ssn < Ends(m) /\ Ends(m) \in Nat
          /\ n.dsn \in Nat /\ n.ssn \in Nat
          /\ n.dsn < DataEnds(n) /\ DataEnds(n) \in Nat
      BY SegmentTypes
    <3>5. m # n /\ ~(DataEnds(n) <= m.dsn)
      BY <2>1, <3>2, <3>3, <3>4
    <3>6. Ends(m) <= n.ssn
      BY <3>5 DEF IInv, SentInv, SegmentOrder
    <3>7. QED
      BY <3>2, <3>3, <3>4, <3>6
  <2>2. QED
    BY <2>1, EntryIsReached
<1>2. QED
  BY <1>1, Invariance, PTL

(* The sink's reads keep room in recvingBuffer for the segment in hand.    *)
THEOREM BufferHasRoom == Spec => []ReceiveBufferHasRoom
<1>1. IInv => ReceiveBufferHasRoom
  <2> SUFFICES ASSUME IInv PROVE ReceiveBufferHasRoom
    OBVIOUS
  <2>1. Len(recvingBuffer) <= MSS /\ (rxPhase = "idle" => recvingBuffer = << >>)
    BY DEF IInv, ReceiverInv, StreamSoFar
  <2>2. Len(recvingBuffer) \in Nat
    BY DEF IInv, TypeOK, ReceiverTypeOK
  <2>3. MSS \in Nat /\ RcvBufSize \in Nat /\ RcvBufSize >= 2 * MSS
    BY SenderAssumption, ReceiverAssumption, TransferAssumption
  <2>4. QED
    BY <2>1, <2>2, <2>3 DEF ReceiveBufferHasRoom
<1>2. QED
  BY <1>1, Invariance, PTL

LEMMA SegmentIsFound ==
  ASSUME IInv
  PROVE  RecoveryFindsSegment
<1> SUFFICES ASSUME NEW s \in Subflows
             PROVE  /\ InTimeoutRecovery(s) =>
                         \E m \in mapDSN[s] : m.ssn = TxSeqNumber[s]
                    /\ mapDSN[s] # {} =>
                         \E m \in mapDSN[s] : m.ssn = highestAck[s] + 1
  BY DEF RecoveryFindsSegment
<1>1. /\ TxSeqNumber[s] \in Nat /\ maxSeqNb[s] \in Nat /\ highestAck[s] \in Nat
      /\ highestAck[s] + 1 <= TxSeqNumber[s]
  BY NumberTypes DEF IInv, SenderInv, Progress
<1>2. Boundary(s, TxSeqNumber[s]) /\ Boundary(s, highestAck[s] + 1)
  BY DEF IInv, SenderInv, Boundaries
<1>3. ASSUME InTimeoutRecovery(s)
      PROVE  \E m \in mapDSN[s] : m.ssn = TxSeqNumber[s]
  <2>1. TxSeqNumber[s] # maxSeqNb[s] + 1
    BY <1>1, <1>3 DEF InTimeoutRecovery
  <2>2. PICK m \in sentDSN[s] : m.ssn = TxSeqNumber[s]
    BY <1>2, <2>1, SegmentAtBoundary
  <2>3. m.ssn > highestAck[s]
    BY <1>1, <2>2
  <2>4. QED
    BY <2>2, <2>3, Recorded
<1>4. ASSUME mapDSN[s] # {}
      PROVE  \E m \in mapDSN[s] : m.ssn = highestAck[s] + 1
  <2>1. PICK n \in sentDSN[s] : n.ssn > highestAck[s]
    BY <1>4, Recorded
  <2>2. n.ssn \in Nat /\ n.ssn < Ends(n) /\ Ends(n) <= maxSeqNb[s] + 1 /\ Ends(n) \in Nat
    BY SegmentTypes
  <2>3. highestAck[s] + 1 # maxSeqNb[s] + 1
    BY <1>1, <2>1, <2>2
  <2>4. PICK m \in sentDSN[s] : m.ssn = highestAck[s] + 1
    BY <1>2, <2>3, SegmentAtBoundary
  <2>5. m.ssn > highestAck[s]
    BY <1>1, <2>4
  <2>6. QED
    BY <2>4, <2>5, Recorded
<1>5. QED
  BY <1>3, <1>4

(* DoRetransmit and SendDataPacket find the segment they resend.           *)
THEOREM RecoveryFinds == Spec => []RecoveryFindsSegment
<1>1. IInv => RecoveryFindsSegment
  BY SegmentIsFound
<1>2. QED
  BY <1>1, Invariance, PTL

(* ReceivedAck and NewAckNewReno meet their assertions whatever the order  *)
(* in which the acknowledgements arrive.                                   *)
THEOREM AcksAreExpected == Spec => []AcksMeetAssertions
<1>1. IInv => AcksMeetAssertions
  <2> SUFFICES ASSUME IInv, NEW s \in Subflows,
                      NEW i \in 1 .. Len(ackPath[s])
               PROVE  LET a == ackPath[s][i] IN
                      /\ a < highestAck[s] + 1 => \A m \in mapDSN[s] : m.ssn # a
                      /\ IsPartialAck(s, a) => \E m \in Unacked(s, a) : m.ssn = a
    BY DEF AcksMeetAssertions
  <2>1. ackPath[s] \in Seq(AckNumbers(s))
    BY DEF IInv, SenderInv, InTransit
  <2>2. PICK a \in AckNumbers(s) : a = ackPath[s][i]
    BY <2>1
  <2>3. /\ highestAck[s] \in Nat /\ recover[s] \in Nat /\ maxSeqNb[s] \in Nat
        /\ RxSeqNumber[s] \in Nat
    BY NumberTypes
  <2>4. a \in Nat /\ Boundary(s, a)
    BY <2>3 DEF AckNumbers
  <2>5. a < highestAck[s] + 1 => \A m \in mapDSN[s] : m.ssn # a
    <3>1. \A m \in mapDSN[s] : m \in sentDSN[s] /\ m.ssn > highestAck[s]
      BY Recorded
    <3>2. \A m \in sentDSN[s] : m.ssn \in Nat
      BY SegmentTypes
    <3>3. QED
      BY <2>3, <2>4, <3>1, <3>2
  <2>6. ASSUME IsPartialAck(s, a)
        PROVE  \E m \in Unacked(s, a) : m.ssn = a
    <3>1. a > highestAck[s] + 1 /\ inFastRec[s] /\ a < recover[s]
      BY <2>6 DEF IsPartialAck, IsNewAck
    <3>2. recover[s] <= maxSeqNb[s] + 1
      BY <3>1 DEF IInv, SenderInv, RecoveryBounds, FastRecoveryEnds
    <3>3. PICK m \in sentDSN[s] : m.ssn = a
      BY <2>3, <2>4, <3>1, <3>2, SegmentAtBoundary
    <3>4. m.ssn > highestAck[s] /\ Ends(m) > a
      BY <2>3, <2>4, <3>1, <3>3, SegmentTypes
    <3>5. m \in mapDSN[s]
      BY <3>4, Recorded
    <3>6. QED
      BY <3>3, <3>4, <3>5 DEF Unacked
  <2>7. QED
    BY <2>2, <2>5, <2>6
<1>2. QED
  BY <1>1, Invariance, PTL

(* The acknowledgement that ends fast recovery is one still to come and    *)
(* one the receiver can send.                                              *)
THEOREM RecoverIsAhead == Spec => []FastRecoveryEnds
<1>1. IInv => FastRecoveryEnds
  BY DEF IInv, SenderInv, RecoveryBounds
<1>2. QED
  BY <1>1, Invariance, PTL

-----------------------------------------------------------------------------
(* What needs its own induction. *)

(* A step on one sub-flow is looked at on that sub-flow only.              *)
LEMMA TimedStep ==
  ASSUME IInv, OutstandingIsTimed, NEW s \in Subflows,
         mapDSN' = [mapDSN EXCEPT ![s] = mapDSN'[s]],
         retxEvent' = [retxEvent EXCEPT ![s] = retxEvent'[s]],
         mapDSN'[s] # {} => retxEvent'[s]
  PROVE  OutstandingIsTimed'
<1>1. SUFFICES ASSUME NEW t \in Subflows, mapDSN'[t] # {}
               PROVE  retxEvent'[t]
  BY DEF OutstandingIsTimed
<1>2. /\ mapDSN \in [Subflows -> SUBSET Mapping]
      /\ retxEvent \in [Subflows -> BOOLEAN]
  BY DEF IInv, TypeOK, SenderTypeOK
<1>3. CASE t = s
  BY <1>1, <1>3
<1>4. CASE t # s
  <2>1. mapDSN'[t] = mapDSN[t] /\ retxEvent'[t] = retxEvent[t]
    BY <1>2, <1>4
  <2>2. QED
    BY <1>1, <2>1 DEF OutstandingIsTimed
<1>5. QED
  BY <1>3, <1>4

LEMMA TimedSent ==
  ASSUME IInv, OutstandingIsTimed, NEW s \in Subflows,
         mapDSN' = [mapDSN EXCEPT ![s] = mapDSN'[s]],
         retxEvent' = [retxEvent EXCEPT ![s] = TRUE]
  PROVE  OutstandingIsTimed'
<1>1. retxEvent'[s] /\ retxEvent' = [retxEvent EXCEPT ![s] = retxEvent'[s]]
  BY DEF IInv, TypeOK, SenderTypeOK
<1>2. QED
  BY <1>1, TimedStep

LEMMA TimedSame ==
  ASSUME IInv, OutstandingIsTimed, UNCHANGED <<mapDSN, retxEvent>>
  PROVE  OutstandingIsTimed'
BY DEF OutstandingIsTimed

(* NewACK stops the timer only when it leaves no segment recorded.         *)
LEMMA TimedNewACK ==
  ASSUME IInv, OutstandingIsTimed, NEW s \in Subflows, NEW a, NewACK(s, a)
  PROVE  OutstandingIsTimed'
<1>1. /\ mapDSN' = [mapDSN EXCEPT ![s] = Unacked(s, a)]
      /\ retxEvent' = [retxEvent EXCEPT ![s] = ~NothingLeft(s, a)]
  BY DEF NewACK
<1>2. /\ mapDSN'[s] = Unacked(s, a)
      /\ mapDSN' = [mapDSN EXCEPT ![s] = mapDSN'[s]]
  BY <1>1 DEF IInv, TypeOK, SenderTypeOK
<1>3. /\ retxEvent'[s] = ~NothingLeft(s, a)
      /\ retxEvent' = [retxEvent EXCEPT ![s] = retxEvent'[s]]
  BY <1>1 DEF IInv, TypeOK, SenderTypeOK
<1>4. Unacked(s, a) # {} => ~NothingLeft(s, a)
  BY DEF NothingLeft
<1>5. QED
  BY <1>2, <1>3, <1>4, TimedStep

LEMMA TimedKeeps ==
  ASSUME IInv, OutstandingIsTimed, [Next]_vars
  PROVE  OutstandingIsTimed'
<1>1. mapDSN \in [Subflows -> SUBSET Mapping]
  BY DEF IInv, TypeOK, SenderTypeOK
<1>2. ASSUME NEW s \in Subflows, ResendSegment(s)
      PROVE  OutstandingIsTimed'
  <2>1. mapDSN' = mapDSN /\ retxEvent' = [retxEvent EXCEPT ![s] = TRUE]
    BY <1>2 DEF ResendSegment
  <2>2. QED
    BY <1>1, <2>1, ExceptSame, TimedSent
<1>3. ASSUME NEW s \in Subflows, NEW size, SendNewSegment(s, size)
      PROVE  OutstandingIsTimed'
  <2>1. PICK m : mapDSN' = [mapDSN EXCEPT ![s] = mapDSN[s] \cup {m}]
    BY <1>3 DEF SendNewSegment
  <2>2. mapDSN' = [mapDSN EXCEPT ![s] = mapDSN'[s]]
    BY <1>1, <2>1
  <2>3. retxEvent' = [retxEvent EXCEPT ![s] = TRUE]
    BY <1>3 DEF SendNewSegment
  <2>4. QED
    BY <2>2, <2>3, TimedSent
<1>4. CASE SendData
  BY <1>4, TimedSame DEF SendData, seqState
<1>5. CASE ResendStep
  <2>1. txFlow \in Subflows
    BY DEF IInv, TypeOK, SenderTypeOK
  <2>2. ResendSegment(txFlow) \/ UNCHANGED <<seqState, retxEvent>>
    BY <1>5 DEF ResendStep
  <2>3. QED
    BY <1>2, <2>1, <2>2, TimedSame DEF seqState
<1>6. CASE SendStep
  <2>1. PICK k \in 0 .. MaxSubflows :
          LET s == RoundRobin(lastUsedsFlowIdx, k) IN
          \/ ResendSegment(s)
          \/ SendNewSegment(s, Smaller(Window(s), MSS))
          \/ UNCHANGED <<seqState, retxEvent>>
    BY <1>6 DEF SendStep
  <2>2. RoundRobin(lastUsedsFlowIdx, k) \in Subflows
    BY RoundRobinType DEF IInv, TypeOK, SenderTypeOK
  <2>3. QED
    BY <1>2, <1>3, <2>1, <2>2, TimedSame DEF seqState
<1>7. ASSUME NEW s \in Subflows, ReceivedAck(s)
      PROVE  OutstandingIsTimed'
  <2>1. PICK i \in Leaving(ackPath[s]) :
          \/ IgnoredAck(s, i) \/ ThirdDupAck(s, i) \/ CountedDupAck(s, i)
          \/ PartialAck(s, i) \/ FullAck(s, i)
    BY <1>7 DEF ReceivedAck
  <2>2. CASE IgnoredAck(s, i)
    BY <2>2, TimedSame DEF IgnoredAck, senderVars, seqState
  <2>3. CASE ThirdDupAck(s, i)
    <3>1. mapDSN' = mapDSN /\ retxEvent' = [retxEvent EXCEPT ![s] = TRUE]
      BY <2>3 DEF ThirdDupAck
    <3>2. QED
      BY <1>1, <3>1, ExceptSame, TimedSent
  <2>4. CASE CountedDupAck(s, i)
    BY <2>4, TimedSame DEF CountedDupAck, seqState
  <2>5. CASE PartialAck(s, i)
    BY <2>5, TimedNewACK DEF PartialAck
  <2>6. CASE FullAck(s, i)
    BY <2>6, TimedNewACK DEF FullAck
  <2>7. QED
    BY <2>1, <2>2, <2>3, <2>4, <2>5, <2>6
<1>8. ASSUME NEW s \in Subflows, IdleTimeout(s)
      PROVE  OutstandingIsTimed'
  <2>1. /\ mapDSN[s] = {} /\ mapDSN' = mapDSN
        /\ retxEvent' = [retxEvent EXCEPT ![s] = FALSE]
    BY <1>8 DEF IdleTimeout, seqState
  <2>2. /\ mapDSN' = [mapDSN EXCEPT ![s] = mapDSN'[s]]
        /\ retxEvent' = [retxEvent EXCEPT ![s] = retxEvent'[s]]
    BY <1>1, <2>1, ExceptSame DEF IInv, TypeOK, SenderTypeOK
  <2>3. QED
    BY <2>1, <2>2, TimedStep
<1>9. ASSUME NEW s \in Subflows, Retransmit(s)
      PROVE  OutstandingIsTimed'
  BY <1>9, TimedSame DEF Retransmit
<1>10. CASE UNCHANGED senderVars
  BY <1>10, TimedSame DEF senderVars, seqState
<1>11. CASE SenderTurn
  BY <1>4, <1>5, <1>6, <1>7, <1>8, <1>9, <1>11 DEF SenderTurn, SenderStep
<1>12. QED
  BY <1>10, <1>11 DEF Next, ReceiverTurn, Loss, Done, vars

(* A segment in mapDSN is never left without the timer that resends it.    *)
THEOREM OutstandingTimed == Spec => []OutstandingIsTimed
<1>1. Init => OutstandingIsTimed
  BY DEF Init, SenderInit, OutstandingIsTimed
<1>2. IInv /\ OutstandingIsTimed /\ [Next]_vars => OutstandingIsTimed'
  BY TimedKeeps
<1>3. QED
  BY <1>1, <1>2, Invariance, PTL DEF Spec

(* A step on one sub-flow is looked at on that sub-flow only.              *)
LEMMA OpenStep ==
  ASSUME IInv, WindowsAreOpen, NEW s \in Subflows,
         NEW rec, NEW thresh, NEW window,
         inFastRec' = [inFastRec EXCEPT ![s] = rec],
         ssthresh' = [ssthresh EXCEPT ![s] = thresh],
         cwnd' = [cwnd EXCEPT ![s] = window],
         rec => thresh >= 2 * MSS,
         ~rec => window >= MSS
  PROVE  WindowsAreOpen'
<1>1. SUFFICES ASSUME NEW t \in Subflows
               PROVE  /\ inFastRec'[t] => ssthresh'[t] >= 2 * MSS
                      /\ ~inFastRec'[t] => cwnd'[t] >= MSS
  BY DEF WindowsAreOpen
<1>2. /\ inFastRec \in [Subflows -> BOOLEAN]
      /\ cwnd \in [Subflows -> Nat] /\ ssthresh \in [Subflows -> Nat]
  BY DEF IInv, TypeOK, SenderTypeOK
<1>3. CASE t = s
  <2>1. inFastRec'[t] = rec /\ ssthresh'[t] = thresh /\ cwnd'[t] = window
    BY <1>2, <1>3
  <2>2. QED
    BY <2>1
<1>4. CASE t # s
  <2>1. /\ inFastRec'[t] = inFastRec[t] /\ ssthresh'[t] = ssthresh[t]
        /\ cwnd'[t] = cwnd[t]
    BY <1>2, <1>4
  <2>2. QED
    BY <2>1 DEF WindowsAreOpen
<1>5. QED
  BY <1>3, <1>4

LEMMA OpenSame ==
  ASSUME WindowsAreOpen, UNCHANGED <<inFastRec, ssthresh, cwnd>>
  PROVE  WindowsAreOpen'
BY DEF WindowsAreOpen

(* In fast recovery the window may be anything.                            *)
LEMMA OpenInRecovery ==
  ASSUME IInv, WindowsAreOpen, NEW s \in Subflows, inFastRec[s], NEW window,
         UNCHANGED <<inFastRec, ssthresh>>,
         cwnd' = [cwnd EXCEPT ![s] = window]
  PROVE  WindowsAreOpen'
<1>1. /\ inFastRec \in [Subflows -> BOOLEAN] /\ ssthresh \in [Subflows -> Nat]
  BY DEF IInv, TypeOK, SenderTypeOK
<1>2. /\ inFastRec' = [inFastRec EXCEPT ![s] = TRUE]
      /\ ssthresh' = [ssthresh EXCEPT ![s] = ssthresh[s]]
  BY <1>1
<1>3. ssthresh[s] >= 2 * MSS
  BY DEF WindowsAreOpen
<1>4. QED
  BY <1>2, <1>3, OpenStep

LEMMA OpenReceivedAck ==
  ASSUME IInv, WindowsAreOpen, NEW s \in Subflows, ReceivedAck(s)
  PROVE  WindowsAreOpen'
<1>1. PICK i \in Leaving(ackPath[s]) :
        \/ IgnoredAck(s, i) \/ ThirdDupAck(s, i) \/ CountedDupAck(s, i)
        \/ PartialAck(s, i) \/ FullAck(s, i)
  BY DEF ReceivedAck
<1> DEFINE a == ackPath[s][i]
<1>2. CASE IgnoredAck(s, i)
  BY <1>2, OpenSame DEF IgnoredAck, senderVars, ccState
<1>3. CASE ThirdDupAck(s, i)
  <2>1. PICK half \in Halved(s) :
          ssthresh' = [ssthresh EXCEPT ![s] = Threshold(half)]
    BY <1>3 DEF ThirdDupAck
  <2>2. Threshold(half) >= 2 * MSS
    BY HalvedTypes
  <2>3. /\ inFastRec' = [inFastRec EXCEPT ![s] = TRUE]
        /\ cwnd' = [cwnd EXCEPT ![s] = ssthresh'[s] + 3 * MSS]
    BY <1>3 DEF ThirdDupAck
  <2>4. QED
    BY <2>1, <2>2, <2>3, OpenStep
<1>4. CASE CountedDupAck(s, i)
  <2>1. CASE inFastRec[s]
    BY <1>4, <2>1, OpenInRecovery DEF CountedDupAck
  <2>2. CASE ~inFastRec[s]
    BY <1>4, <2>2, OpenSame DEF CountedDupAck
  <2>3. QED
    BY <2>1, <2>2
<1>5. CASE PartialAck(s, i)
  BY <1>5, OpenInRecovery DEF PartialAck, IsPartialAck, NewACK
<1>6. CASE FullAck(s, i)
  <2>1. PICK added \in Added(s, Deflated(s), a - (highestAck[s] + 1)) :
          cwnd' = [cwnd EXCEPT ![s] = Deflated(s) + added]
    BY <1>6 DEF FullAck
  <2>2. a - (highestAck[s] + 1) \in Nat
    BY <1>6, AckTaken, NumberTypes DEF FullAck, IsNewAck
  <2>3. added \in Nat
    BY <2>1, <2>2, AddedTypes
  <2>4. Deflated(s) >= MSS
    BY NumberTypes, SenderAssumption DEF Deflated, Smaller, WindowsAreOpen
  <2>5. Deflated(s) + added >= MSS
    BY <2>3, <2>4, DeflatedTypes, SenderAssumption
  <2>6. ssthresh' = [ssthresh EXCEPT ![s] = ssthresh[s]]
    BY <1>6 DEF FullAck, NewACK, IInv, TypeOK, SenderTypeOK
  <2>7. inFastRec' = [inFastRec EXCEPT ![s] = FALSE]
    BY <1>6 DEF FullAck
  <2>8. QED
    BY <2>1, <2>5, <2>6, <2>7, OpenStep
<1>7. QED
  BY <1>1, <1>2, <1>3, <1>4, <1>5, <1>6

LEMMA OpenKeeps ==
  ASSUME IInv, WindowsAreOpen, [Next]_vars
  PROVE  WindowsAreOpen'
<1>1. CASE SendData
  BY <1>1, OpenSame DEF SendData, ccState
<1>2. CASE ResendStep
  BY <1>2, OpenSame DEF ResendStep, ResendSegment, ccState
<1>3. CASE SendStep
  BY <1>3, OpenSame DEF SendStep, ResendSegment, SendNewSegment, ccState
<1>4. ASSUME NEW s \in Subflows, IdleTimeout(s)
      PROVE  WindowsAreOpen'
  BY <1>4, OpenSame DEF IdleTimeout, ccState
<1>5. ASSUME NEW s \in Subflows, Retransmit(s)
      PROVE  WindowsAreOpen'
  <2>1. /\ inFastRec' = [inFastRec EXCEPT ![s] = FALSE]
        /\ ssthresh' = [ssthresh EXCEPT ![s] = Threshold(BytesInFlight(s) \div 2)]
        /\ cwnd' = [cwnd EXCEPT ![s] = MSS]
    BY <1>5 DEF Retransmit
  <2>2. MSS >= MSS
    BY SenderAssumption
  <2>3. QED
    BY <2>1, <2>2, OpenStep, Zenon
<1>6. CASE UNCHANGED senderVars
  BY <1>6, OpenSame DEF senderVars, ccState
<1>7. CASE SenderTurn
  BY <1>1, <1>2, <1>3, <1>4, <1>5, <1>7, OpenReceivedAck DEF SenderTurn, SenderStep
<1>8. QED
  BY <1>6, <1>7 DEF Next, ReceiverTurn, Loss, Done, vars

(* Outside fast recovery every window holds a segment, and a sub-flow in   *)
(* fast recovery comes out of it with such a window: no algorithm divides  *)
(* by zero, and no sub-flow is left without a window it could send with.   *)
THEOREM WindowsStayOpen == Spec => []WindowsAreOpen
<1>1. Init => WindowsAreOpen
  BY SenderAssumption DEF Init, SenderInit, WindowsAreOpen
<1>2. IInv /\ WindowsAreOpen /\ [Next]_vars => WindowsAreOpen'
  BY OpenKeeps
<1>3. QED
  BY <1>1, <1>2, Invariance, PTL DEF Spec

(* What is resent was in flight already, and what is acknowledged leaves.  *)
LEMMA FlightStays ==
  ASSUME IInv, FlightWithinWindow, IInv', UNCHANGED maxSeqNb,
         \A s \in Subflows : highestAck[s] <= highestAck'[s]
  PROVE  FlightWithinWindow'
<1>1. SUFFICES ASSUME NEW s \in Subflows
               PROVE  maxSeqNb[s] - highestAck'[s] <= RemoteRecvWnd
  BY DEF FlightWithinWindow, BytesInFlight
<1>2. maxSeqNb[s] - highestAck[s] <= RemoteRecvWnd
  BY DEF FlightWithinWindow, BytesInFlight
<1>3. maxSeqNb[s] \in Nat /\ highestAck[s] \in Nat
  BY NumberTypes
<1>4. highestAck'[s] \in Nat
  BY DEF IInv, TypeOK, SenderTypeOK
<1>5. RemoteRecvWnd \in Nat
  BY SenderAssumption
<1>6. QED
  BY <1>2, <1>3, <1>4, <1>5

LEMMA FlightSame ==
  ASSUME IInv, FlightWithinWindow, IInv', UNCHANGED <<maxSeqNb, highestAck>>
  PROVE  FlightWithinWindow'
BY FlightStays, NumberTypes

(* NewACK never lowers highestAck.                                         *)
LEMMA FlightNewACK ==
  ASSUME IInv, FlightWithinWindow, IInv', UNCHANGED maxSeqNb,
         NEW s \in Subflows, NEW a \in Nat, a > highestAck[s] + 1, NewACK(s, a)
  PROVE  FlightWithinWindow'
<1>1. highestAck' = [highestAck EXCEPT ![s] = Larger(highestAck[s], a - 1)]
  BY DEF NewACK
<1>2. highestAck \in [Subflows -> Nat]
  BY DEF IInv, TypeOK, SenderTypeOK
<1>3. Larger(highestAck[s], a - 1) = a - 1
  BY <1>2 DEF Larger
<1>4. highestAck[s] <= highestAck'[s]
  BY <1>1, <1>2, <1>3
<1>5. \A t \in Subflows : highestAck[t] <= highestAck'[t]
  <2>1. TAKE t \in Subflows
  <2>2. CASE t = s
    BY <1>4, <2>2
  <2>3. CASE t # s
    BY <1>1, <1>2, <2>3
  <2>4. QED
    BY <2>2, <2>3
<1>6. QED
  BY <1>5, FlightStays

(* A segment of at most the available window fits in the peer's window: no *)
(* new segment is sent before all that the time-out went back over has     *)
(* been resent, so what AvailableWindow counts is all that is in flight.   *)
LEMMA FlightNew ==
  ASSUME IInv, FlightWithinWindow, IInv', NEW s \in Subflows,
         ~InTimeoutRecovery(s), Window(s) > 0,
         SendNewSegment(s, Smaller(Window(s), MSS))
  PROVE  FlightWithinWindow'
<1>1. /\ maxSeqNb \in [Subflows -> Nat] /\ highestAck \in [Subflows -> Nat]
      /\ TxSeqNumber[s] \in Nat /\ cwnd[s] \in Nat /\ sendingBuffer \in Nat
      /\ maxSeqNb[s] \in Nat /\ highestAck[s] \in Nat
  BY NumberTypes DEF IInv, TypeOK, SenderTypeOK
<1>2. highestAck[s] + 1 <= TxSeqNumber[s] /\ TxSeqNumber[s] <= maxSeqNb[s] + 1
  BY DEF IInv, SenderInv, Progress
<1>3. MSS \in Nat \ {0} /\ RemoteRecvWnd \in Nat
  BY SenderAssumption
<1>4. maxSeqNb[s] = TxSeqNumber[s] - 1
  BY <1>1, <1>2 DEF InTimeoutRecovery
<1>5. PICK w \in Nat : w = AvailableWindow(s)
  BY <1>1, <1>2, <1>3 DEF AvailableWindow, Smaller
<1>6. PICK len \in Nat :
        len = Smaller(Smaller(Window(s), MSS), sendingBuffer)
  BY <1>1, <1>3, <1>5 DEF Window, Smaller
<1>7. len <= w /\ w > 0
  BY <1>1, <1>3, <1>5, <1>6 DEF Window, Smaller
<1>8. TxSeqNumber[s] - (highestAck[s] + 1) + w <= RemoteRecvWnd
  BY <1>1, <1>2, <1>3, <1>5, <1>7 DEF AvailableWindow, Smaller
<1>9. /\ maxSeqNb' = [maxSeqNb EXCEPT ![s] =
                        Larger(maxSeqNb[s], TxSeqNumber[s] + len - 1)]
      /\ highestAck' = highestAck
  <2>1. PICK m :
          /\ m = [dsn |-> nextTxSequence,
                  len |-> Smaller(Smaller(Window(s), MSS), sendingBuffer),
                  ssn |-> TxSeqNumber[s]]
          /\ maxSeqNb' = [maxSeqNb EXCEPT ![s] = Larger(maxSeqNb[s], Ends(m) - 1)]
          /\ highestAck' = highestAck
    BY DEF SendNewSegment
  <2>2. Ends(m) = TxSeqNumber[s] + len
    BY <1>6, <2>1 DEF Ends
  <2>3. Ends(m) - 1 = TxSeqNumber[s] + len - 1
    BY <1>1, <1>6, <2>2
  <2>4. QED
    BY <2>1, <2>3
<1>10. maxSeqNb'[s] = TxSeqNumber[s] + len - 1
  BY <1>1, <1>4, <1>9 DEF Larger
<1>11. SUFFICES ASSUME NEW t \in Subflows
                PROVE  maxSeqNb'[t] - highestAck[t] <= RemoteRecvWnd
  BY <1>9 DEF FlightWithinWindow, BytesInFlight
<1>12. CASE t = s
  <2>1. TxSeqNumber[s] + len - 1 - highestAck[s] <= RemoteRecvWnd
    BY <1>1, <1>3, <1>7, <1>8
  <2>2. QED
    BY <1>1, <1>10, <1>12, <2>1
<1>13. CASE t # s
  BY <1>1, <1>9, <1>13 DEF FlightWithinWindow, BytesInFlight
<1>14. QED
  BY <1>12, <1>13

LEMMA FlightKeeps ==
  ASSUME IInv, FlightWithinWindow, IInv', [Next]_vars
  PROVE  FlightWithinWindow'
<1>1. ASSUME NEW s \in Subflows, ResendSegment(s)
      PROVE  FlightWithinWindow'
  <2>1. PICK m \in mapDSN[s] :
          maxSeqNb' = [maxSeqNb EXCEPT ![s] = Larger(@, Ends(m) - 1)]
    BY <1>1 DEF ResendSegment
  <2>2. m \in sentDSN[s]
    BY Recorded
  <2>3. UNCHANGED <<maxSeqNb, highestAck>>
    BY <1>1, <2>1, <2>2, ResentIsBelowMax DEF ResendSegment
  <2>4. QED
    BY <2>3, FlightSame
<1>2. CASE SendData
  BY <1>2, FlightSame DEF SendData, seqState
<1>3. CASE ResendStep
  <2>1. txFlow \in Subflows
    BY DEF IInv, TypeOK, SenderTypeOK
  <2>2. ResendSegment(txFlow) \/ UNCHANGED seqState
    BY <1>3 DEF ResendStep
  <2>3. QED
    BY <1>1, <2>1, <2>2, FlightSame DEF seqState
<1>4. CASE SendStep
  <2>1. PICK k \in 0 .. MaxSubflows :
          /\ SearchEndsAfter(k)
          /\ LET s == RoundRobin(lastUsedsFlowIdx, k) IN
             \/ /\ k < MaxSubflows /\ s \notin SynSent
                /\ IF InTimeoutRecovery(s)
                   THEN ResendSegment(s)
                   ELSE SendNewSegment(s, Smaller(Window(s), MSS))
             \/ UNCHANGED seqState
    BY <1>4 DEF SendStep
  <2>2. PICK s \in Subflows : s = RoundRobin(lastUsedsFlowIdx, k)
    BY RoundRobinType DEF IInv, TypeOK, SenderTypeOK
  <2>3. CASE /\ k < MaxSubflows /\ s \notin SynSent /\ ~InTimeoutRecovery(s)
             /\ SendNewSegment(s, Smaller(Window(s), MSS))
    <3>1. SearchStops(k)
      BY <2>1, <2>3 DEF SearchEndsAfter
    <3>2. Window(s) > 0
      BY <2>2, <2>3, <3>1 DEF SearchStops
    <3>3. QED
      BY <2>3, <3>2, FlightNew
  <2>4. CASE ResendSegment(s)
    BY <1>1, <2>4
  <2>5. CASE UNCHANGED seqState
    BY <2>5, FlightSame DEF seqState
  <2>6. QED
    BY <2>1, <2>2, <2>3, <2>4, <2>5
<1>5. ASSUME NEW s \in Subflows, ReceivedAck(s)
      PROVE  FlightWithinWindow'
  <2>1. PICK i \in Leaving(ackPath[s]) :
          \/ IgnoredAck(s, i) \/ ThirdDupAck(s, i) \/ CountedDupAck(s, i)
          \/ PartialAck(s, i) \/ FullAck(s, i)
    BY <1>5 DEF ReceivedAck
  <2>2. PICK a \in Nat : a = ackPath[s][i]
    BY AckTaken
  <2>3. CASE IgnoredAck(s, i)
    BY <2>3, FlightSame DEF IgnoredAck, senderVars, seqState
  <2>4. CASE ThirdDupAck(s, i)
    <3>1. PICK m \in mapDSN[s] :
            maxSeqNb' = [maxSeqNb EXCEPT ![s] =
                           Larger(@, Larger(TxSeqNumber[s], Ends(m)) - 1)]
      BY <2>4 DEF ThirdDupAck, DoRetransmit
    <3>2. m \in sentDSN[s]
      BY Recorded
    <3>3. UNCHANGED <<maxSeqNb, highestAck>>
      BY <2>4, <3>1, <3>2, ResentIsBelowMax DEF ThirdDupAck, DoRetransmit
    <3>4. QED
      BY <3>3, FlightSame
  <2>5. CASE CountedDupAck(s, i)
    BY <2>5, FlightSame DEF CountedDupAck, seqState
  <2>6. CASE PartialAck(s, i)
    <3>1. PICK m \in mapDSN[s] :
            maxSeqNb' = [maxSeqNb EXCEPT ![s] =
                           Larger(@, Larger(TxSeqNumber[s], Ends(m)) - 1)]
      BY <2>6 DEF PartialAck, DoRetransmit, Unacked
    <3>2. m \in sentDSN[s]
      BY Recorded
    <3>3. UNCHANGED maxSeqNb
      BY <3>1, <3>2, ResentIsBelowMax
    <3>4. a > highestAck[s] + 1 /\ NewACK(s, a)
      BY <2>2, <2>6 DEF PartialAck, IsPartialAck, IsNewAck
    <3>5. QED
      BY <3>3, <3>4, FlightNewACK
  <2>7. CASE FullAck(s, i)
    <3>1. a > highestAck[s] + 1 /\ NewACK(s, a) /\ UNCHANGED maxSeqNb
      BY <2>2, <2>7 DEF FullAck, IsNewAck
    <3>2. QED
      BY <3>1, FlightNewACK
  <2>8. QED
    BY <2>1, <2>3, <2>4, <2>5, <2>6, <2>7
<1>6. ASSUME NEW s \in Subflows, IdleTimeout(s)
      PROVE  FlightWithinWindow'
  BY <1>6, FlightSame DEF IdleTimeout, seqState
<1>7. ASSUME NEW s \in Subflows, Retransmit(s)
      PROVE  FlightWithinWindow'
  <2>1. PICK m \in mapDSN[s] :
          maxSeqNb' = [maxSeqNb EXCEPT ![s] = Larger(@, Ends(m) - 1)]
    BY <1>7 DEF Retransmit, DoRetransmitFirst
  <2>2. m \in sentDSN[s]
    BY Recorded
  <2>3. UNCHANGED <<maxSeqNb, highestAck>>
    BY <1>7, <2>1, <2>2, ResentIsBelowMax DEF Retransmit, DoRetransmitFirst
  <2>4. QED
    BY <2>3, FlightSame
<1>8. CASE UNCHANGED senderVars
  BY <1>8, FlightSame DEF senderVars, seqState
<1>9. CASE SenderTurn
  BY <1>2, <1>3, <1>4, <1>5, <1>6, <1>7, <1>9 DEF SenderTurn, SenderStep
<1>10. QED
  BY <1>8, <1>9 DEF Next, ReceiverTurn, Loss, Done, vars

(* No sub-flow ever has more in flight than the window of the peer.        *)
THEOREM FlightIsWithinWindow == Spec => []FlightWithinWindow
<1>1. Init => FlightWithinWindow
  BY SenderAssumption DEF Init, SenderInit, FlightWithinWindow, BytesInFlight
<1>2. IInv /\ IInv' /\ FlightWithinWindow /\ [Next]_vars => FlightWithinWindow'
  BY FlightKeeps
<1>3. QED
  BY <1>1, <1>2, Invariance, PTL DEF Spec

-----------------------------------------------------------------------------
(* The transfer implements the stream. *)

(* What the sink has read is the beginning of what was written.            *)
ReadSoFar ==
  /\ Written \in Nat
  /\ Len(received) \in Nat
  /\ Len(received) <= Written
  /\ received = [i \in 1 .. Len(received) |-> i]

LEMMA ReadIsPrefix ==
  ASSUME IInv
  PROVE  ReadSoFar
<1>1. /\ received \in Seq(Nat) /\ recvingBuffer \in Seq(Nat)
      /\ nextRxSequence \in Nat /\ nextTxSequence \in Nat \ {0}
      /\ sendingBuffer \in Nat
  BY DEF IInv, TypeOK, ReceiverTypeOK, SenderTypeOK
<1>2. /\ received \o recvingBuffer = [i \in 1 .. nextRxSequence - 1 |-> i]
      /\ nextRxSequence <= nextTxSequence
  BY DEF IInv, ReceiverInv, StreamSoFar
<1>3. PICK k \in Nat : k < nextTxSequence /\ 1 .. k = 1 .. nextRxSequence - 1
  <2>1. CASE nextRxSequence = 0
    <3>1. 0 < nextTxSequence /\ 1 .. 0 = 1 .. nextRxSequence - 1
      BY <1>1, <2>1
    <3>2. QED
      BY <3>1
  <2>2. CASE nextRxSequence # 0
    <3>1. nextRxSequence - 1 \in Nat /\ nextRxSequence - 1 < nextTxSequence
      BY <1>1, <1>2, <2>2
    <3>2. QED
      BY <3>1
  <2>3. QED
    BY <2>1, <2>2
<1>4. received \o recvingBuffer = [i \in 1 .. k |-> i]
  BY <1>2, <1>3
<1>5. /\ Len(received) + Len(recvingBuffer) = k
      /\ received = [i \in 1 .. Len(received) |-> i]
  BY <1>1, <1>4, StreamPrefix
<1>6. Len(received) \in Nat /\ Len(recvingBuffer) \in Nat
  BY <1>1
<1>7. QED
  BY <1>1, <1>3, <1>5, <1>6 DEF ReadSoFar, Written

LEMMA WindowType ==
  ASSUME IInv, NEW s \in Subflows
  PROVE  Smaller(Window(s), MSS) \in Nat
<1>1. /\ TxSeqNumber[s] \in Nat /\ cwnd[s] \in Nat /\ sendingBuffer \in Nat
      /\ highestAck[s] \in Nat
  BY NumberTypes
<1>2. highestAck[s] + 1 <= TxSeqNumber[s]
  BY DEF IInv, SenderInv, Progress
<1>3. MSS \in Nat \ {0} /\ RemoteRecvWnd \in Nat
  BY SenderAssumption
<1>4. AvailableWindow(s) \in Nat
  BY <1>1, <1>2, <1>3 DEF AvailableWindow, Smaller
<1>5. QED
  BY <1>1, <1>3, <1>4 DEF Window, Smaller

(* The application's writes, and nothing else, add to what is written.     *)
LEMMA WrittenGrows ==
  ASSUME IInv, [Next]_vars
  PROVE  Written' = Written \/ (Written' \in Written + 1 .. MaxBytes
                                /\ UNCHANGED received)
<1>1. /\ nextTxSequence \in Nat \ {0} /\ sendingBuffer \in Nat
      /\ MSS \in Nat /\ MaxBytes \in Nat /\ SendSize \in Nat /\ SndBufSize \in Nat
  BY SenderAssumption DEF IInv, TypeOK, SenderTypeOK
<1>2. UNCHANGED <<nextTxSequence, sendingBuffer>> => Written' = Written
  BY DEF Written
<1>3. ASSUME SendData, UNCHANGED receiverVars
      PROVE  Written' \in Written + 1 .. MaxBytes /\ UNCHANGED received
  <2>1. PICK n \in Nat : n = Smaller(SendSize, FreeSpace) /\ n > 0
    BY <1>1, <1>3 DEF SendData, Smaller, FreeSpace
  <2>2. /\ sendingBuffer' = sendingBuffer + n /\ nextTxSequence' = nextTxSequence
        /\ nextTxSequence - 1 + sendingBuffer + n <= MaxBytes
    BY <1>3, <2>1 DEF SendData
  <2>3. UNCHANGED received
    BY <1>3 DEF receiverVars
  <2>4. QED
    BY <1>1, <2>1, <2>2, <2>3 DEF Written
<1>4. ASSUME NEW s, ResendSegment(s)
      PROVE  Written' = Written
  BY <1>2, <1>4 DEF ResendSegment
<1>5. ASSUME NEW s, NEW size \in Nat, SendNewSegment(s, size)
      PROVE  Written' = Written
  <2>1. PICK m :
          /\ m.len = Smaller(size, sendingBuffer)
          /\ sendingBuffer' = sendingBuffer - m.len
          /\ nextTxSequence' = nextTxSequence + m.len
    BY <1>5 DEF SendNewSegment
  <2>2. m.len \in Nat
    BY <1>1, <2>1 DEF Smaller
  <2>3. QED
    BY <1>1, <2>1, <2>2 DEF Written
<1>6. CASE ResendStep
  <2>1. ResendSegment(txFlow) \/ UNCHANGED <<nextTxSequence, sendingBuffer>>
    BY <1>6 DEF ResendStep, sendState
  <2>2. QED
    BY <1>2, <1>4, <2>1
<1>7. CASE SendStep
  <2>1. PICK k \in 0 .. MaxSubflows :
          LET s == RoundRobin(lastUsedsFlowIdx, k) IN
          \/ ResendSegment(s)
          \/ SendNewSegment(s, Smaller(Window(s), MSS))
          \/ UNCHANGED <<nextTxSequence, sendingBuffer>>
    BY <1>7 DEF SendStep
  <2>2. PICK s \in Subflows : s = RoundRobin(lastUsedsFlowIdx, k)
    BY RoundRobinType DEF IInv, TypeOK, SenderTypeOK
  <2>3. QED
    BY <1>2, <1>4, <1>5, <2>1, <2>2, WindowType
<1>8. ASSUME NEW s \in Subflows, ReceivedAck(s) \/ IdleTimeout(s) \/ Retransmit(s)
      PROVE  Written' = Written
  BY <1>2, <1>8 DEF ReceivedAck, IgnoredAck, ThirdDupAck, CountedDupAck,
     PartialAck, FullAck, NewACK, IdleTimeout, Retransmit, senderVars, sendState
<1>9. CASE UNCHANGED senderVars
  BY <1>2, <1>9 DEF senderVars, sendState
<1>10. CASE SenderTurn
  BY <1>3, <1>6, <1>7, <1>8, <1>10 DEF SenderTurn, SenderStep
<1>11. QED
  BY <1>9, <1>10 DEF Next, ReceiverTurn, Loss, Done, vars

(* The sink's reads add to what was read, and nothing takes from it.       *)
LEMMA ReceivedGrows ==
  ASSUME IInv, IInv', [Next]_vars
  PROVE  Len(received) <= Len(received')
<1>1. /\ received \in Seq(Nat) /\ recvingBuffer \in Seq(Nat)
      /\ received' \in Seq(Nat)
  BY DEF IInv, TypeOK, ReceiverTypeOK
<1>2. UNCHANGED received => Len(received) <= Len(received')
  BY <1>1
<1>3. ASSUME NEW bytes \in Seq(Nat), HandleRead(bytes)
      PROVE  Len(received) <= Len(received')
  <2>1. PICK f \in Seq(Nat) : received' = received \o f
    <3> DEFINE amount == IF Len(bytes) <= ReadSize THEN Len(bytes) ELSE ReadSize
    <3>0. received' = received \o SubSeq(bytes, 1, amount) /\ amount \in 0 .. Len(bytes)
      <4>1. received' = received \o SubSeq(bytes, 1, amount)
        BY <1>3 DEF HandleRead
      <4>2. Len(bytes) \in Nat /\ ReadSize \in Nat
        BY <1>3, ReceiverAssumption
      <4>3. QED
        BY <4>1, <4>2
    <3>1. PICK n \in 0 .. Len(bytes) : received' = received \o SubSeq(bytes, 1, n)
      BY <3>0
    <3>2. SubSeq(bytes, 1, n) \in Seq(Nat)
      OBVIOUS
    <3>3. QED
      BY <3>1, <3>2
  <2>2. Len(received') = Len(received) + Len(f)
    BY <1>1, <2>1, ConcatProperties
  <2>3. Len(f) \in Nat /\ Len(received) \in Nat
    BY <1>1
  <2>4. QED
    BY <2>2, <2>3
<1>4. CASE ReadStep
  <2>1. PICK e \in unOrdered : ReadEntry(e) \/ PassEntry(e)
    BY <1>4 DEF ReadStep
  <2>2. CASE PassEntry(e)
    BY <1>2, <2>2 DEF PassEntry
  <2>3. CASE ReadEntry(e)
    <3>1. BytesOf(e) \in Seq(Nat)
      BY BytesOfSeq, EntryTypes
    <3>2. recvingBuffer \o BytesOf(e) \in Seq(Nat)
      BY <1>1, <3>1, ConcatProperties
    <3>3. QED
      BY <1>3, <2>3, <3>2 DEF ReadEntry
  <2>4. QED
    BY <2>1, <2>2, <2>3
<1>5. CASE ReadDone
  BY <1>1, <1>3, <1>5 DEF ReadDone
<1>6. ASSUME NEW s \in Subflows, ReceivedData(s)
      PROVE  Len(received) <= Len(received')
  BY <1>2, <1>6 DEF ReceivedData, InOrder, AheadOfData, OutOfOrder, Duplicate
<1>7. CASE UNCHANGED receiverVars
  BY <1>2, <1>7 DEF receiverVars
<1>8. CASE ReceiverTurn
  BY <1>4, <1>5, <1>6, <1>8 DEF ReceiverTurn, ReceiverStep
<1>9. QED
  BY <1>7, <1>8 DEF Next, SenderTurn, Loss, Done, vars

(* Every step of the transfer is a write, a delivery or nothing to the     *)
(* stream.                                                                 *)
LEMMA StepImplementsStream ==
  ASSUME IInv, IInv', ReadSoFar, ReadSoFar', [Next]_vars
  PROVE  [Stream!StreamNext]_Stream!streamVars
<1>1. Len(received) <= Len(received')
  BY ReceivedGrows
<1>2. CASE Written' \in Written + 1 .. MaxBytes /\ UNCHANGED received
  BY <1>2 DEF Stream!StreamNext, Stream!Write
<1>3. CASE Written' = Written /\ received' = received
  BY <1>3 DEF Stream!streamVars
<1>4. CASE Written' = Written /\ received' # received
  <2>1. PICK n \in Nat, k \in Nat, w \in Nat :
          /\ n = Len(received') /\ k = Len(received) /\ w = Written
          /\ n <= w /\ k <= n
    BY <1>1, <1>4 DEF ReadSoFar
  <2>2. received = [i \in 1 .. k |-> i] /\ received' = [i \in 1 .. n |-> i]
    BY <2>1 DEF ReadSoFar
  <2>3. n # k
    BY <1>4, <2>2
  <2>4. n \in k + 1 .. w
    BY <2>1, <2>3
  <2>5. Stream!Deliver
    BY <1>4, <2>1, <2>2, <2>4 DEF Stream!Deliver
  <2>6. QED
    BY <2>5 DEF Stream!StreamNext
<1>5. QED
  BY <1>2, <1>3, <1>4, WrittenGrows

(* The connection is a reliable stream of bytes, whatever the number of    *)
(* sub-flows and whatever their paths lose, reorder or delay.              *)
THEOREM ImplementsStream == Spec => IsStream
<1>1. Init => Stream!StreamInit
  BY DEF Init, SenderInit, ReceiverInit, Written, Stream!StreamInit
<1>2. IInv => ReadSoFar
  BY ReadIsPrefix
<1>3. IInv /\ IInv' /\ ReadSoFar /\ ReadSoFar' /\ [Next]_vars
        => [Stream!StreamNext]_Stream!streamVars
  BY StepImplementsStream
<1>4. QED
  BY <1>1, <1>2, <1>3, Invariance, PTL DEF Spec, IsStream, Stream!StreamSpec
=============================================================================
