----------------------- MODULE MpTcpTransferProgress ------------------------
(***************************************************************************)
(* Why a transfer never comes to a standstill, as far as that is a matter  *)
(* of states: in every state in which bytes are still owed to the reader,  *)
(* a timer is running, and the segment it would resend brings the transfer *)
(* on.  That the timer does fire and that a path lets something through in *)
(* the end is fairness, which TLC checks with IsLiveStream.                *)
(*                                                                         *)
(* The argument: the data numbers of the segments leave no gap             *)
(* (DataBoundaries), so the reader's next byte begins a segment; that      *)
(* segment is not held by the receiver and was never discarded, so it is   *)
(* recorded on its sub-flow and timed; and what its sub-flow has not got   *)
(* acknowledged before it, the receiver has.                               *)
(***************************************************************************)
EXTENDS MpTcpTransferTheorems

-----------------------------------------------------------------------------
(* No byte is left out. *)

LEMMA BoundariesSame ==
  ASSUME DataBoundaries, UNCHANGED <<nextTxSequence, sentDSN, nextRxSequence>>
  PROVE  DataBoundaries'
BY DEF DataBoundaries, DataBoundary, DataEnds

(* The receiver's next byte moves to the end of a segment.                 *)
LEMMA BoundariesDelivered ==
  ASSUME IInv, DataBoundaries, UNCHANGED <<nextTxSequence, sentDSN>>,
         NEW s \in Subflows, NEW m \in sentDSN[s],
         m.dsn = nextRxSequence, nextRxSequence' = nextRxSequence + m.len
  PROVE  DataBoundaries'
<1>1. nextRxSequence' = DataEnds(m)
  BY DEF DataEnds
<1>2. DataBoundary(DataEnds(m))
  BY DEF DataBoundaries
<1>3. QED
  BY <1>1, <1>2 DEF DataBoundaries, DataBoundary, DataEnds

(* A new segment begins where the last one ended.                          *)
LEMMA BoundariesSent ==
  ASSUME IInv, DataBoundaries, NEW s \in Subflows, NEW size \in Nat,
         SendNewSegment(s, size), UNCHANGED nextRxSequence
  PROVE  DataBoundaries'
<1>1. sentDSN \in [Subflows -> SUBSET Mapping]
  BY DEF IInv, TypeOK, SenderTypeOK
<1>2. PICK m :
        /\ m.dsn = nextTxSequence
        /\ nextTxSequence' = nextTxSequence + m.len
        /\ sentDSN' = [sentDSN EXCEPT ![s] = @ \cup {m}]
  BY DEF SendNewSegment
<1>3. /\ sentDSN'[s] = sentDSN[s] \cup {m}
      /\ \A t \in Subflows : sentDSN[t] \subseteq sentDSN'[t]
      /\ \A t \in Subflows : \A n \in sentDSN'[t] : n \in sentDSN[t] \/ n = m
  BY <1>1, <1>2
<1>4. ASSUME NEW d, DataBoundary(d)
      PROVE  DataBoundary(d)'
  <2>1. CASE d = nextTxSequence
    BY <1>2, <1>3, <2>1 DEF DataBoundary
  <2>2. CASE \E t \in Subflows : \E n \in sentDSN[t] : n.dsn = d
    BY <1>3, <2>2 DEF DataBoundary
  <2>3. QED
    BY <1>4, <2>1, <2>2 DEF DataBoundary
<1>5. DataBoundary(nextRxSequence)'
  <2>1. DataBoundary(nextRxSequence)
    BY DEF DataBoundaries
  <2>2. QED
    BY <2>1, <1>4 DEF DataBoundary
<1>6. ASSUME NEW t \in Subflows, NEW n \in sentDSN'[t]
      PROVE  DataBoundary(DataEnds(n))'
  <2>1. CASE n \in sentDSN[t]
    <3>1. DataBoundary(DataEnds(n))
      BY <2>1 DEF DataBoundaries
    <3>2. QED
      BY <3>1, <1>4 DEF DataBoundary, DataEnds
  <2>2. CASE n = m
    BY <1>2, <2>2 DEF DataBoundary, DataEnds
  <2>3. QED
    BY <1>3, <2>1, <2>2
<1>7. QED
  BY <1>5, <1>6 DEF DataBoundaries

LEMMA BoundariesKeep ==
  ASSUME IInv, DataBoundaries, [Next]_vars
  PROVE  DataBoundaries'
<1>1. CASE UNCHANGED <<sendState, seqState, receiverVars>>
  BY <1>1, BoundariesSame DEF sendState, seqState, receiverVars
<1>2. ASSUME NEW s, ResendSegment(s), UNCHANGED receiverVars
      PROVE  DataBoundaries'
  BY <1>2, BoundariesSame DEF ResendSegment, receiverVars
<1>3. CASE SendData /\ UNCHANGED receiverVars
  BY <1>3, BoundariesSame DEF SendData, seqState, receiverVars
<1>4. CASE ResendStep /\ UNCHANGED receiverVars
  BY <1>1, <1>2, <1>4 DEF ResendStep
<1>5. CASE SendStep /\ UNCHANGED receiverVars
  <2>1. PICK k \in 0 .. MaxSubflows :
          LET s == RoundRobin(lastUsedsFlowIdx, k) IN
          \/ ResendSegment(s)
          \/ SendNewSegment(s, Smaller(Window(s), MSS))
          \/ UNCHANGED <<nextTxSequence, seqState>>
    BY <1>5 DEF SendStep
  <2>2. PICK s \in Subflows : s = RoundRobin(lastUsedsFlowIdx, k)
    BY RoundRobinType DEF IInv, TypeOK, SenderTypeOK
  <2>3. CASE ResendSegment(s)
    BY <1>2, <1>5, <2>3
  <2>4. CASE SendNewSegment(s, Smaller(Window(s), MSS))
    BY <1>5, <2>4, WindowType, BoundariesSent DEF receiverVars
  <2>5. CASE UNCHANGED <<nextTxSequence, seqState>>
    BY <1>5, <2>5, BoundariesSame DEF seqState, receiverVars
  <2>6. QED
    BY <2>1, <2>2, <2>3, <2>4, <2>5
<1>6. ASSUME NEW s \in Subflows, ReceivedAck(s) \/ IdleTimeout(s) \/ Retransmit(s),
             UNCHANGED receiverVars
      PROVE  DataBoundaries'
  <2>1. UNCHANGED <<nextTxSequence, sentDSN>>
    BY <1>6 DEF ReceivedAck, IgnoredAck, ThirdDupAck, CountedDupAck, PartialAck,
       FullAck, NewACK, IdleTimeout, Retransmit, senderVars, sendState, seqState
  <2>2. QED
    BY <1>6, <2>1, BoundariesSame DEF receiverVars
<1>7. CASE ReadStep /\ UNCHANGED senderVars
  <2>1. UNCHANGED <<nextTxSequence, sentDSN>>
    BY <1>7 DEF senderVars, sendState, seqState
  <2>2. PICK e \in unOrdered : ReadEntry(e) \/ PassEntry(e)
    BY <1>7 DEF ReadStep
  <2>3. CASE PassEntry(e)
    BY <2>1, <2>3, BoundariesSame DEF PassEntry
  <2>4. CASE ReadEntry(e)
    <3>1. e.dsn = nextRxSequence /\ nextRxSequence' = nextRxSequence + e.len
      BY <2>4, EntryIsReached DEF ReadEntry
    <3>2. QED
      BY <2>1, <3>1, EntryTypes, BoundariesDelivered
  <2>5. QED
    BY <2>2, <2>3, <2>4
<1>8. CASE ReadDone /\ UNCHANGED senderVars
  BY <1>8, BoundariesSame DEF ReadDone, senderVars, sendState, seqState
<1>9. ASSUME NEW s \in Subflows, ReceivedData(s), UNCHANGED senderVars
      PROVE  DataBoundaries'
  <2>1. UNCHANGED <<nextTxSequence, sentDSN>>
    BY <1>9 DEF senderVars, sendState, seqState
  <2>2. PICK i \in Leaving(dataPath[s]) :
          \/ InOrder(s, i) \/ AheadOfData(s, i) \/ OutOfOrder(s, i) \/ Duplicate(s, i)
    BY <1>9 DEF ReceivedData
  <2>3. CASE InOrder(s, i)
    <3>1. PICK m \in sentDSN[s] : m = dataPath[s][i]
      BY SegmentTaken
    <3>2. m.dsn = nextRxSequence /\ nextRxSequence' = nextRxSequence + m.len
      BY <2>3, <3>1 DEF InOrder, IsExpected
    <3>3. QED
      BY <2>1, <3>2, BoundariesDelivered
  <2>4. CASE AheadOfData(s, i) \/ OutOfOrder(s, i) \/ Duplicate(s, i)
    BY <2>1, <2>4, BoundariesSame DEF AheadOfData, OutOfOrder, Duplicate
  <2>5. QED
    BY <2>2, <2>3, <2>4
<1>10. CASE SenderTurn
  BY <1>3, <1>4, <1>5, <1>6, <1>10 DEF SenderTurn, SenderStep
<1>11. CASE ReceiverTurn
  BY <1>7, <1>8, <1>9, <1>11 DEF ReceiverTurn, ReceiverStep
<1>12. CASE UNCHANGED <<senderVars, receiverVars>>
  BY <1>1, <1>12 DEF senderVars
<1>13. QED
  BY <1>10, <1>11, <1>12 DEF Next, Loss, Done, vars

(* SendDataPacket leaves no gap between the bytes of two segments, on      *)
(* whichever sub-flows they go, and ReceivedData and ReadUnOrderedData     *)
(* bring nextRxSequence from the beginning of a segment to that of         *)
(* another.                                                                *)
THEOREM SegmentsLeaveNoGap == Spec => []DataBoundaries
<1>1. Init => DataBoundaries
  BY DEF Init, SenderInit, ReceiverInit, DataBoundaries, DataBoundary
<1>2. IInv /\ DataBoundaries /\ [Next]_vars => DataBoundaries'
  BY BoundariesKeep
<1>3. QED
  BY <1>1, <1>2, Invariance, PTL DEF Spec

-----------------------------------------------------------------------------
(* A time-out helps. *)

(* What a quiet receiver has read is all that it has delivered.            *)
LEMMA ReadIsDelivered ==
  ASSUME IInv, Quiet, Len(received) < nextTxSequence - 1
  PROVE  nextRxSequence < nextTxSequence
<1>1. /\ received \in Seq(Nat) /\ nextRxSequence \in Nat
      /\ nextTxSequence \in Nat \ {0}
  BY DEF IInv, TypeOK, ReceiverTypeOK, SenderTypeOK
<1>2. /\ received \o recvingBuffer = [i \in 1 .. nextRxSequence - 1 |-> i]
      /\ recvingBuffer = << >> /\ nextRxSequence <= nextTxSequence
  BY DEF Quiet, IInv, ReceiverInv, StreamSoFar
<1>3. received = [i \in 1 .. nextRxSequence - 1 |-> i]
  BY <1>1, <1>2
<1>4. SUFFICES ASSUME nextRxSequence = nextTxSequence
               PROVE  FALSE
  BY <1>1, <1>2
<1>5. nextRxSequence - 1 \in Nat
  BY <1>1, <1>4
<1>6. Len(received) = nextRxSequence - 1
  BY <1>3, <1>5
<1>7. QED
  BY <1>1, <1>4, <1>6

LEMMA AllIsDelivered ==
  ASSUME IInv, DataBoundaries, Quiet, ~ Len(received) < nextTxSequence - 1
  PROVE  nextRxSequence = nextTxSequence
<1>1. /\ received \in Seq(Nat) /\ nextRxSequence \in Nat
      /\ nextTxSequence \in Nat \ {0}
  BY DEF IInv, TypeOK, ReceiverTypeOK, SenderTypeOK
<1>2. /\ received \o recvingBuffer = [i \in 1 .. nextRxSequence - 1 |-> i]
      /\ recvingBuffer = << >> /\ nextRxSequence <= nextTxSequence
  BY DEF Quiet, IInv, ReceiverInv, StreamSoFar
<1>3. received = [i \in 1 .. nextRxSequence - 1 |-> i]
  BY <1>1, <1>2
<1>4. nextRxSequence # 0
  BY <1>1, SegmentTypes DEF DataBoundaries, DataBoundary
<1>5. nextRxSequence - 1 \in Nat
  BY <1>1, <1>4
<1>6. Len(received) = nextRxSequence - 1
  BY <1>3, <1>5
<1>7. QED
  BY <1>1, <1>2, <1>4, <1>6

(* The segment that begins at the reader's next byte is recorded.          *)
LEMMA AwaitedIsRecorded ==
  ASSUME IInv, DataBoundaries, Quiet, nextRxSequence < nextTxSequence
  PROVE  \E s \in Subflows : \E m \in mapDSN[s] :
           m.dsn = nextRxSequence /\ ~ Holds(s, m)
<1>1. nextRxSequence \in Nat /\ nextTxSequence \in Nat
  BY DEF IInv, TypeOK, ReceiverTypeOK, SenderTypeOK
<1>2. PICK s \in Subflows : \E m \in sentDSN[s] : m.dsn = nextRxSequence
  BY <1>1 DEF DataBoundaries, DataBoundary
<1>3. PICK m \in sentDSN[s] : m.dsn = nextRxSequence
  BY <1>2
<1>4. ~ Holds(s, m)
  <2>1. Entry(s, m) \notin unOrdered
    <3>1. SUFFICES ASSUME Entry(s, m) \in unOrdered
                   PROVE  FALSE
      OBVIOUS
    <3>2. Entry(s, m).dsn = nextRxSequence
      BY <1>3 DEF Entry
    <3>3. QED
      BY <1>1, <3>1, <3>2 DEF Quiet, IInv, ReceiverInv, StoredIsAhead
  <2>2. QED
    BY <1>1, <1>3, <2>1 DEF Holds
<1>5. m \in mapDSN[s]
  <2>1. ~ m.ssn < RxSeqNumber[s]
    BY <1>4 DEF IInv, ReceiverInv, PassedIsHeld
  <2>2. highestAck[s] + 1 <= RxSeqNumber[s]
    BY DEF IInv, SenderInv, Progress
  <2>3. m.ssn > highestAck[s]
    BY <2>1, <2>2, SegmentTypes, NumberTypes
  <2>4. QED
    BY <2>3, Recorded
<1>6. QED
  BY <1>3, <1>4, <1>5

(* What a sub-flow has in the stream and not acknowledged is answered with *)
(* an acknowledgement that is new.                                         *)
LEMMA DeliveredHelps ==
  ASSUME IInv, NEW s \in Subflows, NEW m \in sentDSN[s],
         m.ssn = highestAck[s] + 1, m.dsn < nextRxSequence
  PROVE  Helps(s, m)
<1>1. Ends(m) <= RxSeqNumber[s]
  BY DEF IInv, ReceiverInv, DeliveredIsPassed
<1>2. RxSeqNumber[s] > highestAck[s] + 1
  BY <1>1, SegmentTypes, NumberTypes
<1>3. QED
  BY <1>2 DEF Helps

(* The first segment recorded on the sub-flow that the reader waits for.   *)
LEMMA FirstHelps ==
  ASSUME IInv, NEW s \in Subflows, NEW m \in mapDSN[s],
         m.dsn = nextRxSequence, ~ Holds(s, m)
  PROVE  \E n \in mapDSN[s] : n.ssn = highestAck[s] + 1 /\ Helps(s, n)
<1>1. PICK n \in mapDSN[s] : n.ssn = highestAck[s] + 1
  BY SegmentIsFound DEF RecoveryFindsSegment
<1>2. m \in sentDSN[s] /\ n \in sentDSN[s] /\ m.ssn > highestAck[s]
  BY Recorded
<1>3. CASE n = m
  <2>1. ~ m.ssn < RxSeqNumber[s]
    BY <1>2 DEF IInv, ReceiverInv, PassedIsHeld
  <2>2. highestAck[s] + 1 <= RxSeqNumber[s]
    BY DEF IInv, SenderInv, Progress
  <2>3. m.ssn = RxSeqNumber[s]
    BY <1>1, <1>2, <1>3, <2>1, <2>2, SegmentTypes, NumberTypes
  <2>4. QED
    BY <1>1, <1>3, <2>3 DEF Helps, IsExpected
<1>4. CASE n # m
  <2>1. /\ m.ssn \in Nat /\ Ends(m) \in Nat /\ m.ssn < Ends(m) /\ m.dsn \in Nat
        /\ n.ssn \in Nat /\ n.dsn \in Nat /\ n.dsn < DataEnds(n)
        /\ DataEnds(n) \in Nat /\ highestAck[s] \in Nat
    BY <1>2, SegmentTypes, NumberTypes
  <2>2. ~ Ends(m) <= n.ssn
    BY <1>1, <1>2, <2>1
  <2>3. DataEnds(n) <= m.dsn
    BY <1>2, <1>4, <2>2 DEF IInv, SentInv, SegmentOrder
  <2>4. n.dsn < nextRxSequence
    BY <2>1, <2>3
  <2>5. QED
    BY <1>1, <1>2, <2>4, DeliveredHelps
<1>5. QED
  BY <1>3, <1>4

LEMMA HelpIsTimed ==
  ASSUME IInv, DataBoundaries, OutstandingIsTimed
  PROVE  TimeoutHelps
<1>1. SUFFICES ASSUME Quiet, Len(received) < nextTxSequence - 1
               PROVE  \E s \in Subflows :
                        /\ retxEvent[s]
                        /\ \E m \in mapDSN[s] : m.ssn = highestAck[s] + 1 /\ Helps(s, m)
  BY DEF TimeoutHelps
<1>2. PICK s \in Subflows : \E m \in mapDSN[s] :
        m.dsn = nextRxSequence /\ ~ Holds(s, m)
  BY <1>1, ReadIsDelivered, AwaitedIsRecorded
<1>3. retxEvent[s]
  BY <1>2 DEF OutstandingIsTimed
<1>4. QED
  BY <1>2, <1>3, FirstHelps

(* Whatever the paths lost, reordered or delayed, and whatever time-outs   *)
(* and fast recoveries came before, a running timer resends a segment that *)
(* is delivered, or that is answered with a new acknowledgement.           *)
THEOREM SomeTimeoutHelps == Spec => []TimeoutHelps
<1>1. IInv /\ DataBoundaries /\ OutstandingIsTimed => TimeoutHelps
  BY HelpIsTimed
<1>2. QED
  BY <1>1, Invariance, SegmentsLeaveNoGap, OutstandingTimed, PTL

-----------------------------------------------------------------------------
(* The send buffer waits for acknowledgements only. *)

(* A sub-flow with nothing outstanding has a window.                       *)
LEMMA EmptyHasWindow ==
  ASSUME IInv, WindowsAreOpen, NEW s \in Subflows, mapDSN[s] = {},
         RemoteRecvWnd >= MSS, sendingBuffer > 0
  PROVE  Window(s) > 0
<1>1. /\ TxSeqNumber[s] \in Nat /\ maxSeqNb[s] \in Nat /\ highestAck[s] \in Nat
      /\ cwnd[s] \in Nat /\ sendingBuffer \in Nat /\ recover[s] \in Nat
  BY NumberTypes
<1>2. /\ highestAck[s] + 1 <= TxSeqNumber[s] /\ TxSeqNumber[s] <= maxSeqNb[s] + 1
      /\ Boundary(s, highestAck[s] + 1)
  BY DEF IInv, SenderInv, Progress, Boundaries
<1>3. highestAck[s] = maxSeqNb[s]
  <2>1. SUFFICES ASSUME highestAck[s] + 1 # maxSeqNb[s] + 1
                 PROVE  FALSE
    BY <1>1
  <2>2. PICK m \in sentDSN[s] : m.ssn = highestAck[s] + 1
    BY <1>2, <2>1, SegmentAtBoundary
  <2>3. m.ssn > highestAck[s]
    BY <1>1, <2>2
  <2>4. QED
    BY <2>2, <2>3, Recorded
<1>4. ~ inFastRec[s]
  BY <1>1, <1>3 DEF IInv, SenderInv, RecoveryBounds, FastRecoveryEnds
<1>5. cwnd[s] >= MSS
  BY <1>4 DEF WindowsAreOpen
<1>6. TxSeqNumber[s] - (highestAck[s] + 1) = 0
  BY <1>1, <1>2, <1>3
<1>7. PICK w \in Nat : w = Smaller(RemoteRecvWnd, cwnd[s]) /\ w >= MSS
  BY <1>1, <1>5, SenderAssumption DEF Smaller
<1>8. AvailableWindow(s) = w
  BY <1>6, <1>7, SenderAssumption DEF AvailableWindow
<1>9. QED
  BY <1>1, <1>7, <1>8, SenderAssumption DEF Window, Smaller

(* The search of SendPendingData looks at every sub-flow.                  *)
LEMMA RoundRobinReaches ==
  ASSUME NEW i \in Subflows, NEW s \in Subflows
  PROVE  \E k \in 0 .. MaxSubflows - 1 : RoundRobin(i, k) = s
<1>1. i \in Nat /\ s \in Nat /\ i < MaxSubflows /\ s < MaxSubflows
      /\ MaxSubflows \in Nat
  BY PathAssumption DEF Subflows
<1>2. CASE i <= s
  <2>1. s - i \in 0 .. MaxSubflows - 1 /\ i + (s - i) = s
    BY <1>1, <1>2
  <2>2. QED
    BY <1>1, <2>1 DEF RoundRobin
<1>3. CASE i > s
  <2>1. /\ s + MaxSubflows - i \in 0 .. MaxSubflows - 1
        /\ i + (s + MaxSubflows - i) = s + MaxSubflows
        /\ (s + MaxSubflows) - MaxSubflows = s
        /\ ~ s + MaxSubflows < MaxSubflows
    BY <1>1, <1>3
  <2>2. PICK k \in 0 .. MaxSubflows - 1 : k = s + MaxSubflows - i
    BY <2>1
  <2>3. i + k = s + MaxSubflows
    BY <2>1, <2>2
  <2>4. ~ i + k < MaxSubflows /\ i + k - MaxSubflows = s
    BY <1>1, <2>3
  <2>5. RoundRobin(i, k) = s
    BY <2>4 DEF RoundRobin
  <2>6. QED
    BY <2>5
<1>4. QED
  BY <1>1, <1>2, <1>3

(* The states in which SendPendingData has come to its end with bytes      *)
(* left; its loop for an empty sendingBuffer leaves none.                  *)
UnsentWaits ==
  /\ txPhase = "resend" => ~ sendingBuffer > 0
  /\ txPhase = "idle" /\ sendingBuffer > 0 /\ SynSent = {} /\ RemoteRecvWnd >= MSS =>
       \A s \in Subflows : mapDSN[s] # {}

LEMMA UnsentSame ==
  ASSUME UnsentWaits, UNCHANGED <<txPhase, sendingBuffer, mapDSN>>
  PROVE  UnsentWaits'
BY DEF UnsentWaits

LEMMA UnsentBusy ==
  ASSUME txPhase' = "send" \/ ~ sendingBuffer' > 0
  PROVE  UnsentWaits'
BY DEF UnsentWaits

LEMMA UnsentCalled ==
  ASSUME NEW s, CallSendPendingData(s)
  PROVE  UnsentWaits'
<1>1. sendingBuffer' > 0 => txPhase' = "send"
  BY DEF CallSendPendingData
<1>2. QED
  BY <1>1, UnsentBusy

(* The loop ends with bytes left only where no sub-flow has a window.      *)
LEMMA UnsentLeft ==
  ASSUME IInv, WindowsAreOpen, NEW k \in 0 .. MaxSubflows, SearchEndsAfter(k),
         ~ (sendingBuffer > 0 /\ k < MaxSubflows
            /\ RoundRobin(lastUsedsFlowIdx, k) \notin SynSent),
         UNCHANGED <<sendingBuffer, mapDSN>>,
         txPhase' = "idle"
  PROVE  UnsentWaits'
<1>1. SUFFICES ASSUME sendingBuffer > 0, SynSent = {}, RemoteRecvWnd >= MSS,
                      NEW s \in Subflows, mapDSN[s] = {}
               PROVE  FALSE
  BY DEF UnsentWaits
<1>2. lastUsedsFlowIdx \in Subflows /\ MaxSubflows \in Nat
  BY PathAssumption DEF IInv, TypeOK, SenderTypeOK
<1>3. k = MaxSubflows
  BY <1>1, <1>2
<1>4. PICK j \in 0 .. MaxSubflows - 1 : RoundRobin(lastUsedsFlowIdx, j) = s
  BY <1>2, RoundRobinReaches
<1>5. ~ SearchStops(j)
  BY <1>3, <1>4 DEF SearchEndsAfter
<1>6. ~ Window(s) > 0
  BY <1>4, <1>5 DEF SearchStops
<1>7. QED
  BY <1>1, <1>6, EmptyHasWindow

LEMMA UnsentKeeps ==
  ASSUME IInv, WindowsAreOpen, UnsentWaits, [Next]_vars
  PROVE  UnsentWaits'
<1>1. CASE SendData
  BY <1>1, UnsentBusy DEF SendData
<1>2. CASE ResendStep
  <2>1. ~ sendingBuffer > 0
    BY <1>2 DEF ResendStep, UnsentWaits
  <2>2. UNCHANGED sendingBuffer
    BY <1>2 DEF ResendStep, ResendSegment, sendState
  <2>3. QED
    BY <2>1, <2>2, UnsentBusy
<1>3. CASE SendStep
  <2>1. PICK k \in 0 .. MaxSubflows :
          /\ SearchEndsAfter(k)
          /\ \/ UNCHANGED txLoop
             \/ /\ ~ (sendingBuffer > 0 /\ k < MaxSubflows
                      /\ RoundRobin(lastUsedsFlowIdx, k) \notin SynSent)
                /\ UNCHANGED <<sendingBuffer, mapDSN>>
                /\ txPhase' = "idle"
    BY <1>3 DEF SendStep, seqState, LeaveSendPendingData
  <2>2. CASE UNCHANGED txLoop
    BY <1>3, <2>2, UnsentBusy DEF SendStep, txLoop
  <2>3. QED
    BY <2>1, <2>2, UnsentLeft
<1>4. ASSUME NEW s \in Subflows, ReceivedAck(s)
      PROVE  UnsentWaits'
  <2>1. PICK i \in Leaving(ackPath[s]) :
          \/ IgnoredAck(s, i) \/ ThirdDupAck(s, i) \/ CountedDupAck(s, i)
          \/ PartialAck(s, i) \/ FullAck(s, i)
    BY <1>4 DEF ReceivedAck
  <2>2. CASE IgnoredAck(s, i)
    BY <2>2, UnsentSame DEF IgnoredAck, senderVars, sendState, seqState, txLoop
  <2>3. CASE ThirdDupAck(s, i)
    BY <2>3, UnsentSame DEF ThirdDupAck, sendState, txLoop
  <2>4. CASE CountedDupAck(s, i)
    BY <2>4, UnsentSame, UnsentCalled DEF CountedDupAck, sendState, seqState, txLoop
  <2>5. CASE PartialAck(s, i) \/ FullAck(s, i)
    BY <2>5, UnsentCalled DEF PartialAck, FullAck, NewACK
  <2>6. QED
    BY <2>1, <2>2, <2>3, <2>4, <2>5
<1>5. ASSUME NEW s \in Subflows, IdleTimeout(s) \/ Retransmit(s)
      PROVE  UnsentWaits'
  BY <1>5, UnsentSame DEF IdleTimeout, Retransmit, sendState, seqState, txLoop
<1>6. CASE UNCHANGED senderVars
  BY <1>6, UnsentSame DEF senderVars, sendState, seqState, txLoop
<1>7. CASE SenderTurn
  BY <1>1, <1>2, <1>3, <1>4, <1>5, <1>7 DEF SenderTurn, SenderStep
<1>8. QED
  BY <1>6, <1>7 DEF Next, ReceiverTurn, Loss, Done, vars

(* SendPendingData gives up with bytes in sendingBuffer only when every    *)
(* sub-flow waits for an acknowledgement, with its timer running.          *)
THEOREM UnsentTimed == Spec => []UnsentIsTimed
<1>1. Init => UnsentWaits
  BY DEF Init, SenderInit, UnsentWaits
<1>2. IInv /\ WindowsAreOpen /\ UnsentWaits /\ [Next]_vars => UnsentWaits'
  BY UnsentKeeps
<1>3. UnsentWaits /\ OutstandingIsTimed => UnsentIsTimed
  BY DEF UnsentWaits, OutstandingIsTimed, UnsentIsTimed
<1>4. QED
  BY <1>1, <1>2, <1>3, Invariance, WindowsStayOpen, OutstandingTimed, PTL DEF Spec

-----------------------------------------------------------------------------
(* Both together. *)

(* Between two handlers, while anything that was written is not read, on   *)
(* established sub-flows with room for a segment at the peer, a timer is   *)
(* running whose segment brings the transfer on.                           *)
NeverStuck ==
  Quiet /\ Len(received) < Written /\ SynSent = {} /\ RemoteRecvWnd >= MSS =>
    \E s \in Subflows :
      /\ retxEvent[s]
      /\ \E m \in mapDSN[s] : m.ssn = highestAck[s] + 1 /\ Helps(s, m)

(* On established sub-flows, with room for a segment at the peer, a        *)
(* transfer that is not over needs no more than a time-out to go on:       *)
(* ReceivedAck, SendPendingData and ReadUnOrderedData orphan no bytes.     *)
THEOREM TransferNeverStuck == Spec => []NeverStuck
<1>1. IInv /\ DataBoundaries /\ TimeoutHelps /\ UnsentIsTimed => NeverStuck
  <2>1. SUFFICES ASSUME IInv, DataBoundaries, TimeoutHelps, UnsentIsTimed,
                        Quiet, Len(received) < Written, SynSent = {}, RemoteRecvWnd >= MSS
                 PROVE  \E s \in Subflows :
                          /\ retxEvent[s]
                          /\ \E m \in mapDSN[s] :
                               m.ssn = highestAck[s] + 1 /\ Helps(s, m)
    BY DEF NeverStuck
  <2>2. /\ nextTxSequence \in Nat \ {0} /\ sendingBuffer \in Nat
        /\ nextRxSequence \in Nat /\ Len(received) \in Nat
    BY <2>1 DEF IInv, TypeOK, SenderTypeOK, ReceiverTypeOK
  <2>3. CASE Len(received) < nextTxSequence - 1
    BY <2>1, <2>3 DEF TimeoutHelps
  <2>4. CASE ~ Len(received) < nextTxSequence - 1
    <3>1. sendingBuffer > 0
      BY <2>1, <2>2, <2>4 DEF Written
    <3>2. 0 \in Subflows
      BY PathAssumption DEF Subflows
    <3>3. PICK s \in Subflows : mapDSN[s] # {} /\ retxEvent[s]
      BY <2>1, <3>1, <3>2 DEF UnsentIsTimed, Quiet
    <3>4. PICK m \in mapDSN[s] : m.ssn = highestAck[s] + 1
      BY <2>1, <3>3, SegmentIsFound DEF RecoveryFindsSegment
    <3>5. m \in sentDSN[s]
      BY <2>1, Recorded
    <3>6. m.dsn < nextTxSequence /\ m.dsn \in Nat
      BY <2>1, <2>2, <3>5, SegmentTypes
    <3>7. nextRxSequence = nextTxSequence
      BY <2>1, <2>2, <2>4, AllIsDelivered
    <3>8. QED
      BY <2>1, <3>3, <3>4, <3>5, <3>6, <3>7, DeliveredHelps
  <2>5. QED
    BY <2>3, <2>4
<1>2. QED
  BY <1>1, Invariance, SegmentsLeaveNoGap, SomeTimeoutHelps, UnsentTimed, PTL
=============================================================================
