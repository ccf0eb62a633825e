--------------------------- MODULE MpTcpTransfer ----------------------------
(***************************************************************************)
(* A transfer over an MPTCP connection: the bulk sender's socket at one    *)
(* end, the packet sink's at the other, and the paths of the sub-flows     *)
(* between them.  All events are handlers of one simulator: each runs to   *)
(* its end before the next one starts.                                     *)
(***************************************************************************)
EXTENDS MpTcpSender, MpTcpReceiver

(* The sink reads 2000 bytes a time, more than a segment holds, and the    *)
(* receive buffer has room for a segment in hand and one to come.          *)
ASSUME TransferAssumption ==
  /\ ReadSize >= MSS
  /\ RcvBufSize >= 2 * MSS

vars == <<senderVars, receiverVars, pathVars>>

Init == SenderInit /\ ReceiverInit /\ PathInit

Quiet == txPhase = "idle" /\ rxPhase = "idle"

SenderTurn ==
  /\ rxPhase = "idle"
  /\ SenderStep
  /\ UNCHANGED receiverVars

ReceiverTurn ==
  /\ txPhase = "idle"
  /\ ReceiverStep
  /\ UNCHANGED senderVars

Loss ==
  /\ Quiet
  /\ \E s \in Subflows : LoseData(s) \/ LoseAck(s)
  /\ UNCHANGED <<senderVars, receiverVars>>

Written == nextTxSequence - 1 + sendingBuffer

(* The transfer may stop once all that was written has been read. *)
Done ==
  /\ Quiet
  /\ Len(received) = Written
  /\ UNCHANGED vars

Next == SenderTurn \/ ReceiverTurn \/ Loss \/ Done

Spec == Init /\ [][Next]_vars

TypeOK ==
  /\ SenderTypeOK
  /\ ReceiverTypeOK
  /\ dataPath \in [Subflows -> Seq(Mapping)]
  /\ ackPath \in [Subflows -> Seq(Nat)]

-----------------------------------------------------------------------------
(* What makes the transfer correct. *)

(* The receiver has the segment: its bytes are in the stream already, or   *)
(* it is stored until the bytes before it arrive.                          *)
Holds(s, m) == m.dsn < nextRxSequence \/ Entry(s, m) \in unOrdered

(* A sub-flow forgets a segment (DiscardUpTo) only when the receiver has   *)
(* it, whatever acknowledgements were lost, late or repeated: there is no  *)
(* data acknowledgement that could ask for it again.                       *)
NoDataLost ==
  \A s \in Subflows : \A m \in sentDSN[s] \ mapDSN[s] : Holds(s, m)

(* While a sub-flow has segments outstanding its retransmission timer is   *)
(* running: NewACK, SendDataPacket and the time-out itself never leave a   *)
(* segment in mapDSN that nothing would send again.                        *)
OutstandingIsTimed ==
  \A s \in Subflows : mapDSN[s] # {} => retxEvent[s]

(* The segment brings the transfer on when it arrives: it is delivered, or *)
(* it is answered with an acknowledgement that is new to the sender.       *)
Helps(s, m) == IsExpected(s, m) \/ RxSeqNumber[s] > highestAck[s] + 1

(* Bytes that were sent and are not read are never left to chance: some    *)
(* sub-flow's timer is running, and the segment Retransmit would resend on *)
(* it brings the transfer on, whatever was lost, stored, reordered or      *)
(* acknowledged before.                                                    *)
TimeoutHelps ==
  Quiet /\ Len(received) < nextTxSequence - 1 =>
    \E s \in Subflows :
      /\ retxEvent[s]
      /\ \E m \in mapDSN[s] : m.ssn = highestAck[s] + 1 /\ Helps(s, m)

(* Bytes that were written and not sent wait only for acknowledgements: if *)
(* all sub-flows are established and the peer's window fits a segment,     *)
(* SendPendingData stops with bytes left only when every sub-flow has      *)
(* segments outstanding, which its timer resends.                          *)
UnsentIsTimed ==
  txPhase = "idle" /\ sendingBuffer > 0 /\ SynSent = {} /\ RemoteRecvWnd >= MSS =>
    \A s \in Subflows : mapDSN[s] # {} /\ retxEvent[s]

(* No segment in transit ends in the fatal error or in the assertion of    *)
(* ReceivedData when it arrives: one that is next on its sub-flow is never *)
(* data the connection had before, and one behind a gap of its sub-flow is *)
(* behind a gap of the data.                                               *)
ArrivalsMeetAssertions ==
  Quiet =>
    \A s \in Subflows : \A i \in 1 .. Len(dataPath[s]) :
      LET m == dataPath[s][i] IN
      /\ m.ssn = RxSeqNumber[s] => m.dsn >= nextRxSequence
      /\ m.ssn > RxSeqNumber[s] => m.dsn > nextRxSequence

(* ReadUnOrderedData and StoreUnOrderedData meet their assertions: an      *)
(* entry the data has come up to starts exactly there and its sub-flow has *)
(* come up to it too, and the entries of one sub-flow are in one order by  *)
(* data and by sub-flow numbers.                                           *)
StoredMeetsAssertions ==
  \A e \in unOrdered :
    /\ rxPhase = "reading" /\ IsNext(e) /\ e.dsn <= nextRxSequence =>
         e.dsn = nextRxSequence /\ e.ssn <= RxSeqNumber[e.sub]
    /\ \A f \in unOrdered :
         e.sub = f.sub /\ e.dsn < f.dsn => e.ssn < f.ssn

(* The receive buffer never is full, as the fatal error of                 *)
(* ReadUnOrderedData says: there is room for the segment in hand although  *)
(* the advertised window does not depend on the buffer.                    *)
ReceiveBufferHasRoom ==
  /\ rxPhase = "idle" => recvingBuffer = << >>
  /\ Len(recvingBuffer) + MSS <= RcvBufSize

(* A time-out and the recovery after it find the segment they look for in  *)
(* mapDSN (the assertions of SendDataPacket and DoRetransmit).             *)
RecoveryFindsSegment ==
  \A s \in Subflows :
    /\ InTimeoutRecovery(s) => \E m \in mapDSN[s] : m.ssn = TxSeqNumber[s]
    /\ mapDSN[s] # {} => \E m \in mapDSN[s] : m.ssn = highestAck[s] + 1

(* However late an acknowledgement is, it meets the assertions of          *)
(* ReceivedAck and NewAckNewReno: an old one does not name a recorded      *)
(* segment, and a partial one does.                                        *)
AcksMeetAssertions ==
  \A s \in Subflows : \A i \in 1 .. Len(ackPath[s]) :
    LET a == ackPath[s][i] IN
    /\ a < highestAck[s] + 1 => \A m \in mapDSN[s] : m.ssn # a
    /\ IsPartialAck(s, a) => \E m \in Unacked(s, a) : m.ssn = a

(* No sub-flow has more in flight than the peer's window, although a       *)
(* time-out sets TxSeqNumber, from which AvailableWindow counts, back to   *)
(* what is unacknowledged while all that was sent may still arrive.        *)
FlightWithinWindow ==
  \A s \in Subflows : BytesInFlight(s) <= RemoteRecvWnd

(* Fast recovery ends: the acknowledgement that ends it, recover, is still *)
(* to come and is one the receiver can send, because what it covers was    *)
(* sent.                                                                   *)
FastRecoveryEnds ==
  \A s \in Subflows : inFastRec[s] =>
    /\ recover[s] > highestAck[s] + 1
    /\ recover[s] <= maxSeqNb[s] + 1

(* Only in fast recovery a window may be less than a segment, where the    *)
(* deflation of partial acknowledgements may take it to any value (line    *)
(* 2034).  Outside it there is always room for a segment, and OpenCWND and *)
(* the coupled algorithms never divide by a window that is zero.           *)
WindowsAreOpen ==
  \A s \in Subflows :
    /\ inFastRec[s] => ssthresh[s] >= 2 * MSS
    /\ ~ inFastRec[s] => cwnd[s] >= MSS

(* The connection is the stream it promises to be: what the sink has read  *)
(* is what the bulk sender has written, from the first byte on.            *)
Stream == INSTANCE MpTcpStream WITH
  StreamLength <- MaxBytes, written <- Written, delivered <- received

IsStream == Stream!StreamSpec

-----------------------------------------------------------------------------
(* Fairness.  The simulator finishes each handler, runs a due timer and    *)
(* calls the application when there is room; a path does not lose every    *)
(* packet for ever.                                                        *)
Fairness ==
  /\ WF_vars(rxPhase = "idle" /\ (ResendStep \/ SendStep) /\ UNCHANGED receiverVars)
  /\ WF_vars(txPhase = "idle" /\ (ReadStep \/ ReadDone) /\ UNCHANGED senderVars)
  /\ WF_vars(rxPhase = "idle" /\ SendData /\ UNCHANGED receiverVars)
  /\ \A s \in Subflows :
       /\ WF_vars(rxPhase = "idle" /\ Retransmit(s) /\ UNCHANGED receiverVars)
       /\ SF_vars(rxPhase = "idle" /\ ReceivedAck(s) /\ UNCHANGED receiverVars)
       /\ SF_vars(txPhase = "idle" /\ ReceivedData(s) /\ UNCHANGED senderVars)

FairSpec == Spec /\ Fairness

(* The connection keeps its promise alive: bytes that were written and not *)
(* read are read in the end, although paths lose any finite number of      *)
(* segments and acknowledgements.                                          *)
IsLiveStream == Stream!LiveStreamSpec

(* All that the application writes gets through, on whichever sub-flows    *)
(* are established.                                                        *)
AllDelivered ==
  \A n \in 1 .. MaxBytes : Written >= n ~> Len(received) >= n

(* A partial acknowledgement deflates the window: the window it leaves is  *)
(* at most a segment above the one it found.                               *)
PartialAckDeflates ==
  [][\A s \in Subflows :
       inFastRec[s] /\ inFastRec'[s] /\ highestAck'[s] > highestAck[s]
         => cwnd'[s] <= cwnd[s] + MSS]_vars
=============================================================================
