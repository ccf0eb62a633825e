-------------------------- MODULE MpTcpTransferInv --------------------------
(***************************************************************************)
(* The inductive invariant of MpTcpTransfer.  Its parts say how the two    *)
(* numberings of the bytes, the sub-flow's and the connection's, run along *)
(* with each other, and how far the two ends have got in both.             *)
(***************************************************************************)
EXTENDS MpTcpTransfer

DataEnds(m) == m.dsn + m.len

(* The segments are not empty, fit in the MSS and carry bytes that the     *)
(* sender has taken out of its buffer.                                     *)
SegmentsSent ==
  \A s \in Subflows : \A m \in sentDSN[s] :
    /\ m.len \in 1 .. MSS
    /\ m.ssn >= 1 /\ Ends(m) <= maxSeqNb[s] + 1
    /\ m.dsn >= 1 /\ DataEnds(m) <= nextTxSequence

(* The segments of a sub-flow do not overlap, and are in one order by      *)
(* either number.                                                          *)
SegmentOrder ==
  \A s \in Subflows : \A m, n \in sentDSN[s] :
    \/ m = n
    \/ Ends(m) <= n.ssn /\ DataEnds(m) <= n.dsn
    \/ Ends(n) <= m.ssn /\ DataEnds(n) <= m.dsn

(* No byte is sent on two sub-flows. *)
SegmentsDisjoint ==
  \A s, t \in Subflows : \A m \in sentDSN[s] : \A n \in sentDSN[t] :
    s # t => DataEnds(m) <= n.dsn \/ DataEnds(n) <= m.dsn

(* mapDSN holds what is not acknowledged. *)
MapIsUnacked ==
  \A s \in Subflows : mapDSN[s] = {m \in sentDSN[s] : m.ssn > highestAck[s]}

(* A sub-flow number at which a segment begins or at which the next new    *)
(* one will.                                                               *)
Boundary(s, a) == a = maxSeqNb[s] + 1 \/ \E m \in sentDSN[s] : m.ssn = a

Boundaries ==
  \A s \in Subflows :
    /\ Boundary(s, highestAck[s] + 1)
    /\ Boundary(s, TxSeqNumber[s])
    /\ Boundary(s, RxSeqNumber[s])
    /\ \A m \in sentDSN[s] : Boundary(s, Ends(m))

(* How far the sub-flow is at either end. *)
Progress ==
  \A s \in Subflows :
    /\ highestAck[s] + 1 <= TxSeqNumber[s]
    /\ TxSeqNumber[s] <= maxSeqNb[s] + 1
    /\ highestAck[s] + 1 <= RxSeqNumber[s]
    /\ RxSeqNumber[s] <= maxSeqNb[s] + 1

(* Only segments that were sent, and only acknowledgements of what was     *)
(* received, are in transit.                                               *)
AckNumbers(s) == {a \in 1 .. RxSeqNumber[s] : Boundary(s, a)}

InTransit ==
  \A s \in Subflows :
    /\ dataPath[s] \in Seq(sentDSN[s])
    /\ ackPath[s] \in Seq(AckNumbers(s))

(* In fast recovery recover lies ahead. *)
RecoveryBounds == FastRecoveryEnds

-----------------------------------------------------------------------------
SegmentOf(e) == [dsn |-> e.dsn, len |-> e.len, ssn |-> e.ssn]

StoredWasSent == \A e \in unOrdered : SegmentOf(e) \in sentDSN[e.sub]

(* A sub-flow has come past every segment that is in the stream.           *)
DeliveredIsPassed ==
  \A s \in Subflows : \A m \in sentDSN[s] :
    m.dsn < nextRxSequence => Ends(m) <= RxSeqNumber[s]

(* What a sub-flow has come past, the receiver has. *)
PassedIsHeld ==
  \A s \in Subflows : \A m \in sentDSN[s] :
    m.ssn < RxSeqNumber[s] => Holds(s, m)

(* What is stored is ahead of the stream, but for the entries that         *)
(* ReadUnOrderedData has not visited yet: the stream may have come up to   *)
(* one of those.                                                           *)
StoredIsAhead ==
  \A e \in unOrdered :
    \/ e.dsn > nextRxSequence
    \/ e.dsn = nextRxSequence /\ rxPhase = "reading" /\ e.dsn > rxCursor

(* The receiver has read and buffered the stream up to nextRxSequence.     *)
StreamSoFar ==
  /\ nextRxSequence <= nextTxSequence
  /\ received \o recvingBuffer = [i \in 1 .. nextRxSequence - 1 |-> i]
  /\ rxPhase = "idle" => recvingBuffer = << >>
  /\ Len(recvingBuffer) <= MSS

-----------------------------------------------------------------------------
(* A data number at which a segment begins or at which the next new one    *)
(* will: no byte below nextTxSequence was left out, and the receiver's     *)
(* next byte is the first of a segment.                                    *)
DataBoundary(d) ==
  d = nextTxSequence \/ \E s \in Subflows : \E m \in sentDSN[s] : m.dsn = d

DataBoundaries ==
  /\ DataBoundary(nextRxSequence)
  /\ \A s \in Subflows : \A m \in sentDSN[s] : DataBoundary(DataEnds(m))

-----------------------------------------------------------------------------
SentInv == SegmentsSent /\ SegmentOrder /\ SegmentsDisjoint
SenderInv == MapIsUnacked /\ Boundaries /\ Progress /\ InTransit /\ RecoveryBounds
ReceiverInv == /\ StoredWasSent /\ DeliveredIsPassed /\ PassedIsHeld
               /\ StoredIsAhead /\ StreamSoFar

IInv == TypeOK /\ SentInv /\ SenderInv /\ ReceiverInv
=============================================================================
