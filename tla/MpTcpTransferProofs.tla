------------------------- MODULE MpTcpTransferProofs ------------------------
(***************************************************************************)
(* IInv is an invariant of MpTcpTransfer for every number of sub-flows,    *)
(* every queue, window and segment size, and what it implies.              *)
(***************************************************************************)
EXTENDS MpTcpTransferInv, SequenceTheorems, TLAPS

-----------------------------------------------------------------------------
(* Sequences and paths. *)

(* A packet that leaves a path leaves the others as they are. *)
LEMMA RemoveAtSeq ==
  ASSUME NEW S, NEW q \in Seq(S), NEW i \in 1 .. Len(q)
  PROVE  RemoveAt(q, i) \in Seq(S)
<1>1. SubSeq(q, 1, i - 1) \in Seq(S)
  OBVIOUS
<1>2. SubSeq(q, i + 1, Len(q)) \in Seq(S)
  OBVIOUS
<1>3. QED
  BY <1>1, <1>2, ConcatProperties DEF RemoveAt

(* A packet that enters a path is put behind the others, or dropped. *)
LEMMA EnqueueSeq ==
  ASSUME NEW S, NEW q \in Seq(S), NEW e \in S
  PROVE  Enqueue(q, e) \in Seq(S)
BY DEF Enqueue

(* A path may be taken to hold more kinds of packet than it does. *)
LEMMA SeqSubset ==
  ASSUME NEW S, NEW T, S \subseteq T, NEW q \in Seq(S)
  PROVE  q \in Seq(T)
OBVIOUS

(* Only positions of the path are left from. *)
LEMMA LeavingIsPosition ==
  ASSUME NEW q, NEW i \in Leaving(q)
  PROVE  i \in 1 .. Len(q)
BY DEF Leaving

-----------------------------------------------------------------------------
(* What the invariant says of the segments of a sub-flow. *)

LEMMA SegmentTypes ==
  ASSUME IInv, NEW s \in Subflows, NEW m \in sentDSN[s]
  PROVE  /\ m \in Mapping
         /\ m.dsn \in Nat \ {0} /\ m.len \in Nat \ {0} /\ m.ssn \in Nat \ {0}
         /\ m.len <= MSS
         /\ Ends(m) \in Nat /\ m.ssn < Ends(m) /\ Ends(m) <= maxSeqNb[s] + 1
         /\ DataEnds(m) \in Nat /\ m.dsn < DataEnds(m)
         /\ DataEnds(m) <= nextTxSequence
         /\ Boundary(s, Ends(m))
<1>1. m \in Mapping
  BY DEF IInv, TypeOK, SenderTypeOK
<1>2. MSS \in Nat
  BY SenderAssumption
<1>3. m.len \in 1 .. MSS /\ m.ssn >= 1 /\ m.dsn >= 1
  BY DEF IInv, SentInv, SegmentsSent
<1>4. Ends(m) <= maxSeqNb[s] + 1 /\ DataEnds(m) <= nextTxSequence
  BY DEF IInv, SentInv, SegmentsSent
<1>5. Boundary(s, Ends(m))
  BY DEF IInv, SenderInv, Boundaries
<1>6. QED
  BY <1>1, <1>2, <1>3, <1>4, <1>5 DEF Mapping, Ends, DataEnds

LEMMA NumberTypes ==
  ASSUME IInv, NEW s \in Subflows
  PROVE  /\ TxSeqNumber[s] \in Nat /\ maxSeqNb[s] \in Nat
         /\ highestAck[s] \in Nat /\ RxSeqNumber[s] \in Nat
         /\ cwnd[s] \in Nat /\ ssthresh[s] \in Nat /\ recover[s] \in Nat
         /\ nextTxSequence \in Nat /\ nextRxSequence \in Nat
         /\ sendingBuffer \in Nat
         /\ BytesInFlight(s) \in Nat
<1>1. /\ TxSeqNumber[s] \in Nat /\ maxSeqNb[s] \in Nat
      /\ highestAck[s] \in Nat /\ RxSeqNumber[s] \in Nat
  BY DEF IInv, TypeOK, SenderTypeOK, ReceiverTypeOK
<1>2. /\ cwnd[s] \in Nat /\ ssthresh[s] \in Nat /\ recover[s] \in Nat
  BY DEF IInv, TypeOK, SenderTypeOK, ReceiverTypeOK
<1>3. /\ nextTxSequence \in Nat /\ nextRxSequence \in Nat
      /\ sendingBuffer \in Nat
  BY DEF IInv, TypeOK, SenderTypeOK, ReceiverTypeOK
<1>4. /\ highestAck[s] + 1 <= TxSeqNumber[s]
      /\ TxSeqNumber[s] <= maxSeqNb[s] + 1
  BY DEF IInv, SenderInv, Progress
<1>5. BytesInFlight(s) \in Nat
  BY <1>1, <1>4 DEF BytesInFlight
<1>6. QED
  BY <1>1, <1>2, <1>3, <1>5

-----------------------------------------------------------------------------
(* What the congestion control makes of numbers are numbers. *)

LEMMA HalvedTypes ==
  ASSUME IInv, NEW s \in Subflows, NEW half \in Halved(s)
  PROVE  /\ half \in Nat
         /\ Threshold(half) \in Nat /\ Threshold(half) >= 2 * MSS
<1>1. half \in Nat
  <2>1. ASSUME NEW x, NEW n \in Excess(cwnd[s], x)
        PROVE  n \in Nat
    BY NumberTypes DEF Excess
  <2>2. BytesInFlight(s) \div 2 \in Nat
    BY NumberTypes
  <2>3. CASE AlgoCC = "COUPLED_SCALABLE_TCP"
    BY <2>1, <2>3 DEF Halved
  <2>4. CASE AlgoCC \in {"Fully_Coupled", "COUPLED_FULLY"}
    BY <2>1, <2>4 DEF Halved
  <2>5. CASE AlgoCC \notin {"COUPLED_SCALABLE_TCP", "Fully_Coupled", "COUPLED_FULLY"}
    BY <2>2, <2>5 DEF Halved
  <2>6. QED
    BY <2>3, <2>4, <2>5
<1>2. QED
  BY <1>1, SenderAssumption DEF Threshold, Larger

LEMMA DeflatedTypes ==
  ASSUME IInv, NEW s \in Subflows
  PROVE  Deflated(s) \in Nat
BY NumberTypes, SenderAssumption DEF Deflated, Smaller

LEMMA AddedTypes ==
  ASSUME IInv, NEW s \in Subflows, NEW window, NEW acked \in Nat,
         NEW added \in Added(s, window, acked)
  PROVE  added \in Nat
<1>1. MSS \in Nat /\ MSS * MSS \in Nat
  BY SenderAssumption
<1>2. Smaller(acked, MSS) \in Nat /\ Smaller(acked, MSS) * MSS \in Nat
  <2>1. Smaller(acked, MSS) \in Nat
    BY <1>1 DEF Smaller
  <2>2. QED
    BY <1>1, <2>1
<1>3. ASSUME NEW x \in Nat, NEW d
      PROVE  Quotient(x, d) \subseteq Nat
  BY DEF Quotient
<1>4. ASSUME NEW ns \in SUBSET Nat
      PROVE  UpTo(ns) \subseteq Nat /\ AtLeastOne(ns) \subseteq Nat
  BY DEF UpTo, AtLeastOne, Larger
<1>5. CASE window < ssthresh[s]
  BY <1>1, <1>5 DEF Added
<1>6. CASE ~(window < ssthresh[s])
  <2> DEFINE square == MSS * MSS
             tcpInc == Quotient(Smaller(acked, MSS) * MSS, window)
             total == TotalCwnd(s, window)
             windows == {window} \cup {cwnd[t] : t \in Subflows \ {s}}
  <2>1. added \in Increases(s, window, acked)
    BY <1>6 DEF Added
  <2>2. tcpInc \subseteq Nat
    BY <1>2, <1>3
  <2>3. CASE AlgoCC = "Uncoupled_TCPs"
    <3>1. added \in AtLeastOne(Quotient(square, window))
      BY <2>1, <2>3 DEF Increases
    <3>2. QED
      BY <1>1, <1>3, <1>4, <3>1
  <2>4. CASE AlgoCC = "Fully_Coupled"
    <3>1. added \in AtLeastOne(Quotient(square, total))
      BY <2>1, <2>4 DEF Increases
    <3>2. QED
      BY <1>1, <1>3, <1>4, <3>1
  <2>5. CASE AlgoCC = "RTT_Compensator"
    <3>1. added \in AtLeastOne(UpTo(Quotient(square, window)))
      BY <2>1, <2>5 DEF Increases
    <3>2. QED
      BY <1>1, <1>3, <1>4, <3>1
  <2>6. CASE AlgoCC = "Linked_Increases"
    <3>1. added \in AtLeastOne(UNION {UpTo(Quotient(square, w)) : w \in windows})
      BY <2>1, <2>6 DEF Increases
    <3>2. UNION {UpTo(Quotient(square, w)) : w \in windows} \subseteq Nat
      BY <1>1, <1>3, <1>4
    <3>3. QED
      BY <1>4, <3>1, <3>2
  <2>7. CASE AlgoCC = "UNCOUPLED"
    BY <2>1, <2>2, <2>7 DEF Increases
  <2>8. CASE AlgoCC \in {"COUPLED_EPSILON", "COUPLED_INC"}
    <3>1. added \in UpTo(tcpInc)
      BY <2>1, <2>8 DEF Increases
    <3>2. QED
      BY <1>4, <2>2, <3>1
  <2>9. CASE AlgoCC = "COUPLED_FULLY"
    <3>1. added \in Quotient(Smaller(acked, MSS) * MSS, total)
      BY <2>1, <2>9 DEF Increases
    <3>2. QED
      BY <1>2, <1>3, <3>1
  <2>10. CASE AlgoCC = "COUPLED_SCALABLE_TCP"
    <3>1. added \in Quotient(Smaller(acked, MSS), 100)
      BY <2>1, <2>10 DEF Increases
    <3>2. QED
      BY <1>2, <1>3, <3>1
  <2>11. QED
    BY <2>3, <2>4, <2>5, <2>6, <2>7, <2>8, <2>9, <2>10, SenderAssumption
<1>7. QED
  BY <1>5, <1>6

(* A boundary before the end of what was sent is where a segment begins.   *)
LEMMA SegmentAtBoundary ==
  ASSUME NEW s, NEW a, Boundary(s, a), a # maxSeqNb[s] + 1
  PROVE  \E m \in sentDSN[s] : m.ssn = a
BY DEF Boundary

(* A segment is not cut by a boundary. *)
LEMMA BoundaryCutsNothing ==
  ASSUME IInv, NEW s \in Subflows, NEW a \in Nat, Boundary(s, a),
         NEW m \in sentDSN[s], m.ssn < a
  PROVE  Ends(m) <= a
<1>1. CASE a = maxSeqNb[s] + 1
  BY <1>1, SegmentTypes
<1>2. CASE \E n \in sentDSN[s] : n.ssn = a
  <2>1. PICK n \in sentDSN[s] : n.ssn = a
    BY <1>2
  <2>2. m # n /\ n.ssn < Ends(n) /\ Ends(n) \in Nat /\ m.ssn \in Nat
    BY <2>1, SegmentTypes
  <2>3. Ends(m) <= n.ssn \/ Ends(n) <= m.ssn
    BY <2>2 DEF IInv, SentInv, SegmentOrder
  <2>4. QED
    BY <2>1, <2>2, <2>3
<1>3. QED
  BY <1>1, <1>2 DEF Boundary

-----------------------------------------------------------------------------
(* What a step leaves alone. *)

(* No segment is new: the segments sent stay as good as they are. *)
LEMMA SentFrame ==
  ASSUME IInv, UNCHANGED <<sentDSN, nextTxSequence, maxSeqNb>>
  PROVE  SentInv'
BY DEF IInv, SentInv, SegmentsSent, SegmentOrder, SegmentsDisjoint, Ends,
       DataEnds

(* The receiver's part does not look at what the sender's windows do. *)
LEMMA ReceiverFrame ==
  ASSUME IInv, UNCHANGED <<sentDSN, nextTxSequence, receiverVars>>
  PROVE  ReceiverInv'
BY DEF IInv, ReceiverInv, StoredWasSent, DeliveredIsPassed, PassedIsHeld,
       StoredIsAhead, StreamSoFar, Holds, Entry, SegmentOf, Ends, receiverVars,
       rxLoop

(* An acknowledgement number ack that lies between what the sender knows   *)
(* and what the receiver has, and a next number tx to send, keep the       *)
(* sender's numbers in step.                                               *)
LEMMA NumbersFrame ==
  ASSUME IInv, NEW s \in Subflows, NEW ack \in Nat, NEW tx \in Nat,
         UNCHANGED <<sentDSN, maxSeqNb, RxSeqNumber>>,
         TxSeqNumber' = [TxSeqNumber EXCEPT ![s] = tx],
         highestAck' = [highestAck EXCEPT ![s] = ack - 1],
         mapDSN' = [mapDSN EXCEPT ![s] = Unacked(s, ack)],
         Boundary(s, ack), Boundary(s, tx),
         highestAck[s] + 1 <= ack, ack <= RxSeqNumber[s],
         ack <= tx, tx <= maxSeqNb[s] + 1
  PROVE  MapIsUnacked' /\ Boundaries' /\ Progress'
<1>1. /\ TxSeqNumber \in [Subflows -> Nat]
      /\ highestAck \in [Subflows -> Nat]
      /\ mapDSN \in [Subflows -> SUBSET Mapping]
  BY DEF IInv, TypeOK, SenderTypeOK
<1>2. MapIsUnacked'
  <2>1. Unacked(s, ack) = {m \in sentDSN[s] : m.ssn > ack - 1}
    <3>1. \A m \in sentDSN[s] :
            /\ m.ssn \in Nat /\ m.ssn < Ends(m) /\ Ends(m) \in Nat
            /\ m.ssn < ack => Ends(m) <= ack
      BY SegmentTypes, BoundaryCutsNothing
    <3>2. mapDSN[s] = {m \in sentDSN[s] : m.ssn > highestAck[s]}
      BY DEF IInv, SenderInv, MapIsUnacked
    <3>3. highestAck[s] \in Nat
      BY <1>1
    <3>4. \A m \in sentDSN[s] :
            m.ssn > highestAck[s] /\ Ends(m) > ack <=> m.ssn > ack - 1
      BY <3>1, <3>3
    <3>5. QED
      BY <3>2, <3>4 DEF Unacked
  <2>2. SUFFICES ASSUME NEW t \in Subflows
                 PROVE  mapDSN'[t] = {m \in sentDSN[t] : m.ssn > highestAck'[t]}
    BY DEF MapIsUnacked
  <2>3. CASE t = s
    BY <2>1, <2>3, <1>1
  <2>4. CASE t # s
    BY <2>4, <1>1 DEF IInv, SenderInv, MapIsUnacked
  <2>5. QED
    BY <2>3, <2>4
<1>3. Boundaries'
  <2>1. SUFFICES ASSUME NEW t \in Subflows
                 PROVE  /\ Boundary(t, highestAck'[t] + 1)
                        /\ Boundary(t, TxSeqNumber'[t])
                        /\ Boundary(t, RxSeqNumber[t])
                        /\ \A m \in sentDSN[t] : Boundary(t, Ends(m))
    BY DEF Boundaries, Boundary, Ends
  <2>2. /\ Boundary(t, highestAck[t] + 1)
        /\ Boundary(t, TxSeqNumber[t])
        /\ Boundary(t, RxSeqNumber[t])
        /\ \A m \in sentDSN[t] : Boundary(t, Ends(m))
    BY DEF IInv, SenderInv, Boundaries
  <2>3. CASE t = s
    <3>1. highestAck'[s] + 1 = ack /\ TxSeqNumber'[s] = tx
      BY <1>1
    <3>2. QED
      BY <2>2, <2>3, <3>1
  <2>4. CASE t # s
    BY <2>2, <2>4, <1>1
  <2>5. QED
    BY <2>3, <2>4
<1>4. Progress'
  BY <1>1 DEF IInv, SenderInv, Progress
<1>5. QED
  BY <1>2, <1>3, <1>4

(* What the paths hold was sent, and acknowledges what was received. *)
LEMMA PathFrame ==
  ASSUME IInv, NEW s \in Subflows,
         NEW q \in Seq(sentDSN[s]), NEW r \in Seq(AckNumbers(s)),
         UNCHANGED <<sentDSN, maxSeqNb, RxSeqNumber>>,
         dataPath' = [dataPath EXCEPT ![s] = q],
         ackPath' = [ackPath EXCEPT ![s] = r]
  PROVE  /\ InTransit'
         /\ dataPath' \in [Subflows -> Seq(Mapping)]
         /\ ackPath' \in [Subflows -> Seq(Nat)]
<1>1. /\ dataPath \in [Subflows -> Seq(Mapping)]
      /\ ackPath \in [Subflows -> Seq(Nat)]
      /\ sentDSN \in [Subflows -> SUBSET Mapping]
  BY DEF IInv, TypeOK, SenderTypeOK
<1>2. \A t \in Subflows : AckNumbers(t)' = AckNumbers(t)
  BY DEF AckNumbers, Boundary
<1>3. InTransit'
  <2>1. SUFFICES ASSUME NEW t \in Subflows
                 PROVE  /\ dataPath'[t] \in Seq(sentDSN[t])
                        /\ ackPath'[t] \in Seq(AckNumbers(t))
    BY <1>2 DEF InTransit
  <2>2. QED
    BY <1>1 DEF IInv, SenderInv, InTransit
<1>4. q \in Seq(Mapping) /\ r \in Seq(Nat)
  <2>1. sentDSN[s] \subseteq Mapping /\ AckNumbers(s) \subseteq Nat
    BY <1>1 DEF AckNumbers
  <2>2. QED
    BY <2>1, SeqSubset
<1>5. QED
  BY <1>1, <1>3, <1>4

(* Nothing the sender's part looks at has changed. *)
LEMMA SenderFrame ==
  ASSUME IInv,
         UNCHANGED <<seqState, inFastRec, recover, RxSeqNumber, pathVars>>
  PROVE  SenderInv'
BY DEF IInv, SenderInv, MapIsUnacked, Boundaries, Boundary, Progress,
       InTransit, AckNumbers, RecoveryBounds, FastRecoveryEnds, Ends, seqState,
       pathVars

LEMMA ReceiverTypeFrame ==
  ASSUME IInv, UNCHANGED receiverVars
  PROVE  ReceiverTypeOK'
BY DEF IInv, TypeOK, ReceiverTypeOK, receiverVars, rxLoop

-----------------------------------------------------------------------------
(* Acknowledgements and recorded segments. *)

LEMMA AckTaken ==
  ASSUME IInv, NEW s \in Subflows, NEW i \in Leaving(ackPath[s])
  PROVE  /\ ackPath[s][i] \in Nat
         /\ 1 <= ackPath[s][i] /\ ackPath[s][i] <= RxSeqNumber[s]
         /\ ackPath[s][i] <= maxSeqNb[s] + 1
         /\ Boundary(s, ackPath[s][i])
         /\ RemoveAt(ackPath[s], i) \in Seq(AckNumbers(s))
<1>1. ackPath[s] \in Seq(AckNumbers(s))
  BY DEF IInv, SenderInv, InTransit
<1>2. i \in 1 .. Len(ackPath[s])
  BY LeavingIsPosition
<1>3. ackPath[s][i] \in AckNumbers(s)
  BY <1>1, <1>2
<1>4. RxSeqNumber[s] <= maxSeqNb[s] + 1
  BY DEF IInv, SenderInv, Progress
<1>5. RemoveAt(ackPath[s], i) \in Seq(AckNumbers(s))
  BY <1>1, <1>2, RemoveAtSeq
<1>6. QED
  BY <1>3, <1>4, <1>5, NumberTypes DEF AckNumbers

(* A recorded segment was sent and is not acknowledged; a segment that was *)
(* sent and is not acknowledged is recorded.                               *)
LEMMA Recorded ==
  ASSUME IInv, NEW s \in Subflows, NEW m
  PROVE  m \in mapDSN[s] <=> m \in sentDSN[s] /\ m.ssn > highestAck[s]
BY DEF IInv, SenderInv, MapIsUnacked

(* Nothing is discarded by an acknowledgement of what is acknowledged. *)
LEMMA UnackedNow ==
  ASSUME IInv, NEW s \in Subflows
  PROVE  Unacked(s, highestAck[s] + 1) = mapDSN[s]
<1>1. \A m \in mapDSN[s] : Ends(m) > highestAck[s] + 1
  <2>1. TAKE m \in mapDSN[s]
  <2>2. m \in sentDSN[s] /\ m.ssn > highestAck[s]
    BY Recorded
  <2>3. QED
    BY <2>2, SegmentTypes, NumberTypes
<1>2. QED
  BY <1>1 DEF Unacked

(* Resending a segment does not raise what was sent. *)
LEMMA ResentIsBelowMax ==
  ASSUME IInv, NEW s \in Subflows, NEW m \in sentDSN[s]
  PROVE  /\ [maxSeqNb EXCEPT ![s] = Larger(@, Ends(m) - 1)] = maxSeqNb
         /\ [maxSeqNb EXCEPT ![s] =
               Larger(@, Larger(TxSeqNumber[s], Ends(m)) - 1)] = maxSeqNb
<1>1. maxSeqNb \in [Subflows -> Nat]
  BY DEF IInv, TypeOK, SenderTypeOK
<1>2. TxSeqNumber[s] <= maxSeqNb[s] + 1 /\ TxSeqNumber[s] \in Nat
  BY NumberTypes DEF IInv, SenderInv, Progress
<1>3. Ends(m) <= maxSeqNb[s] + 1 /\ Ends(m) \in Nat
  BY SegmentTypes
<1>4. /\ Larger(maxSeqNb[s], Ends(m) - 1) = maxSeqNb[s]
      /\ Larger(maxSeqNb[s], Larger(TxSeqNumber[s], Ends(m)) - 1) = maxSeqNb[s]
  BY <1>1, <1>2, <1>3 DEF Larger
<1>5. QED
  BY <1>1, <1>4

-----------------------------------------------------------------------------
(* The steps of the sender. *)

LEMMA ExceptSame ==
  ASSUME NEW S, NEW T, NEW f \in [S -> T], NEW s \in S
  PROVE  [f EXCEPT ![s] = f[s]] = f
OBVIOUS

(* A step on sub-flow s that sends nothing new keeps the invariant if it   *)
(* keeps the numbers in step, puts on the path only what was sent, and     *)
(* leaves the end of fast recovery ahead.                                  *)
LEMMA SubflowStep ==
  ASSUME IInv, NEW s \in Subflows, SenderTypeOK',
         UNCHANGED <<sentDSN, nextTxSequence, maxSeqNb, receiverVars>>,
         TxSeqNumber' = [TxSeqNumber EXCEPT ![s] = TxSeqNumber'[s]],
         highestAck' = [highestAck EXCEPT ![s] = highestAck'[s]],
         inFastRec' = [inFastRec EXCEPT ![s] = inFastRec'[s]],
         recover' = [recover EXCEPT ![s] = recover'[s]],
         dataPath' = [dataPath EXCEPT ![s] = dataPath'[s]],
         ackPath' = [ackPath EXCEPT ![s] = ackPath'[s]],
         mapDSN' = [mapDSN EXCEPT ![s] = Unacked(s, highestAck'[s] + 1)],
         Boundary(s, highestAck'[s] + 1), Boundary(s, TxSeqNumber'[s]),
         highestAck[s] <= highestAck'[s],
         highestAck'[s] + 1 <= RxSeqNumber[s],
         highestAck'[s] + 1 <= TxSeqNumber'[s],
         TxSeqNumber'[s] <= maxSeqNb[s] + 1,
         dataPath'[s] \in Seq(sentDSN[s]),
         ackPath'[s] \in Seq(AckNumbers(s)),
         inFastRec'[s] => /\ recover'[s] > highestAck'[s] + 1
                          /\ recover'[s] <= maxSeqNb[s] + 1
  PROVE  IInv'
<1> DEFINE ack == highestAck'[s] + 1
<1>0. /\ ack \in Nat /\ highestAck'[s] = ack - 1 /\ highestAck'[s] \in Nat
      /\ highestAck[s] \in Nat /\ TxSeqNumber'[s] \in Nat
  <2>1. highestAck'[s] \in Nat /\ TxSeqNumber'[s] \in Nat
    BY DEF SenderTypeOK
  <2>2. QED
    <3>1. highestAck[s] \in Nat
      BY NumberTypes
    <3>2. QED
      BY <2>1, <3>1
<1>1. UNCHANGED RxSeqNumber
  BY DEF receiverVars
<1>2. MapIsUnacked' /\ Boundaries' /\ Progress'
  <2>1. /\ highestAck' = [highestAck EXCEPT ![s] = ack - 1]
        /\ mapDSN' = [mapDSN EXCEPT ![s] = Unacked(s, ack)]
        /\ Boundary(s, ack) /\ highestAck[s] + 1 <= ack
        /\ ack <= RxSeqNumber[s] /\ ack <= TxSeqNumber'[s]
    BY <1>0
  <2> HIDE DEF ack
  <2>2. QED
    BY <1>0, <1>1, <2>1, NumbersFrame
<1>3. /\ InTransit'
      /\ dataPath' \in [Subflows -> Seq(Mapping)]
      /\ ackPath' \in [Subflows -> Seq(Nat)]
  BY <1>1, PathFrame
<1>4. RecoveryBounds'
  <2>1. /\ inFastRec \in [Subflows -> BOOLEAN]
        /\ recover \in [Subflows -> Nat]
        /\ highestAck \in [Subflows -> Nat]
    BY DEF IInv, TypeOK, SenderTypeOK
  <2>2. SUFFICES ASSUME NEW t \in Subflows, inFastRec'[t]
                 PROVE  /\ recover'[t] > highestAck'[t] + 1
                        /\ recover'[t] <= maxSeqNb[t] + 1
    BY DEF RecoveryBounds, FastRecoveryEnds
  <2>3. CASE t = s
    BY <2>1, <2>2, <2>3
  <2>4. CASE t # s
    BY <2>1, <2>2, <2>4
       DEF IInv, SenderInv, RecoveryBounds, FastRecoveryEnds
  <2>5. QED
    BY <2>3, <2>4
<1>5. SentInv' /\ ReceiverInv'
  BY SentFrame, ReceiverFrame
<1>6. TypeOK'
  BY <1>3, ReceiverTypeFrame DEF TypeOK
<1>7. QED
  BY <1>2, <1>3, <1>4, <1>5, <1>6 DEF IInv, SenderInv

(* The loop of SendPendingData is entered on a sub-flow or not at all. *)
LEMMA CallTypes ==
  ASSUME NEW s \in Subflows, CallSendPendingData(s)
  PROVE  txPhase' \in {"idle", "send", "resend"} /\ txFlow' \in Subflows
<1>1. 0 \in Subflows
  BY PathAssumption DEF Subflows
<1>2. QED
  BY <1>1 DEF CallSendPendingData

LEMMA LeaveTypes ==
  ASSUME LeaveSendPendingData
  PROVE  txPhase' \in {"idle", "send", "resend"} /\ txFlow' \in Subflows
BY PathAssumption DEF LeaveSendPendingData, Subflows

LEMMA RoundRobinType ==
  ASSUME NEW i \in Subflows, NEW k \in 0 .. MaxSubflows
  PROVE  RoundRobin(i, k) \in Subflows
BY PathAssumption DEF RoundRobin, Subflows

(* A step that changes nothing of the sub-flows. *)
LEMMA SendStateStep ==
  ASSUME IInv, SenderTypeOK',
         UNCHANGED <<nextTxSequence, seqState, ccState, pathVars, receiverVars>>
  PROVE  IInv'
<1>1. SentInv'
  BY SentFrame DEF seqState
<1>2. SenderInv'
  BY SenderFrame DEF ccState, receiverVars
<1>3. ReceiverInv'
  BY ReceiverFrame DEF seqState
<1>4. TypeOK'
  BY ReceiverTypeFrame DEF IInv, TypeOK, pathVars
<1>5. QED
  BY <1>1, <1>2, <1>3, <1>4 DEF IInv

LEMMA SendDataKeeps ==
  ASSUME IInv, SendData, UNCHANGED receiverVars
  PROVE  IInv'
<1>1. SenderTypeOK'
  <2>1. sendingBuffer \in Nat
    BY DEF IInv, TypeOK, SenderTypeOK
  <2>2. Smaller(SendSize, FreeSpace) \in Int
    BY <2>1, SenderAssumption DEF Smaller, FreeSpace
  <2>3. sendingBuffer' \in Nat
    BY <2>1, <2>2 DEF SendData
  <2>4. 0 \in Subflows
    BY PathAssumption DEF Subflows
  <2>5. QED
    BY <2>3, <2>4 DEF SendData, IInv, TypeOK, SenderTypeOK, seqState, ccState
<1>2. QED
  BY <1>1, SendStateStep DEF SendData

LEMMA IdleTimeoutKeeps ==
  ASSUME IInv, NEW s \in Subflows, IdleTimeout(s), UNCHANGED receiverVars
  PROVE  IInv'
<1>1. SenderTypeOK'
  BY DEF IdleTimeout, IInv, TypeOK, SenderTypeOK, sendState, seqState, ccState,
         txLoop
<1>2. QED
  BY <1>1, SendStateStep DEF IdleTimeout, sendState

(* A retransmission: a recorded segment goes out again, and the sub-flow   *)
(* goes on behind it.                                                      *)
LEMMA Retransmission ==
  ASSUME IInv, NEW s \in Subflows, NEW m \in mapDSN[s]
  PROVE  /\ m \in sentDSN[s]
         /\ Ends(m) \in Nat /\ Boundary(s, Ends(m))
         /\ highestAck[s] + 1 < Ends(m) /\ Ends(m) <= maxSeqNb[s] + 1
         /\ Enqueue(dataPath[s], m) \in Seq(sentDSN[s])
<1>1. m \in sentDSN[s] /\ m.ssn > highestAck[s]
  BY Recorded
<1>2. dataPath[s] \in Seq(sentDSN[s])
  BY DEF IInv, SenderInv, InTransit
<1>3. Enqueue(dataPath[s], m) \in Seq(sentDSN[s])
  BY <1>1, <1>2, EnqueueSeq
<1>4. QED
  BY <1>1, <1>3, SegmentTypes, NumberTypes

(* What a step that resends m on sub-flow s does to the numbers.           *)
Resent(s, m) ==
  /\ TxSeqNumber' = [TxSeqNumber EXCEPT ![s] = Ends(m)]
  /\ dataPath' = [dataPath EXCEPT ![s] = Enqueue(@, m)]
  /\ inFastRec' = [inFastRec EXCEPT ![s] = inFastRec'[s]]
  /\ inFastRec'[s] => inFastRec[s]
  /\ UNCHANGED <<highestAck, maxSeqNb, mapDSN, sentDSN, nextTxSequence,
                 recover, ackPath>>

LEMMA ResentKeeps ==
  ASSUME IInv, NEW s \in Subflows, NEW m \in mapDSN[s], Resent(s, m),
         UNCHANGED receiverVars, SenderTypeOK'
  PROVE  IInv'
<1>1. /\ m \in sentDSN[s]
      /\ Ends(m) \in Nat /\ Boundary(s, Ends(m))
      /\ highestAck[s] + 1 < Ends(m) /\ Ends(m) <= maxSeqNb[s] + 1
      /\ Enqueue(dataPath[s], m) \in Seq(sentDSN[s])
  BY Retransmission
<1>2. /\ TxSeqNumber \in [Subflows -> Nat]
      /\ highestAck \in [Subflows -> Nat]
      /\ mapDSN \in [Subflows -> SUBSET Mapping]
      /\ recover \in [Subflows -> Nat]
      /\ dataPath \in [Subflows -> Seq(Mapping)]
      /\ ackPath \in [Subflows -> Seq(Nat)]
  BY DEF IInv, TypeOK, SenderTypeOK
<1>3. /\ TxSeqNumber'[s] = Ends(m)
      /\ TxSeqNumber' = [TxSeqNumber EXCEPT ![s] = TxSeqNumber'[s]]
      /\ dataPath'[s] = Enqueue(dataPath[s], m)
      /\ dataPath' = [dataPath EXCEPT ![s] = dataPath'[s]]
  BY <1>2 DEF Resent
<1>4. /\ highestAck' = highestAck /\ recover' = recover
      /\ mapDSN' = mapDSN /\ ackPath' = ackPath
      /\ UNCHANGED <<sentDSN, nextTxSequence, maxSeqNb, receiverVars>>
      /\ inFastRec' = [inFastRec EXCEPT ![s] = inFastRec'[s]]
      /\ inFastRec'[s] => inFastRec[s]
  BY DEF Resent
<1>5. /\ highestAck' = [highestAck EXCEPT ![s] = highestAck'[s]]
      /\ recover' = [recover EXCEPT ![s] = recover'[s]]
      /\ ackPath' = [ackPath EXCEPT ![s] = ackPath'[s]]
      /\ mapDSN' = [mapDSN EXCEPT ![s] = Unacked(s, highestAck'[s] + 1)]
  BY <1>2, <1>4, UnackedNow
<1>6. /\ Boundary(s, highestAck'[s] + 1)
      /\ highestAck[s] <= highestAck'[s]
      /\ highestAck'[s] + 1 <= RxSeqNumber[s]
      /\ highestAck'[s] + 1 <= TxSeqNumber'[s]
      /\ TxSeqNumber'[s] <= maxSeqNb[s] + 1
      /\ ackPath'[s] \in Seq(AckNumbers(s))
  BY <1>1, <1>2, <1>3, <1>4
     DEF IInv, SenderInv, Boundaries, Progress, InTransit
<1>7. inFastRec'[s] => /\ recover'[s] > highestAck'[s] + 1
                       /\ recover'[s] <= maxSeqNb[s] + 1
  BY <1>4 DEF IInv, SenderInv, RecoveryBounds, FastRecoveryEnds
<1>8. QED
  BY <1>1, <1>3, <1>4, <1>5, <1>6, <1>7, SubflowStep, ZenonT(40)

LEMMA ResendKeeps ==
  ASSUME IInv, NEW s \in Subflows, ResendSegment(s), UNCHANGED receiverVars,
         lastUsedsFlowIdx' \in Subflows, UNCHANGED txLoop
  PROVE  IInv'
<1>1. PICK m \in mapDSN[s] :
        /\ m.ssn = TxSeqNumber[s]
        /\ Transmit(s, m)
        /\ TxSeqNumber' = [TxSeqNumber EXCEPT ![s] = Ends(m)]
        /\ maxSeqNb' = [maxSeqNb EXCEPT ![s] = Larger(@, Ends(m) - 1)]
        /\ retxEvent' = [retxEvent EXCEPT ![s] = TRUE]
        /\ UNCHANGED <<sendingBuffer, nextTxSequence, highestAck, mapDSN,
                       sentDSN, ccState>>
  BY DEF ResendSegment
<1>2. /\ m \in sentDSN[s]
      /\ Ends(m) \in Nat /\ Boundary(s, Ends(m))
      /\ highestAck[s] + 1 < Ends(m) /\ Ends(m) <= maxSeqNb[s] + 1
      /\ Enqueue(dataPath[s], m) \in Seq(sentDSN[s])
  BY Retransmission
<1>3. UNCHANGED maxSeqNb
  BY <1>1, <1>2, ResentIsBelowMax
<1>4. SenderTypeOK'
  BY <1>1, <1>2, <1>3 DEF IInv, TypeOK, SenderTypeOK, ccState, txLoop
<1>5. Resent(s, m)
  <2>1. inFastRec' = inFastRec /\ inFastRec \in [Subflows -> BOOLEAN]
    BY <1>1 DEF IInv, TypeOK, SenderTypeOK, ccState
  <2>2. inFastRec' = [inFastRec EXCEPT ![s] = inFastRec'[s]]
    BY <2>1, ExceptSame
  <2>3. QED
    BY <1>1, <1>3, <2>1, <2>2 DEF Resent, Transmit, ccState
<1>6. QED
  BY <1>2, <1>4, <1>5, ResentKeeps

LEMMA RetransmitKeeps ==
  ASSUME IInv, NEW s \in Subflows, Retransmit(s), UNCHANGED receiverVars
  PROVE  IInv'
<1>1. PICK m \in mapDSN[s] :
        /\ m.ssn = highestAck[s] + 1
        /\ Transmit(s, m)
        /\ TxSeqNumber' = [TxSeqNumber EXCEPT ![s] = Ends(m)]
        /\ maxSeqNb' = [maxSeqNb EXCEPT ![s] = Larger(@, Ends(m) - 1)]
  BY DEF Retransmit, DoRetransmitFirst
<1>2. /\ m \in sentDSN[s]
      /\ Ends(m) \in Nat /\ Boundary(s, Ends(m))
      /\ highestAck[s] + 1 < Ends(m) /\ Ends(m) <= maxSeqNb[s] + 1
      /\ Enqueue(dataPath[s], m) \in Seq(sentDSN[s])
  BY Retransmission
<1>3. UNCHANGED maxSeqNb
  BY <1>1, <1>2, ResentIsBelowMax
<1>4. SenderTypeOK'
  <2>1. Threshold(BytesInFlight(s) \div 2) \in Nat /\ MSS \in Nat
    BY SenderAssumption, NumberTypes DEF Threshold, Larger
  <2>2. QED
    BY <1>1, <1>2, <1>3, <2>1
       DEF Retransmit, DoRetransmitFirst, IInv, TypeOK, SenderTypeOK, sendState, txLoop
<1>5. Resent(s, m)
  <2>1. inFastRec' = [inFastRec EXCEPT ![s] = FALSE]
    BY DEF Retransmit
  <2>2. ~inFastRec'[s]
    BY <2>1 DEF IInv, TypeOK, SenderTypeOK
  <2>3. inFastRec' = [inFastRec EXCEPT ![s] = inFastRec'[s]]
    BY <2>1, <2>2
  <2>4. QED
    BY <1>1, <1>3, <2>2, <2>3 DEF Resent, Retransmit, DoRetransmitFirst, Transmit, sendState
<1>6. QED
  BY <1>2, <1>4, <1>5, ResentKeeps

(* An acknowledgement that moves none of the sub-flow's numbers.           *)
LEMMA AckOnlyKeeps ==
  ASSUME IInv, NEW s \in Subflows, NEW i \in Leaving(ackPath[s]),
         TakeAck(s, i), SenderTypeOK',
         UNCHANGED <<seqState, nextTxSequence, inFastRec, recover, dataPath,
                     receiverVars>>
  PROVE  IInv'
<1>1. UNCHANGED <<sentDSN, maxSeqNb, RxSeqNumber>>
  BY DEF seqState, receiverVars
<1>2. /\ InTransit'
      /\ dataPath' \in [Subflows -> Seq(Mapping)]
      /\ ackPath' \in [Subflows -> Seq(Nat)]
  <2>1. RemoveAt(ackPath[s], i) \in Seq(AckNumbers(s))
    BY AckTaken
  <2>2. dataPath[s] \in Seq(sentDSN[s])
    BY DEF IInv, SenderInv, InTransit
  <2>3. dataPath' = [dataPath EXCEPT ![s] = dataPath[s]]
    BY ExceptSame DEF IInv, TypeOK
  <2>4. ackPath' = [ackPath EXCEPT ![s] = RemoveAt(ackPath[s], i)]
    BY DEF TakeAck
  <2>5. QED
    BY <1>1, <2>1, <2>2, <2>3, <2>4, PathFrame
<1>3. MapIsUnacked' /\ Boundaries' /\ Progress' /\ RecoveryBounds'
  BY <1>1 DEF IInv, SenderInv, MapIsUnacked, Boundaries, Boundary, Progress,
              RecoveryBounds, FastRecoveryEnds, Ends, seqState
<1>4. SentInv' /\ ReceiverInv'
  BY <1>1, SentFrame, ReceiverFrame
<1>5. TypeOK'
  BY <1>2, ReceiverTypeFrame DEF TypeOK
<1>6. QED
  BY <1>2, <1>3, <1>4, <1>5 DEF IInv, SenderInv

LEMMA IgnoredAckKeeps ==
  ASSUME IInv, NEW s \in Subflows, NEW i \in Leaving(ackPath[s]),
         IgnoredAck(s, i), UNCHANGED receiverVars
  PROVE  IInv'
<1>1. SenderTypeOK'
  BY DEF IgnoredAck, IInv, TypeOK, SenderTypeOK, senderVars, sendState,
         seqState, ccState, txLoop
<1>2. QED
  BY <1>1, AckOnlyKeeps DEF IgnoredAck, senderVars, sendState, ccState

(* What wraps around is a number again. *)
LEMMA UnsignedTypes ==
  ASSUME NEW n \in Int
  PROVE  Unsigned(n) \in Nat
BY SenderAssumption DEF Unsigned

LEMMA CountedDupAckKeeps ==
  ASSUME IInv, NEW s \in Subflows, NEW i \in Leaving(ackPath[s]),
         CountedDupAck(s, i), UNCHANGED receiverVars
  PROVE  IInv'
<1>1. SenderTypeOK'
  <2>1. dupAckCount' \in [Subflows -> 0 .. DupAckCap]
    <3>1. dupAckCount \in [Subflows -> 0 .. DupAckCap]
      BY DEF IInv, TypeOK, SenderTypeOK
    <3>2. Smaller(dupAckCount[s] + 1, DupAckCap) \in 0 .. DupAckCap
      BY <3>1 DEF Smaller, DupAckCap
    <3>3. QED
      BY <3>1, <3>2 DEF CountedDupAck
  <2>2. /\ cwnd' \in [Subflows -> Nat]
        /\ txPhase' \in {"idle", "send", "resend"} /\ txFlow' \in Subflows
    <3>1. CASE inFastRec[s]
      <4>1. cwnd' = [cwnd EXCEPT ![s] = Unsigned(@ + MSS)] /\ CallSendPendingData(s)
        BY <3>1 DEF CountedDupAck
      <4>2. cwnd' \in [Subflows -> Nat]
        <5>1. cwnd \in [Subflows -> Nat] /\ MSS \in Nat
          BY SenderAssumption DEF IInv, TypeOK, SenderTypeOK
        <5>2. Unsigned(cwnd[s] + MSS) \in Nat
          <6>1. cwnd[s] + MSS \in Int
            BY <5>1
          <6>2. QED
            BY <6>1, UnsignedTypes
        <5>3. QED
          BY <4>1, <5>1, <5>2
      <4>3. QED
        BY <4>1, <4>2, CallTypes
    <3>2. CASE ~inFastRec[s]
      <4>1. UNCHANGED <<cwnd, txLoop>>
        BY <3>2 DEF CountedDupAck
      <4>2. QED
        BY <4>1 DEF IInv, TypeOK, SenderTypeOK, txLoop
    <3>3. QED
      BY <3>1, <3>2
  <2>3. QED
    BY <2>1, <2>2
       DEF CountedDupAck, IInv, TypeOK, SenderTypeOK, sendState, seqState
<1>2. QED
  BY <1>1, AckOnlyKeeps DEF CountedDupAck, sendState

LEMMA ThirdDupAckKeeps ==
  ASSUME IInv, NEW s \in Subflows, NEW i \in Leaving(ackPath[s]),
         ThirdDupAck(s, i), UNCHANGED receiverVars
  PROVE  IInv'
<1> DEFINE a == ackPath[s][i]
<1>1. PICK m \in mapDSN[s] :
        /\ m.ssn = a
        /\ dataPath' = [dataPath EXCEPT ![s] = Enqueue(@, m)]
        /\ TxSeqNumber' = [TxSeqNumber EXCEPT ![s] = Larger(@, Ends(m))]
        /\ maxSeqNb' = [maxSeqNb EXCEPT ![s] =
                          Larger(@, Larger(TxSeqNumber[s], Ends(m)) - 1)]
  BY DEF ThirdDupAck, DoRetransmit
<1>2. /\ m \in sentDSN[s]
      /\ Ends(m) \in Nat /\ Boundary(s, Ends(m))
      /\ highestAck[s] + 1 < Ends(m) /\ Ends(m) <= maxSeqNb[s] + 1
      /\ Enqueue(dataPath[s], m) \in Seq(sentDSN[s])
  BY Retransmission
<1>3. UNCHANGED maxSeqNb
  BY <1>1, <1>2, ResentIsBelowMax
<1>4. /\ TxSeqNumber \in [Subflows -> Nat] /\ maxSeqNb \in [Subflows -> Nat]
      /\ highestAck \in [Subflows -> Nat]
      /\ mapDSN \in [Subflows -> SUBSET Mapping]
      /\ recover \in [Subflows -> Nat]
      /\ inFastRec \in [Subflows -> BOOLEAN]
      /\ dataPath \in [Subflows -> Seq(Mapping)]
      /\ ackPath \in [Subflows -> Seq(Nat)]
  BY DEF IInv, TypeOK, SenderTypeOK
<1>5. SenderTypeOK'
  <2>1. PICK half \in Halved(s) :
          ssthresh' = [ssthresh EXCEPT ![s] = Threshold(half)]
    BY DEF ThirdDupAck
  <2>2. Larger(TxSeqNumber[s], Ends(m)) \in Nat
    BY <1>2, <1>4 DEF Larger
  <2>3. ssthresh' \in [Subflows -> Nat]
    <3>1. Threshold(half) \in Nat
      BY HalvedTypes
    <3>2. QED
      BY <2>1, <3>1 DEF IInv, TypeOK, SenderTypeOK
  <2>4. cwnd' \in [Subflows -> Nat]
    <3>1. ssthresh'[s] + 3 * MSS \in Nat
      BY <2>3, SenderAssumption
    <3>2. QED
      BY <3>1 DEF ThirdDupAck, DoRetransmit, IInv, TypeOK, SenderTypeOK
  <2>5. dupAckCount' \in [Subflows -> 0 .. DupAckCap]
    BY DEF ThirdDupAck, IInv, TypeOK, SenderTypeOK, DupAckCap
  <2>6. TxSeqNumber' \in [Subflows -> Nat] /\ recover' \in [Subflows -> Nat]
    <3>1. TxSeqNumber' \in [Subflows -> Nat]
      BY <1>1, <1>4, <2>2
    <3>2. maxSeqNb[s] + 1 \in Nat
      BY <1>4
    <3>3. recover' = [recover EXCEPT ![s] = maxSeqNb[s] + 1]
      BY DEF ThirdDupAck
    <3>4. QED
      BY <1>4, <3>1, <3>2, <3>3
  <2>7. QED
    BY <1>3, <2>3, <2>4, <2>5, <2>6
       DEF ThirdDupAck, DoRetransmit, IInv, TypeOK, SenderTypeOK, sendState, txLoop
<1>6. /\ TxSeqNumber'[s] = Larger(TxSeqNumber[s], Ends(m))
      /\ TxSeqNumber' = [TxSeqNumber EXCEPT ![s] = TxSeqNumber'[s]]
      /\ dataPath'[s] = Enqueue(dataPath[s], m)
      /\ dataPath' = [dataPath EXCEPT ![s] = dataPath'[s]]
  BY <1>1, <1>4
<1>7. /\ ackPath'[s] = RemoveAt(ackPath[s], i)
      /\ ackPath' = [ackPath EXCEPT ![s] = ackPath'[s]]
      /\ recover'[s] = maxSeqNb[s] + 1
      /\ recover' = [recover EXCEPT ![s] = recover'[s]]
      /\ inFastRec' = [inFastRec EXCEPT ![s] = inFastRec'[s]]
  BY <1>4 DEF ThirdDupAck, TakeAck
<1>8. /\ highestAck' = highestAck /\ mapDSN' = mapDSN
      /\ UNCHANGED <<sentDSN, nextTxSequence, maxSeqNb, receiverVars>>
  BY <1>3 DEF ThirdDupAck, sendState
<1>9. /\ highestAck' = [highestAck EXCEPT ![s] = highestAck'[s]]
      /\ mapDSN' = [mapDSN EXCEPT ![s] = Unacked(s, highestAck'[s] + 1)]
  BY <1>4, <1>8, UnackedNow
<1>10. /\ Boundary(s, highestAck'[s] + 1)
       /\ highestAck[s] <= highestAck'[s]
       /\ highestAck'[s] + 1 <= RxSeqNumber[s]
       /\ Boundary(s, TxSeqNumber[s])
       /\ highestAck'[s] + 1 <= TxSeqNumber[s]
       /\ TxSeqNumber[s] <= maxSeqNb[s] + 1
  BY <1>4, <1>8 DEF IInv, SenderInv, Boundaries, Progress
<1>11. /\ Boundary(s, TxSeqNumber'[s])
       /\ highestAck'[s] + 1 <= TxSeqNumber'[s]
       /\ TxSeqNumber'[s] <= maxSeqNb[s] + 1
  BY <1>2, <1>4, <1>6, <1>8, <1>10 DEF Larger
<1>12. ackPath'[s] \in Seq(AckNumbers(s))
  BY <1>7, AckTaken
<1>13. /\ recover'[s] > highestAck'[s] + 1
       /\ recover'[s] <= maxSeqNb[s] + 1
  BY <1>2, <1>4, <1>7, <1>8
<1>14. QED
  BY <1>2, <1>5, <1>6, <1>7, <1>8, <1>9, <1>10, <1>11, <1>12, <1>13, SubflowStep

(* What NewACK does to the types and to the numbers of the sub-flow.       *)
LEMMA NewACKNumbers ==
  ASSUME IInv, NEW s \in Subflows, NEW i \in Leaving(ackPath[s]),
         NewACK(s, ackPath[s][i]), IsNewAck(s, ackPath[s][i])
  PROVE  /\ highestAck'[s] + 1 = ackPath[s][i] /\ highestAck'[s] \in Nat
         /\ highestAck' = [highestAck EXCEPT ![s] = highestAck'[s]]
         /\ mapDSN' = [mapDSN EXCEPT ![s] = Unacked(s, highestAck'[s] + 1)]
         /\ recover' = [recover EXCEPT ![s] = recover'[s]]
         /\ recover'[s] = recover[s]
         /\ Boundary(s, highestAck'[s] + 1)
         /\ highestAck[s] <= highestAck'[s]
         /\ highestAck'[s] + 1 <= RxSeqNumber[s]
         /\ highestAck'[s] + 1 <= maxSeqNb[s] + 1
<1> DEFINE a == ackPath[s][i]
<1>1. /\ highestAck \in [Subflows -> Nat]
      /\ recover \in [Subflows -> Nat]
      /\ mapDSN \in [Subflows -> SUBSET Mapping]
  BY DEF IInv, TypeOK, SenderTypeOK
<1>2. /\ a \in Nat /\ a <= RxSeqNumber[s] /\ a <= maxSeqNb[s] + 1
      /\ Boundary(s, a) /\ a > highestAck[s] + 1
  BY AckTaken DEF IsNewAck
<1>3. Larger(highestAck[s], a - 1) = a - 1
  BY <1>1, <1>2 DEF Larger
<1>4. highestAck' = [highestAck EXCEPT ![s] = a - 1]
  BY <1>1, <1>3 DEF NewACK
<1>5. highestAck'[s] = a - 1 /\ a - 1 + 1 = a /\ a - 1 \in Nat
  BY <1>1, <1>2, <1>4
<1>6. mapDSN' = [mapDSN EXCEPT ![s] = Unacked(s, a)]
  BY DEF NewACK
<1>7. highestAck'[s] + 1 = a
  BY <1>5
<1>8. /\ recover' = [recover EXCEPT ![s] = recover'[s]]
      /\ recover'[s] = recover[s]
  BY <1>1 DEF NewACK
<1>9. highestAck[s] <= highestAck'[s]
  BY <1>1, <1>2, <1>5
<1>10. /\ highestAck' = [highestAck EXCEPT ![s] = highestAck'[s]]
       /\ mapDSN' = [mapDSN EXCEPT ![s] = Unacked(s, highestAck'[s] + 1)]
  BY <1>4, <1>5, <1>6, <1>7
<1>11. QED
  BY <1>2, <1>5, <1>7, <1>8, <1>9, <1>10

LEMMA NewACKTypes ==
  ASSUME IInv, NEW s \in Subflows, NEW a \in Nat, NewACK(s, a),
         TxSeqNumber' \in [Subflows -> Nat], maxSeqNb' \in [Subflows -> Nat],
         cwnd' \in [Subflows -> Nat], inFastRec' \in [Subflows -> BOOLEAN],
         highestAck'[s] \in Nat,
         highestAck' = [highestAck EXCEPT ![s] = highestAck'[s]]
  PROVE  SenderTypeOK'
<1>1. mapDSN' \in [Subflows -> SUBSET Mapping]
  BY DEF NewACK, Unacked, IInv, TypeOK, SenderTypeOK
<1>2. highestAck' \in [Subflows -> Nat]
  BY DEF IInv, TypeOK, SenderTypeOK
<1>3. retxEvent' \in [Subflows -> BOOLEAN]
  <2>1. retxEvent \in [Subflows -> BOOLEAN]
    BY DEF IInv, TypeOK, SenderTypeOK
  <2>2. (~NothingLeft(s, a)) \in BOOLEAN
    OBVIOUS
  <2>3. retxEvent' = [retxEvent EXCEPT ![s] = ~NothingLeft(s, a)]
    BY DEF NewACK
  <2>4. QED
    BY <2>1, <2>2, <2>3
<1>4. dupAckCount' \in [Subflows -> 0 .. DupAckCap]
  BY DEF NewACK, IInv, TypeOK, SenderTypeOK, DupAckCap
<1>5. txPhase' \in {"idle", "send", "resend"} /\ txFlow' \in Subflows
  BY CallTypes DEF NewACK
<1>6. QED
  BY <1>1, <1>2, <1>3, <1>4, <1>5
     DEF NewACK, IInv, TypeOK, SenderTypeOK, sendState

LEMMA PartialAckKeeps ==
  ASSUME IInv, NEW s \in Subflows, NEW i \in Leaving(ackPath[s]),
         PartialAck(s, i), UNCHANGED receiverVars
  PROVE  IInv'
<1> DEFINE a == ackPath[s][i]
<1>1. IsPartialAck(s, a) /\ TakeAck(s, i) /\ NewACK(s, a) /\ IsNewAck(s, a)
  BY DEF PartialAck, IsPartialAck
<1>2. PICK m \in Unacked(s, a) :
        /\ m.ssn = a
        /\ dataPath' = [dataPath EXCEPT ![s] = Enqueue(@, m)]
        /\ TxSeqNumber' = [TxSeqNumber EXCEPT ![s] = Larger(@, Ends(m))]
        /\ maxSeqNb' = [maxSeqNb EXCEPT ![s] =
                          Larger(@, Larger(TxSeqNumber[s], Ends(m)) - 1)]
  BY DEF PartialAck, DoRetransmit
<1>3. m \in mapDSN[s] /\ Ends(m) > a
  BY <1>2 DEF Unacked
<1>4. /\ m \in sentDSN[s]
      /\ Ends(m) \in Nat /\ Boundary(s, Ends(m))
      /\ highestAck[s] + 1 < Ends(m) /\ Ends(m) <= maxSeqNb[s] + 1
      /\ Enqueue(dataPath[s], m) \in Seq(sentDSN[s])
  BY <1>3, Retransmission
<1>5. UNCHANGED maxSeqNb
  BY <1>2, <1>4, ResentIsBelowMax
<1>6. /\ TxSeqNumber \in [Subflows -> Nat] /\ maxSeqNb \in [Subflows -> Nat]
      /\ inFastRec \in [Subflows -> BOOLEAN]
      /\ cwnd \in [Subflows -> Nat] /\ highestAck \in [Subflows -> Nat]
      /\ dataPath \in [Subflows -> Seq(Mapping)]
      /\ ackPath \in [Subflows -> Seq(Nat)]
      /\ recover \in [Subflows -> Nat]
  BY DEF IInv, TypeOK, SenderTypeOK
<1>7. /\ highestAck'[s] + 1 = a
      /\ highestAck' = [highestAck EXCEPT ![s] = highestAck'[s]]
      /\ mapDSN' = [mapDSN EXCEPT ![s] = Unacked(s, highestAck'[s] + 1)]
      /\ recover' = [recover EXCEPT ![s] = recover'[s]]
      /\ recover'[s] = recover[s]
      /\ Boundary(s, highestAck'[s] + 1)
      /\ highestAck[s] <= highestAck'[s]
      /\ highestAck'[s] + 1 <= RxSeqNumber[s]
  BY <1>1, NewACKNumbers
<1>8. a \in Nat /\ a > highestAck[s] + 1 /\ a < recover[s]
  BY <1>1, AckTaken DEF IsPartialAck, IsNewAck
<1>9. highestAck'[s] \in Nat
  BY <1>1, NewACKNumbers
<1>10. /\ TxSeqNumber'[s] = Larger(TxSeqNumber[s], Ends(m))
       /\ TxSeqNumber' = [TxSeqNumber EXCEPT ![s] = TxSeqNumber'[s]]
       /\ TxSeqNumber'[s] \in Nat
       /\ dataPath'[s] = Enqueue(dataPath[s], m)
       /\ dataPath' = [dataPath EXCEPT ![s] = dataPath'[s]]
       /\ ackPath'[s] = RemoveAt(ackPath[s], i)
       /\ ackPath' = [ackPath EXCEPT ![s] = ackPath'[s]]
  BY <1>1, <1>2, <1>4, <1>6 DEF Larger, TakeAck
<1>11. inFastRec' = inFastRec
  BY DEF PartialAck, DoRetransmit
<1>12. inFastRec' = [inFastRec EXCEPT ![s] = inFastRec'[s]]
  BY <1>6, <1>11, ExceptSame
<1>13. SenderTypeOK'
  <2>1. cwnd' \in [Subflows -> Nat]
    <3>1. Unsigned(cwnd[s] - (a - (highestAck[s] + 1)) + MSS) \in Nat
      <4>1. cwnd[s] - (a - (highestAck[s] + 1)) + MSS \in Int
        <5>1. cwnd[s] \in Nat /\ highestAck[s] \in Nat /\ MSS \in Nat /\ a \in Nat
          BY <1>8, NumberTypes, SenderAssumption
        <5>2. QED
          BY <5>1
      <4>2. QED
        BY <4>1, UnsignedTypes
    <3>2. QED
      BY <1>6, <3>1 DEF PartialAck, DoRetransmit
  <2>2. TxSeqNumber' \in [Subflows -> Nat]
    BY <1>6, <1>10
  <2>3. QED
    BY <1>1, <1>5, <1>6, <1>7, <1>8, <1>9, <1>11, <2>1, <2>2, NewACKTypes
<1>14. UNCHANGED <<sentDSN, nextTxSequence, maxSeqNb, receiverVars>>
  BY <1>1, <1>5 DEF NewACK, sendState
<1>15. /\ Boundary(s, TxSeqNumber[s])
       /\ TxSeqNumber[s] <= maxSeqNb[s] + 1
  BY DEF IInv, SenderInv, Boundaries, Progress
<1>16. /\ Boundary(s, TxSeqNumber'[s])
       /\ highestAck'[s] + 1 <= TxSeqNumber'[s]
       /\ TxSeqNumber'[s] <= maxSeqNb[s] + 1
  <2>1. Ends(m) >= a
    BY <1>3, <1>4, <1>8
  <2>2. QED
    BY <1>4, <1>6, <1>7, <1>8, <1>10, <1>15, <2>1 DEF Larger
<1>17. ackPath'[s] \in Seq(AckNumbers(s))
  BY <1>10, AckTaken
<1>18. inFastRec[s] => recover[s] <= maxSeqNb[s] + 1
  BY DEF IInv, SenderInv, RecoveryBounds, FastRecoveryEnds
<1>19. inFastRec'[s] => /\ recover'[s] > highestAck'[s] + 1
                        /\ recover'[s] <= maxSeqNb[s] + 1
  BY <1>7, <1>8, <1>11, <1>18, <1>6
<1>20. QED
  BY <1>4, <1>7, <1>10, <1>12, <1>13, <1>14, <1>16, <1>17, <1>19, SubflowStep

LEMMA FullAckKeeps ==
  ASSUME IInv, NEW s \in Subflows, NEW i \in Leaving(ackPath[s]),
         FullAck(s, i), UNCHANGED receiverVars
  PROVE  IInv'
<1> DEFINE a == ackPath[s][i]
<1>1. IsNewAck(s, a) /\ TakeAck(s, i) /\ NewACK(s, a) /\ SkipAcknowledged(s, a)
  BY DEF FullAck
<1>2. /\ TxSeqNumber \in [Subflows -> Nat] /\ maxSeqNb \in [Subflows -> Nat]
      /\ inFastRec \in [Subflows -> BOOLEAN] /\ recover \in [Subflows -> Nat]
      /\ cwnd \in [Subflows -> Nat] /\ highestAck \in [Subflows -> Nat]
      /\ dataPath \in [Subflows -> Seq(Mapping)]
      /\ ackPath \in [Subflows -> Seq(Nat)]
  BY DEF IInv, TypeOK, SenderTypeOK
<1>3. /\ highestAck'[s] + 1 = a /\ highestAck'[s] \in Nat
      /\ highestAck' = [highestAck EXCEPT ![s] = highestAck'[s]]
      /\ mapDSN' = [mapDSN EXCEPT ![s] = Unacked(s, highestAck'[s] + 1)]
      /\ recover' = [recover EXCEPT ![s] = recover'[s]]
      /\ Boundary(s, highestAck'[s] + 1)
      /\ highestAck[s] <= highestAck'[s]
      /\ highestAck'[s] + 1 <= RxSeqNumber[s]
      /\ highestAck'[s] + 1 <= maxSeqNb[s] + 1
  BY <1>1, NewACKNumbers
<1>4. a \in Nat /\ a > highestAck[s] + 1
  BY <1>1, AckTaken DEF IsNewAck
<1>5. /\ TxSeqNumber'[s] = Larger(TxSeqNumber[s], a)
      /\ TxSeqNumber'[s] \in Nat
      /\ TxSeqNumber' = [TxSeqNumber EXCEPT ![s] = TxSeqNumber'[s]]
  BY <1>1, <1>2, <1>4 DEF SkipAcknowledged, Larger
<1>6. /\ ackPath'[s] = RemoveAt(ackPath[s], i)
      /\ ackPath' = [ackPath EXCEPT ![s] = ackPath'[s]]
  BY <1>1, <1>2 DEF TakeAck
<1>7. UNCHANGED <<sentDSN, nextTxSequence, maxSeqNb, receiverVars, dataPath>>
  BY <1>1 DEF FullAck, NewACK, sendState
<1>8. /\ ~inFastRec'[s]
      /\ inFastRec' \in [Subflows -> BOOLEAN]
      /\ inFastRec' = [inFastRec EXCEPT ![s] = inFastRec'[s]]
  <2>1. inFastRec' = [inFastRec EXCEPT ![s] = FALSE]
    BY DEF FullAck
  <2>2. ~inFastRec'[s]
    BY <1>2, <2>1
  <2>3. QED
    BY <1>2, <2>1, <2>2
<1>9. dataPath'[s] \in Seq(sentDSN[s])
  BY <1>7 DEF IInv, SenderInv, InTransit
<1>10. dataPath' = [dataPath EXCEPT ![s] = dataPath'[s]]
  BY <1>2, <1>7
<1>11. SenderTypeOK'
  <2>1. cwnd' \in [Subflows -> Nat]
    <3>1. Deflated(s) \in Nat
      BY DeflatedTypes
    <3>2. PICK added \in Added(s, Deflated(s), a - (highestAck[s] + 1)) :
            cwnd' = [cwnd EXCEPT ![s] = Deflated(s) + added]
      BY DEF FullAck
    <3>3. added \in Nat
      <4>1. a - (highestAck[s] + 1) \in Nat
        BY <1>2, <1>4
      <4>2. QED
        BY <3>2, <4>1, AddedTypes
    <3>4. Deflated(s) + added \in Nat
      BY <3>1, <3>3
    <3>5. QED
      BY <1>2, <3>2, <3>4
  <2>2. TxSeqNumber' \in [Subflows -> Nat]
    BY <1>2, <1>5
  <2>3. QED
    BY <1>1, <1>2, <1>3, <1>4, <1>7, <1>8, <2>1, <2>2, NewACKTypes
<1>12. /\ Boundary(s, TxSeqNumber[s])
       /\ TxSeqNumber[s] <= maxSeqNb[s] + 1
  BY DEF IInv, SenderInv, Boundaries, Progress
<1>13. /\ Boundary(s, TxSeqNumber'[s])
       /\ highestAck'[s] + 1 <= TxSeqNumber'[s]
       /\ TxSeqNumber'[s] <= maxSeqNb[s] + 1
  BY <1>2, <1>3, <1>4, <1>5, <1>12 DEF Larger
<1>14. ackPath'[s] \in Seq(AckNumbers(s))
  BY <1>6, AckTaken
<1>15. QED
  BY <1>3, <1>5, <1>6, <1>7, <1>8, <1>9, <1>10, <1>11, <1>13, <1>14, SubflowStep

LEMMA ReceivedAckKeeps ==
  ASSUME IInv, NEW s \in Subflows, ReceivedAck(s), UNCHANGED receiverVars
  PROVE  IInv'
<1>1. PICK i \in Leaving(ackPath[s]) :
        \/ IgnoredAck(s, i)
        \/ ThirdDupAck(s, i)
        \/ CountedDupAck(s, i)
        \/ PartialAck(s, i)
        \/ FullAck(s, i)
  BY DEF ReceivedAck
<1>2. QED
  BY <1>1, IgnoredAckKeeps, ThirdDupAckKeeps, CountedDupAckKeeps,
     PartialAckKeeps, FullAckKeeps

(* A new segment follows all others, by either number.                     *)
LEMMA SendNewKeeps ==
  ASSUME IInv, NEW s \in Subflows, NEW size \in 1 .. MSS,
         SendNewSegment(s, size), sendingBuffer > 0, ~InTimeoutRecovery(s),
         lastUsedsFlowIdx' \in Subflows, UNCHANGED <<txLoop, receiverVars>>
  PROVE  IInv'
<1>1. /\ TxSeqNumber \in [Subflows -> Nat] /\ maxSeqNb \in [Subflows -> Nat]
      /\ highestAck \in [Subflows -> Nat] /\ RxSeqNumber \in [Subflows -> Nat]
      /\ mapDSN \in [Subflows -> SUBSET Mapping]
      /\ sentDSN \in [Subflows -> SUBSET Mapping]
      /\ retxEvent \in [Subflows -> BOOLEAN]
      /\ dataPath \in [Subflows -> Seq(Mapping)]
      /\ ackPath \in [Subflows -> Seq(Nat)]
      /\ nextTxSequence \in Nat \ {0} /\ sendingBuffer \in Nat
      /\ nextRxSequence \in Nat /\ MSS \in Nat
  BY SenderAssumption DEF IInv, TypeOK, SenderTypeOK, ReceiverTypeOK
<1>n. /\ TxSeqNumber[s] \in Nat /\ maxSeqNb[s] \in Nat /\ highestAck[s] \in Nat
      /\ nextTxSequence \in Nat \ {0} /\ sendingBuffer \in Nat
      /\ nextRxSequence \in Nat /\ MSS \in Nat
  BY <1>1
<1>2. PICK m :
      /\ m = [dsn |-> nextTxSequence, len |-> Smaller(size, sendingBuffer),
              ssn |-> TxSeqNumber[s]]
      /\ Transmit(s, m)
      /\ sendingBuffer' = sendingBuffer - m.len
      /\ nextTxSequence' = nextTxSequence + m.len
      /\ mapDSN' = [mapDSN EXCEPT ![s] = @ \cup {m}]
      /\ sentDSN' = [sentDSN EXCEPT ![s] = @ \cup {m}]
      /\ TxSeqNumber' = [TxSeqNumber EXCEPT ![s] = Ends(m)]
      /\ maxSeqNb' = [maxSeqNb EXCEPT ![s] = Larger(@, Ends(m) - 1)]
      /\ retxEvent' = [retxEvent EXCEPT ![s] = TRUE]
      /\ UNCHANGED <<highestAck, ccState>>
  BY DEF SendNewSegment
<1>3. TxSeqNumber[s] = maxSeqNb[s] + 1
  <2>1. TxSeqNumber[s] <= maxSeqNb[s] + 1
    BY DEF IInv, SenderInv, Progress
  <2>2. ~(maxSeqNb[s] > TxSeqNumber[s] - 1)
    BY DEF InTimeoutRecovery
  <2>3. QED
    BY <1>n, <2>1, <2>2
<1>4. /\ m.len \in 1 .. MSS /\ m.len <= sendingBuffer /\ m.len \in Nat
      /\ m.dsn = nextTxSequence /\ m.ssn = maxSeqNb[s] + 1
      /\ m \in Mapping
  BY <1>n, <1>2, <1>3 DEF Smaller, Mapping
<1>5. /\ Ends(m) = maxSeqNb[s] + 1 + m.len
      /\ DataEnds(m) = nextTxSequence'
      /\ Ends(m) \in Nat /\ m.ssn < Ends(m)
  <2>1. Ends(m) = maxSeqNb[s] + 1 + m.len /\ maxSeqNb[s] \in Nat
    BY <1>n, <1>4 DEF Ends
  <2>2. DataEnds(m) = nextTxSequence'
    BY <1>2, <1>4 DEF DataEnds
  <2>3. QED
    BY <1>4, <2>1, <2>2
<1>6. /\ maxSeqNb'[s] = Ends(m) - 1
      /\ \A t \in Subflows : maxSeqNb'[t] \in Nat /\ maxSeqNb[t] <= maxSeqNb'[t]
      /\ \A t \in Subflows : t # s => maxSeqNb'[t] = maxSeqNb[t]
  <2>1. Larger(maxSeqNb[s], Ends(m) - 1) = Ends(m) - 1
    BY <1>n, <1>4, <1>5 DEF Larger
  <2>2. maxSeqNb' = [maxSeqNb EXCEPT ![s] = Ends(m) - 1]
    BY <1>1, <1>2, <2>1
  <2>3. maxSeqNb[s] <= Ends(m) - 1 /\ Ends(m) - 1 \in Nat
    BY <1>n, <1>4, <1>5
  <2>4. maxSeqNb \in [Subflows -> Nat]
    BY <1>1
  <2>5. QED
    BY <2>2, <2>3, <2>4
<1>7. /\ \A t \in Subflows : t # s => sentDSN'[t] = sentDSN[t]
      /\ sentDSN'[s] = sentDSN[s] \cup {m}
  BY <1>1, <1>2
<1>8. nextTxSequence < nextTxSequence' /\ nextTxSequence' \in Nat
  BY <1>n, <1>2, <1>4
<1>9. TypeOK'
  <2>1. maxSeqNb' \in [Subflows -> Nat]
    <3>1. maxSeqNb \in [Subflows -> Nat] /\ maxSeqNb'[s] \in Nat
      BY <1>1, <1>6
    <3>2. maxSeqNb' = [maxSeqNb EXCEPT ![s] = Larger(@, Ends(m) - 1)]
      BY <1>2
    <3>3. QED
      BY <3>1, <3>2
  <2>2. SenderTypeOK'
    <3>1. sendingBuffer' \in Nat /\ nextTxSequence' \in Nat \ {0}
      BY <1>n, <1>2, <1>4
    <3>2. TxSeqNumber' \in [Subflows -> Nat]
      BY <1>1, <1>2, <1>5
    <3>3. /\ mapDSN' \in [Subflows -> SUBSET Mapping]
          /\ sentDSN' \in [Subflows -> SUBSET Mapping]
      BY <1>1, <1>2, <1>4
    <3>4. retxEvent' \in [Subflows -> BOOLEAN]
      BY <1>1, <1>2
    <3>5. QED
      BY <1>2, <2>1, <3>1, <3>2, <3>3, <3>4
         DEF IInv, TypeOK, SenderTypeOK, ccState, txLoop
  <2>3. Enqueue(dataPath[s], m) \in Seq(Mapping)
    BY <1>1, <1>4, EnqueueSeq
  <2>4. QED
    BY <1>1, <1>2, <2>2, <2>3, ReceiverTypeFrame DEF TypeOK, Transmit
<1>10. \A t \in Subflows : \A n \in sentDSN'[t] :
         \/ t = s /\ n = m
         \/ n \in sentDSN[t]
  BY <1>7
<1>11. SentInv'
  <2>1. \A t \in Subflows : \A n \in sentDSN[t] :
          /\ n.len \in 1 .. MSS
          /\ n.ssn \in Nat /\ n.ssn >= 1 /\ n.dsn \in Nat /\ n.dsn >= 1
          /\ Ends(n) \in Nat /\ Ends(n) <= maxSeqNb[t] + 1
          /\ DataEnds(n) \in Nat /\ DataEnds(n) <= nextTxSequence
    BY SegmentTypes DEF IInv, SentInv, SegmentsSent
  <2>2. SegmentsSent'
    <3>1. SUFFICES ASSUME NEW t \in Subflows, NEW n \in sentDSN'[t]
                   PROVE  /\ n.len \in 1 .. MSS
                          /\ n.ssn >= 1 /\ Ends(n) <= maxSeqNb'[t] + 1
                          /\ n.dsn >= 1 /\ DataEnds(n) <= nextTxSequence'
      BY DEF SegmentsSent, Ends, DataEnds
    <3>2. CASE t = s /\ n = m
      <4>1. m.ssn >= 1 /\ m.dsn >= 1
        BY <1>n, <1>4
      <4>2. Ends(m) <= maxSeqNb'[s] + 1
        BY <1>5, <1>6
      <4>3. DataEnds(m) <= nextTxSequence'
        BY <1>5, <1>8
      <4>4. QED
        BY <1>4, <3>2, <4>1, <4>2, <4>3
    <3>3. CASE n \in sentDSN[t]
      <4>1. /\ n.len \in 1 .. MSS /\ n.ssn >= 1 /\ n.dsn >= 1
            /\ Ends(n) \in Nat /\ Ends(n) <= maxSeqNb[t] + 1
            /\ DataEnds(n) \in Nat /\ DataEnds(n) <= nextTxSequence
        BY <2>1, <3>3
      <4>2. /\ maxSeqNb[t] \in Nat /\ maxSeqNb'[t] \in Nat
            /\ maxSeqNb[t] <= maxSeqNb'[t]
        BY <1>1, <1>6
      <4>3. Ends(n) <= maxSeqNb'[t] + 1
        BY <4>1, <4>2
      <4>4. DataEnds(n) <= nextTxSequence'
        BY <1>n, <1>8, <4>1
      <4>5. QED
        BY <4>1, <4>3, <4>4
    <3>4. QED
      BY <1>10, <3>2, <3>3
  <2>3. SegmentOrder'
    <3>1. SUFFICES ASSUME NEW t \in Subflows,
                          NEW k \in sentDSN'[t], NEW n \in sentDSN'[t]
                   PROVE  \/ k = n
                          \/ Ends(k) <= n.ssn /\ DataEnds(k) <= n.dsn
                          \/ Ends(n) <= k.ssn /\ DataEnds(n) <= k.dsn
      BY DEF SegmentOrder, Ends, DataEnds
    <3>2. CASE k \in sentDSN[t] /\ n \in sentDSN[t]
      BY <3>2 DEF IInv, SentInv, SegmentOrder
    <3>3. CASE t = s /\ n = m /\ k \in sentDSN[s]
      BY <1>4, <2>1, <3>3
    <3>4. CASE t = s /\ k = m /\ n \in sentDSN[s]
      BY <1>4, <2>1, <3>4
    <3>5. CASE k = m /\ n = m
      BY <3>5
    <3>6. QED
      BY <1>10, <3>2, <3>3, <3>4, <3>5
  <2>4. SegmentsDisjoint'
    <3>1. SUFFICES ASSUME NEW t \in Subflows, NEW u \in Subflows, t # u,
                          NEW k \in sentDSN'[t], NEW n \in sentDSN'[u]
                   PROVE  DataEnds(k) <= n.dsn \/ DataEnds(n) <= k.dsn
      BY DEF SegmentsDisjoint, DataEnds
    <3>2. CASE k \in sentDSN[t] /\ n \in sentDSN[u]
      BY <3>1, <3>2 DEF IInv, SentInv, SegmentsDisjoint
    <3>3. CASE n = m /\ k \in sentDSN[t]
      BY <1>4, <2>1, <3>3
    <3>4. CASE k = m /\ n \in sentDSN[u]
      BY <1>4, <2>1, <3>4
    <3>5. QED
      BY <1>10, <3>1, <3>2, <3>3, <3>4
  <2>5. QED
    BY <2>2, <2>3, <2>4 DEF SentInv
<1>12. highestAck' = highestAck /\ inFastRec' = inFastRec /\ recover' = recover
       /\ ackPath' = ackPath /\ RxSeqNumber' = RxSeqNumber
  BY <1>2 DEF ccState, Transmit, receiverVars
<1>13. \A t \in Subflows : \A a : Boundary(t, a) => Boundary(t, a)'
  <2>1. SUFFICES ASSUME NEW t \in Subflows, NEW a, Boundary(t, a)
                 PROVE  a = maxSeqNb'[t] + 1 \/ \E n \in sentDSN'[t] : n.ssn = a
    BY DEF Boundary
  <2>2. CASE t = s
    BY <1>4, <1>7, <2>1, <2>2 DEF Boundary
  <2>3. CASE t # s
    BY <1>6, <1>7, <2>1, <2>3 DEF Boundary
  <2>4. QED
    BY <2>2, <2>3
<1>14. MapIsUnacked'
  <2>1. SUFFICES ASSUME NEW t \in Subflows
                 PROVE  mapDSN'[t] = {n \in sentDSN'[t] : n.ssn > highestAck[t]}
    BY <1>12 DEF MapIsUnacked
  <2>2. mapDSN[t] = {n \in sentDSN[t] : n.ssn > highestAck[t]}
    BY DEF IInv, SenderInv, MapIsUnacked
  <2>3. CASE t = s
    <3>1. m.ssn > highestAck[s]
      <4>1. highestAck[s] + 1 <= TxSeqNumber[s]
        BY DEF IInv, SenderInv, Progress
      <4>2. QED
        BY <1>n, <1>3, <1>4, <4>1
    <3>2. mapDSN'[s] = mapDSN[s] \cup {m}
      BY <1>1, <1>2
    <3>3. QED
      BY <1>7, <2>2, <2>3, <3>1, <3>2
  <2>4. CASE t # s
    BY <1>1, <1>2, <1>7, <2>2, <2>4
  <2>5. QED
    BY <2>3, <2>4
<1>15. /\ TxSeqNumber'[s] = maxSeqNb'[s] + 1
       /\ \A t \in Subflows : t # s => TxSeqNumber'[t] = TxSeqNumber[t]
  <2>1. TxSeqNumber \in [Subflows -> Nat]
    BY <1>1
  <2>2. TxSeqNumber' = [TxSeqNumber EXCEPT ![s] = Ends(m)]
    BY <1>2
  <2>3. Ends(m) = maxSeqNb'[s] + 1
    BY <1>5, <1>6
  <2>4. QED
    BY <2>1, <2>2, <2>3
<1>16. Boundaries'
  <2>1. SUFFICES ASSUME NEW t \in Subflows
                 PROVE  /\ Boundary(t, highestAck[t] + 1)'
                        /\ Boundary(t, TxSeqNumber[t])'
                        /\ Boundary(t, RxSeqNumber[t])'
                        /\ \A n \in sentDSN'[t] : Boundary(t, Ends(n))'
    BY DEF Boundaries, Boundary, Ends
  <2>2. /\ Boundary(t, highestAck[t] + 1)
        /\ Boundary(t, TxSeqNumber[t])
        /\ Boundary(t, RxSeqNumber[t])
        /\ \A n \in sentDSN[t] : Boundary(t, Ends(n))
    BY DEF IInv, SenderInv, Boundaries
  <2>3. Boundary(t, highestAck[t] + 1)'
    BY <1>12, <1>13, <2>2 DEF Boundary
  <2>4. Boundary(t, TxSeqNumber[t])'
    BY <1>13, <1>15, <2>2 DEF Boundary
  <2>5. Boundary(t, RxSeqNumber[t])'
    BY <1>12, <1>13, <2>2 DEF Boundary
  <2>6. ASSUME NEW n \in sentDSN'[t] PROVE Boundary(t, Ends(n))'
    <3>1. CASE t = s /\ n = m
      <4>1. Ends(m) = maxSeqNb'[s] + 1
        BY <1>5, <1>6
      <4>2. QED
        BY <3>1, <4>1 DEF Boundary, Ends
    <3>2. CASE n \in sentDSN[t]
      BY <1>13, <2>2, <3>2 DEF Boundary, Ends
    <3>3. QED
      BY <1>10, <3>1, <3>2
  <2>7. QED
    BY <2>3, <2>4, <2>5, <2>6
<1>17. Progress'
  <2>1. SUFFICES ASSUME NEW t \in Subflows
                 PROVE  /\ highestAck[t] + 1 <= TxSeqNumber'[t]
                        /\ TxSeqNumber'[t] <= maxSeqNb'[t] + 1
                        /\ highestAck[t] + 1 <= RxSeqNumber[t]
                        /\ RxSeqNumber[t] <= maxSeqNb'[t] + 1
    BY <1>12 DEF Progress
  <2>2. /\ highestAck[t] + 1 <= TxSeqNumber[t]
        /\ TxSeqNumber[t] <= maxSeqNb[t] + 1
        /\ highestAck[t] + 1 <= RxSeqNumber[t]
        /\ RxSeqNumber[t] <= maxSeqNb[t] + 1
    BY DEF IInv, SenderInv, Progress
  <2>3. /\ TxSeqNumber[t] \in Nat /\ maxSeqNb[t] \in Nat
        /\ maxSeqNb'[t] \in Nat /\ maxSeqNb[t] <= maxSeqNb'[t]
        /\ highestAck[t] \in Nat /\ RxSeqNumber[t] \in Nat
    BY <1>1, <1>6
  <2>4. CASE t = s
    BY <1>15, <2>2, <2>3, <2>4
  <2>5. CASE t # s
    BY <1>15, <2>2, <2>3, <2>5
  <2>6. QED
    BY <2>4, <2>5
<1>18. InTransit'
  <2>1. SUFFICES ASSUME NEW t \in Subflows
                 PROVE  /\ dataPath'[t] \in Seq(sentDSN'[t])
                        /\ ackPath[t] \in Seq(AckNumbers(t)')
    BY <1>12 DEF InTransit
  <2>2. dataPath[t] \in Seq(sentDSN[t]) /\ ackPath[t] \in Seq(AckNumbers(t))
    BY DEF IInv, SenderInv, InTransit
  <2>3. AckNumbers(t) \subseteq AckNumbers(t)'
    <3>1. AckNumbers(t)' = {a \in 1 .. RxSeqNumber[t] : Boundary(t, a)'}
      BY <1>12 DEF AckNumbers
    <3>2. QED
      BY <1>13, <3>1 DEF AckNumbers
  <2>4. dataPath[t] \in Seq(sentDSN'[t])
    <3>1. sentDSN[t] \subseteq sentDSN'[t]
      BY <1>7
    <3>2. QED
      BY <2>2, <3>1, SeqSubset
  <2>5. dataPath'[t] \in Seq(sentDSN'[t])
    <3>1. CASE t = s
      <4>1. m \in sentDSN'[s]
        BY <1>7
      <4>2. Enqueue(dataPath[s], m) \in Seq(sentDSN'[s])
        BY <2>4, <3>1, <4>1, EnqueueSeq
      <4>3. dataPath'[s] = Enqueue(dataPath[s], m)
        BY <1>1, <1>2 DEF Transmit
      <4>4. QED
        BY <3>1, <4>2, <4>3
    <3>2. CASE t # s
      BY <1>1, <1>2, <2>4, <3>2 DEF Transmit
    <3>3. QED
      BY <3>1, <3>2
  <2>6. QED
    BY <2>2, <2>3, <2>5, SeqSubset
<1>19. RecoveryBounds'
  <2>1. SUFFICES ASSUME NEW t \in Subflows, inFastRec[t]
                 PROVE  /\ recover[t] > highestAck[t] + 1
                        /\ recover[t] <= maxSeqNb'[t] + 1
    BY <1>12 DEF RecoveryBounds, FastRecoveryEnds
  <2>2. recover[t] > highestAck[t] + 1 /\ recover[t] <= maxSeqNb[t] + 1
    BY <2>1 DEF IInv, SenderInv, RecoveryBounds, FastRecoveryEnds
  <2>3. /\ recover[t] \in Nat /\ maxSeqNb[t] \in Nat
        /\ maxSeqNb'[t] \in Nat /\ maxSeqNb[t] <= maxSeqNb'[t]
    BY <1>6, NumberTypes
  <2>4. QED
    BY <2>2, <2>3
<1>20. ReceiverInv'
  <2>1. UNCHANGED <<RxSeqNumber, nextRxSequence, unOrdered, recvingBuffer,
                    received, rxPhase, rxCursor>>
    BY DEF receiverVars, rxLoop
  <2>2. nextRxSequence <= nextTxSequence
    BY DEF IInv, ReceiverInv, StreamSoFar
  <2>3. StoredWasSent'
    <3>1. \A e \in unOrdered : e.sub \in Subflows
      BY DEF IInv, TypeOK, ReceiverTypeOK, Stored
    <3>2. \A t \in Subflows : sentDSN[t] \subseteq sentDSN'[t]
      BY <1>7
    <3>3. QED
      BY <2>1, <3>1, <3>2
         DEF IInv, ReceiverInv, StoredWasSent, SegmentOf
  <2>4. DeliveredIsPassed'
    <3>1. SUFFICES ASSUME NEW t \in Subflows, NEW n \in sentDSN'[t],
                          n.dsn < nextRxSequence
                   PROVE  Ends(n) <= RxSeqNumber[t]
      BY <2>1 DEF DeliveredIsPassed, Ends
    <3>2. n # m
      BY <1>n, <1>4, <2>2, <3>1
    <3>3. QED
      BY <1>10, <3>1, <3>2 DEF IInv, ReceiverInv, DeliveredIsPassed
  <2>5. PassedIsHeld'
    <3>1. SUFFICES ASSUME NEW t \in Subflows, NEW n \in sentDSN'[t],
                          n.ssn < RxSeqNumber[t]
                   PROVE  Holds(t, n)
      BY <2>1 DEF PassedIsHeld, Holds, Entry
    <3>2. ~(t = s /\ n = m)
      <4>1. RxSeqNumber[s] \in Nat /\ RxSeqNumber[s] <= maxSeqNb[s] + 1
        BY <1>1 DEF IInv, SenderInv, Progress
      <4>2. QED
        BY <1>n, <1>4, <3>1, <4>1
    <3>3. QED
      BY <1>10, <3>1, <3>2 DEF IInv, ReceiverInv, PassedIsHeld
  <2>6. StoredIsAhead'
    BY <2>1 DEF IInv, ReceiverInv, StoredIsAhead
  <2>7. StreamSoFar'
    <3>1. nextRxSequence <= nextTxSequence'
      BY <1>n, <1>8, <2>2
    <3>2. QED
      BY <2>1, <3>1 DEF IInv, ReceiverInv, StreamSoFar
  <2>8. QED
    BY <2>3, <2>4, <2>5, <2>6, <2>7 DEF ReceiverInv
<1>21. QED
  BY <1>9, <1>11, <1>14, <1>16, <1>17, <1>18, <1>19, <1>20
     DEF IInv, SenderInv

LEMMA ResendStepKeeps ==
  ASSUME IInv, ResendStep, UNCHANGED receiverVars
  PROVE  IInv'
<1>1. CASE /\ ResendSegment(txFlow)
           /\ UNCHANGED <<lastUsedsFlowIdx, txLoop>>
  <2>1. txFlow \in Subflows /\ lastUsedsFlowIdx' \in Subflows
    BY <1>1 DEF IInv, TypeOK, SenderTypeOK
  <2>2. QED
    BY <1>1, <2>1, ResendKeeps
<1>2. CASE /\ LeaveSendPendingData
           /\ UNCHANGED <<sendState, seqState, ccState, retxEvent, pathVars>>
  <2>1. SenderTypeOK'
    BY <1>2, LeaveTypes
       DEF IInv, TypeOK, SenderTypeOK, sendState, seqState, ccState
  <2>2. QED
    BY <1>2, <2>1, SendStateStep DEF sendState
<1>3. QED
  BY <1>1, <1>2 DEF ResendStep

LEMMA SendStepKeeps ==
  ASSUME IInv, SendStep, UNCHANGED receiverVars
  PROVE  IInv'
<1>1. PICK k \in 0 .. MaxSubflows :
        /\ SearchEndsAfter(k)
        /\ LET s == RoundRobin(lastUsedsFlowIdx, k)
               found == sendingBuffer > 0 /\ k < MaxSubflows /\ s \notin SynSent
           IN  \/ /\ found
                  /\ IF InTimeoutRecovery(s)
                     THEN ResendSegment(s)
                     ELSE SendNewSegment(s, Smaller(Window(s), MSS))
                  /\ lastUsedsFlowIdx' = RoundRobin(s, 1)
                  /\ UNCHANGED txLoop
               \/ /\ ~found
                  /\ lastUsedsFlowIdx' = IF sendingBuffer > 0 THEN s
                                         ELSE lastUsedsFlowIdx
                  /\ LeaveSendPendingData
                  /\ UNCHANGED <<sendingBuffer, nextTxSequence, seqState,
                                 ccState, retxEvent, pathVars>>
  BY DEF SendStep
<1> DEFINE s == RoundRobin(lastUsedsFlowIdx, k)
<1>2. lastUsedsFlowIdx \in Subflows /\ s \in Subflows
  BY RoundRobinType DEF IInv, TypeOK, SenderTypeOK
<1>3. RoundRobin(s, 1) \in Subflows
  BY <1>2, RoundRobinType, PathAssumption
<1>4. CASE /\ sendingBuffer > 0 /\ k < MaxSubflows /\ s \notin SynSent
           /\ IF InTimeoutRecovery(s)
              THEN ResendSegment(s)
              ELSE SendNewSegment(s, Smaller(Window(s), MSS))
           /\ lastUsedsFlowIdx' = RoundRobin(s, 1)
           /\ UNCHANGED txLoop
  <2>1. CASE InTimeoutRecovery(s)
    BY <1>2, <1>3, <1>4, <2>1, ResendKeeps
  <2>2. CASE ~InTimeoutRecovery(s)
    <3>1. Window(s) > 0
      BY <1>1, <1>4 DEF SearchEndsAfter, SearchStops
    <3>2. Window(s) \in Int
      <4>1. AvailableWindow(s) \in Int
        BY <1>2, NumberTypes, SenderAssumption
           DEF AvailableWindow, Smaller
      <4>2. QED
        BY <1>2, <4>1, NumberTypes DEF Window, Smaller
    <3>3. Smaller(Window(s), MSS) \in 1 .. MSS
      BY <3>1, <3>2, SenderAssumption DEF Smaller
    <3>4. QED
      BY <1>2, <1>3, <1>4, <2>2, <3>3, SendNewKeeps
  <2>3. QED
    BY <2>1, <2>2
<1>5. CASE /\ lastUsedsFlowIdx' = IF sendingBuffer > 0 THEN s
                                  ELSE lastUsedsFlowIdx
           /\ LeaveSendPendingData
           /\ UNCHANGED <<sendingBuffer, nextTxSequence, seqState,
                          ccState, retxEvent, pathVars>>
  <2>1. SenderTypeOK'
    BY <1>2, <1>5, LeaveTypes
       DEF IInv, TypeOK, SenderTypeOK, seqState, ccState
  <2>2. QED
    BY <1>5, <2>1, SendStateStep
<1>6. QED
  BY <1>1, <1>4, <1>5

LEMMA SenderStepKeeps ==
  ASSUME IInv, SenderStep, UNCHANGED receiverVars
  PROVE  IInv'
BY SendDataKeeps, ResendStepKeeps, SendStepKeeps, ReceivedAckKeeps,
   IdleTimeoutKeeps, RetransmitKeeps DEF SenderStep

-----------------------------------------------------------------------------
(* The bytes of the stream. *)

(* BytesOf has the length of the segment and its bytes.                    *)
LEMMA BytesOfSeq ==
  ASSUME NEW m, m.dsn \in Nat \ {0}, m.len \in Nat
  PROVE  /\ BytesOf(m) \in Seq(Nat)
         /\ Len(BytesOf(m)) = m.len
         /\ \A i \in 1 .. m.len : BytesOf(m)[i] = m.dsn + i - 1
BY DEF BytesOf

(* A stream of the bytes up to n, continued with the bytes from n + 1.     *)
LEMMA StreamGrows ==
  ASSUME NEW n \in Nat, NEW q \in Seq(Nat), q = [i \in 1 .. n |-> i],
         NEW m, m.dsn = n + 1, m.len \in Nat
  PROVE  q \o BytesOf(m) = [i \in 1 .. n + m.len |-> i]
<1> DEFINE b == BytesOf(m)
           r == [i \in 1 .. n + m.len |-> i]
<1>1. /\ b \in Seq(Nat) /\ Len(b) = m.len
      /\ \A i \in 1 .. m.len : b[i] = n + i
  BY BytesOfSeq
<1>2. Len(q) = n /\ \A i \in 1 .. n : q[i] = i
  OBVIOUS
<1>3. /\ q \o b \in Seq(Nat) /\ Len(q \o b) = n + m.len
      /\ \A i \in 1 .. n + m.len :
           (q \o b)[i] = IF i <= n THEN q[i] ELSE b[i - n]
  BY <1>1, <1>2, ConcatProperties
<1>4. r \in Seq(Nat) /\ Len(r) = n + m.len /\ \A i \in 1 .. n + m.len : r[i] = i
  OBVIOUS
<1> HIDE DEF b, r
<1>5. ASSUME NEW i \in 1 .. n + m.len PROVE (q \o b)[i] = i
  <2>1. i <= n \/ i > n
    OBVIOUS
  <2>2. CASE i <= n
    BY <1>2, <1>3, <2>2
  <2>3. CASE i > n
    <3>1. i - n \in 1 .. m.len
      BY <2>3
    <3>2. b[i - n] = i
      BY <1>1, <3>1
    <3>3. QED
      BY <1>3, <2>3, <3>2
  <2>4. QED
    BY <2>1, <2>2, <2>3, Zenon
<1>6. q \o b = r
  BY <1>3, <1>4, <1>5, SeqEqual
<1>7. QED
  BY <1>6 DEF b, r

(* Concatenation of byte sequences. *)
LEMMA BytesConcat ==
  ASSUME NEW q \in Seq(Nat), NEW r \in Seq(Nat)
  PROVE  /\ q \o r \in Seq(Nat)
         /\ Len(q \o r) = Len(q) + Len(r)
         /\ \A i \in 1 .. Len(q) + Len(r) :
              (q \o r)[i] = IF i <= Len(q) THEN q[i] ELSE r[i - Len(q)]
BY ConcatProperties, Zenon

LEMMA BytesAssociative ==
  ASSUME NEW f \in Seq(Nat), NEW g \in Seq(Nat), NEW h \in Seq(Nat)
  PROVE  (f \o g) \o h = f \o (g \o h)
BY ConcatAssociative, SMTT(30)

(* A stream's beginning is a stream.                                       *)
LEMMA StreamPrefix ==
  ASSUME NEW n \in Nat, NEW q \in Seq(Nat), NEW r \in Seq(Nat),
         q \o r = [i \in 1 .. n |-> i]
  PROVE  /\ Len(q) + Len(r) = n
         /\ q = [i \in 1 .. Len(q) |-> i]
<1>1. /\ Len(q \o r) = Len(q) + Len(r)
      /\ \A i \in 1 .. Len(q) + Len(r) :
           (q \o r)[i] = IF i <= Len(q) THEN q[i] ELSE r[i - Len(q)]
  BY BytesConcat, Zenon
<1>2. Len(q \o r) = n
  OBVIOUS
<1>3. \A i \in 1 .. Len(q) : q[i] = i
  BY <1>1, <1>2
<1>4. q = [i \in 1 .. Len(q) |-> i]
  BY <1>3
<1>5. QED
  BY <1>1, <1>2, <1>4

(* HandleRead moves bytes from the front of the buffer to the end of what  *)
(* was read.                                                               *)
LEMMA ReadMoves ==
  ASSUME received \in Seq(Nat), NEW bytes \in Seq(Nat), HandleRead(bytes)
  PROVE  /\ received' \in Seq(Nat) /\ recvingBuffer' \in Seq(Nat)
         /\ received' \o recvingBuffer' = received \o bytes
         /\ Len(recvingBuffer') =
              IF Len(bytes) <= ReadSize THEN 0 ELSE Len(bytes) - ReadSize
<1> DEFINE n == IF Len(bytes) <= ReadSize THEN Len(bytes) ELSE ReadSize
           front == SubSeq(bytes, 1, n)
           rest == SubSeq(bytes, n + 1, Len(bytes))
<1>1. n \in 0 .. Len(bytes)
  BY ReceiverAssumption
<1>2. recvingBuffer' = rest /\ received' = received \o front
  BY DEF HandleRead
<1>3. front \in Seq(Nat) /\ rest \in Seq(Nat)
  BY <1>1, ReceiverAssumption
<1>4. front \o rest = bytes
  <2>1. Len(bytes) \in Nat /\ n \in 1 - 1 .. Len(bytes)
    BY <1>1
  <2>2. 1 \in 1 .. Len(bytes) + 1 /\ Len(bytes) \in n .. Len(bytes)
    BY <1>1, <2>1
  <2> HIDE DEF n
  <2>3. front \o rest = SubSeq(bytes, 1, Len(bytes))
    BY <2>1, <2>2, ConcatAdjacentSubSeq
  <2>4. QED
    BY <2>3, SubSeqFull
<1>5. Len(rest) = Len(bytes) - n
  BY <1>1
<1> HIDE DEF front, rest
<1>6. received' \in Seq(Nat)
  BY <1>2, <1>3, ConcatProperties
<1>7. (received \o front) \o rest = received \o bytes
  <2>1. (received \o front) \o rest = received \o (front \o rest)
    BY <1>2, <1>3, BytesAssociative, Zenon
  <2>2. QED
    BY <1>4, <2>1
<1>8. Len(rest) = IF Len(bytes) <= ReadSize THEN 0 ELSE Len(bytes) - ReadSize
  <2>1. Len(bytes) \in Nat /\ ReadSize \in Nat
    BY ReceiverAssumption
  <2>2. QED
    BY <1>5, <2>1
<1>9. QED
  BY <1>2, <1>3, <1>6, <1>7, <1>8

-----------------------------------------------------------------------------
(* The steps of the receiver. *)

(* What is stored lies at or behind the byte the stream waits for.         *)
LEMMA StoredIsBehind ==
  ASSUME IInv, NEW e \in unOrdered
  PROVE  e.dsn >= nextRxSequence
<1>1. StoredIsAhead /\ e.dsn \in Nat /\ nextRxSequence \in Nat
  BY DEF IInv, ReceiverInv, TypeOK, ReceiverTypeOK, Stored
<1>2. QED
  BY <1>1 DEF StoredIsAhead

(* An entry of unOrdered is a segment that was sent.                       *)
LEMMA EntryTypes ==
  ASSUME IInv, NEW e \in unOrdered
  PROVE  /\ e.sub \in Subflows
         /\ SegmentOf(e) \in sentDSN[e.sub]
         /\ SegmentOf(e).dsn = e.dsn /\ SegmentOf(e).len = e.len
         /\ SegmentOf(e).ssn = e.ssn
         /\ Entry(e.sub, SegmentOf(e)) = e
         /\ e.dsn \in Nat \ {0} /\ e.len \in Nat \ {0} /\ e.ssn \in Nat \ {0}
         /\ e.len <= MSS
<1>1. e \in Stored
  BY DEF IInv, TypeOK, ReceiverTypeOK
<1>2. SegmentOf(e) \in sentDSN[e.sub] /\ e.sub \in Subflows
  BY <1>1 DEF IInv, ReceiverInv, StoredWasSent, Stored
<1>3. /\ SegmentOf(e).dsn = e.dsn /\ SegmentOf(e).len = e.len
      /\ SegmentOf(e).ssn = e.ssn
  BY DEF SegmentOf
<1>4. Entry(e.sub, SegmentOf(e)) = e
  BY <1>1, <1>3 DEF Entry, Stored
<1>5. QED
  BY <1>2, <1>3, <1>4, SegmentTypes

(* Two segments have no byte in common unless they are one.                *)
LEMMA BytesDisjoint ==
  ASSUME IInv, NEW s \in Subflows, NEW t \in Subflows,
         NEW m \in sentDSN[s], NEW n \in sentDSN[t]
  PROVE  \/ s = t /\ m = n
         \/ DataEnds(m) <= n.dsn
         \/ DataEnds(n) <= m.dsn
BY DEF IInv, SentInv, SegmentOrder, SegmentsDisjoint

(* When the stream has come up to a segment, so has its sub-flow: the      *)
(* segments before it on the sub-flow carry earlier data.                  *)
LEMMA NextIsReached ==
  ASSUME IInv, NEW s \in Subflows, NEW m \in sentDSN[s],
         m.dsn <= nextRxSequence
  PROVE  m.ssn <= RxSeqNumber[s]
<1>1. SUFFICES ASSUME m.ssn > RxSeqNumber[s]
               PROVE  FALSE
  BY SegmentTypes, NumberTypes
<1>2. Boundary(s, RxSeqNumber[s])
  BY DEF IInv, SenderInv, Boundaries
<1>3. /\ m.ssn \in Nat /\ m.ssn < Ends(m) /\ Ends(m) <= maxSeqNb[s] + 1
      /\ Ends(m) \in Nat /\ maxSeqNb[s] \in Nat /\ RxSeqNumber[s] \in Nat
      /\ m.dsn \in Nat /\ nextRxSequence \in Nat
  BY SegmentTypes, NumberTypes
<1>4. RxSeqNumber[s] # maxSeqNb[s] + 1
  BY <1>1, <1>3
<1>5. PICK n \in sentDSN[s] : n.ssn = RxSeqNumber[s]
  BY <1>2, <1>4 DEF Boundary
<1>6. /\ n.ssn < Ends(n) /\ Ends(n) \in Nat
      /\ n.dsn \in Nat /\ n.dsn < DataEnds(n) /\ DataEnds(n) \in Nat
  BY SegmentTypes
<1>7. m # n /\ ~(Ends(m) <= n.ssn)
  BY <1>1, <1>3, <1>5
<1>8. DataEnds(n) <= m.dsn
  BY <1>7 DEF IInv, SentInv, SegmentOrder
<1>9. n.dsn < nextRxSequence
  BY <1>3, <1>6, <1>8
<1>10. Ends(n) <= RxSeqNumber[s]
  BY <1>9 DEF IInv, ReceiverInv, DeliveredIsPassed
<1>11. QED
  BY <1>3, <1>5, <1>6, <1>10

(* What the receiver's steps do to the sender's part: the sub-flow comes   *)
(* up to a boundary, a packet leaves the path, one may be answered.        *)
LEMMA ReceiverStepPaths ==
  ASSUME IInv, NEW s \in Subflows, UNCHANGED senderVars,
         RxSeqNumber' = [RxSeqNumber EXCEPT ![s] = RxSeqNumber'[s]],
         RxSeqNumber'[s] \in Nat, RxSeqNumber[s] <= RxSeqNumber'[s],
         RxSeqNumber'[s] <= maxSeqNb[s] + 1, Boundary(s, RxSeqNumber'[s]),
         dataPath' = [dataPath EXCEPT ![s] = dataPath'[s]],
         dataPath'[s] \in Seq(sentDSN[s]),
         ackPath' = [ackPath EXCEPT ![s] = ackPath'[s]],
         \/ ackPath'[s] = ackPath[s]
         \/ ackPath'[s] = Enqueue(ackPath[s], RxSeqNumber'[s])
  PROVE  /\ SentInv' /\ SenderInv' /\ SenderTypeOK'
         /\ RxSeqNumber' \in [Subflows -> Nat]
         /\ dataPath' \in [Subflows -> Seq(Mapping)]
         /\ ackPath' \in [Subflows -> Seq(Nat)]
<1>1. /\ UNCHANGED <<TxSeqNumber, maxSeqNb, highestAck, mapDSN, sentDSN>>
      /\ UNCHANGED <<nextTxSequence, inFastRec, recover>>
  BY DEF senderVars, sendState, seqState, ccState
<1>2. /\ RxSeqNumber \in [Subflows -> Nat]
      /\ dataPath \in [Subflows -> Seq(Mapping)]
      /\ ackPath \in [Subflows -> Seq(Nat)]
      /\ sentDSN \in [Subflows -> SUBSET Mapping]
      /\ maxSeqNb \in [Subflows -> Nat] /\ highestAck \in [Subflows -> Nat]
  BY DEF IInv, TypeOK, SenderTypeOK, ReceiverTypeOK
<1>3. RxSeqNumber' \in [Subflows -> Nat]
  BY <1>2
<1>4. SentInv'
  BY <1>1, SentFrame
<1>5. SenderTypeOK'
  BY DEF IInv, TypeOK, SenderTypeOK, senderVars, sendState, seqState, ccState,
         txLoop
<1>6. MapIsUnacked' /\ RecoveryBounds'
  BY <1>1 DEF IInv, SenderInv, MapIsUnacked, RecoveryBounds, FastRecoveryEnds
<1>7. Boundaries'
  <2>1. SUFFICES ASSUME NEW t \in Subflows
                 PROVE  /\ Boundary(t, highestAck[t] + 1)
                        /\ Boundary(t, TxSeqNumber[t])
                        /\ Boundary(t, RxSeqNumber'[t])
                        /\ \A m \in sentDSN[t] : Boundary(t, Ends(m))
    BY <1>1 DEF Boundaries, Boundary, Ends
  <2>2. /\ Boundary(t, highestAck[t] + 1)
        /\ Boundary(t, TxSeqNumber[t])
        /\ Boundary(t, RxSeqNumber[t])
        /\ \A m \in sentDSN[t] : Boundary(t, Ends(m))
    BY DEF IInv, SenderInv, Boundaries
  <2>3. Boundary(t, RxSeqNumber'[t])
    <3>1. CASE t = s
      BY <3>1
    <3>2. CASE t # s
      BY <1>2, <2>2, <3>2
    <3>3. QED
      BY <3>1, <3>2
  <2>4. QED
    BY <2>2, <2>3
<1>8. Progress'
  <2>1. SUFFICES ASSUME NEW t \in Subflows
                 PROVE  /\ highestAck[t] + 1 <= TxSeqNumber[t]
                        /\ TxSeqNumber[t] <= maxSeqNb[t] + 1
                        /\ highestAck[t] + 1 <= RxSeqNumber'[t]
                        /\ RxSeqNumber'[t] <= maxSeqNb[t] + 1
    BY <1>1 DEF Progress
  <2>2. /\ highestAck[t] + 1 <= TxSeqNumber[t]
        /\ TxSeqNumber[t] <= maxSeqNb[t] + 1
        /\ highestAck[t] + 1 <= RxSeqNumber[t]
        /\ RxSeqNumber[t] <= maxSeqNb[t] + 1
    BY DEF IInv, SenderInv, Progress
  <2>3. CASE t = s
    BY <1>2, <2>2, <2>3
  <2>4. CASE t # s
    BY <1>2, <2>2, <2>4
  <2>5. QED
    BY <2>2, <2>3, <2>4
<1>9. /\ dataPath' \in [Subflows -> Seq(Mapping)]
      /\ \A t \in Subflows : dataPath'[t] \in Seq(sentDSN'[t])
  <2>1. dataPath'[s] \in Seq(Mapping)
    BY <1>2, SeqSubset
  <2>2. \A t \in Subflows : dataPath[t] \in Seq(sentDSN[t])
    BY DEF IInv, SenderInv, InTransit
  <2>3. QED
    BY <1>1, <1>2, <2>1, <2>2
<1>10. \A t \in Subflows : AckNumbers(t)' = {a \in 1 .. RxSeqNumber'[t] : Boundary(t, a)}
  BY <1>1 DEF AckNumbers, Boundary
<1>11. \A t \in Subflows : ackPath'[t] \in Seq(AckNumbers(t)')
  <2>1. TAKE t \in Subflows
  <2>2. ackPath[t] \in Seq(AckNumbers(t))
    BY DEF IInv, SenderInv, InTransit
  <2>3. AckNumbers(t) \subseteq AckNumbers(t)'
    <3>1. RxSeqNumber[t] <= RxSeqNumber'[t]
      <4>1. CASE t = s
        BY <4>1
      <4>2. CASE t # s
        BY <1>2, <4>2
      <4>3. QED
        BY <4>1, <4>2
    <3>2. RxSeqNumber[t] \in Nat /\ RxSeqNumber'[t] \in Nat
      BY <1>2, <1>3
    <3>3. QED
      BY <1>10, <3>1, <3>2 DEF AckNumbers
  <2>4. ackPath[t] \in Seq(AckNumbers(t)')
    BY <2>2, <2>3, SeqSubset
  <2>5. CASE t = s
    <3>1. CASE ackPath'[s] = ackPath[s]
      BY <2>4, <2>5, <3>1
    <3>2. CASE ackPath'[s] = Enqueue(ackPath[s], RxSeqNumber'[s])
      <4>1. RxSeqNumber'[s] \in 1 .. RxSeqNumber'[s]
        <5>1. highestAck[s] + 1 <= RxSeqNumber[s]
          BY DEF IInv, SenderInv, Progress
        <5>2. QED
          BY <1>2, <5>1
      <4>2. RxSeqNumber'[s] \in AckNumbers(s)'
        BY <1>10, <4>1
      <4>3. QED
        BY <2>4, <2>5, <3>2, <4>2, EnqueueSeq
    <3>3. QED
      BY <3>1, <3>2
  <2>6. CASE t # s
    BY <1>2, <2>4, <2>6
  <2>7. QED
    BY <2>5, <2>6
<1>12. ackPath' \in [Subflows -> Seq(Nat)]
  <2>1. AckNumbers(s)' \subseteq Nat
    BY <1>10
  <2>2. ackPath'[s] \in Seq(Nat)
    BY <1>11, <2>1, SeqSubset
  <2>3. QED
    BY <1>2, <2>2
<1>13. QED
  BY <1>3, <1>4, <1>5, <1>6, <1>7, <1>8, <1>9, <1>11, <1>12
     DEF SenderInv, InTransit

(* A segment that arrives was sent. *)
LEMMA SegmentTaken ==
  ASSUME IInv, NEW s \in Subflows, NEW i \in Leaving(dataPath[s])
  PROVE  /\ dataPath[s][i] \in sentDSN[s]
         /\ RemoveAt(dataPath[s], i) \in Seq(sentDSN[s])
<1>1. dataPath[s] \in Seq(sentDSN[s])
  BY DEF IInv, SenderInv, InTransit
<1>2. i \in 1 .. Len(dataPath[s])
  BY LeavingIsPosition
<1>3. QED
  BY <1>1, <1>2, RemoveAtSeq

(* A sub-flow that advances over the segment it expects comes past that    *)
(* segment and no other.                                                   *)
LEMMA AdvanceOver ==
  ASSUME IInv, NEW s \in Subflows, NEW m \in sentDSN[s],
         Advance(s, IF m.ssn = RxSeqNumber[s] THEN m.len ELSE 0)
  PROVE  /\ RxSeqNumber' = [RxSeqNumber EXCEPT ![s] = RxSeqNumber'[s]]
         /\ RxSeqNumber'[s] \in Nat
         /\ RxSeqNumber'[s] <= maxSeqNb[s] + 1
         /\ Boundary(s, RxSeqNumber'[s])
         /\ m.ssn <= RxSeqNumber[s] => Ends(m) <= RxSeqNumber'[s]
         /\ \A t \in Subflows : /\ RxSeqNumber[t] \in Nat
                                /\ RxSeqNumber'[t] \in Nat
                                /\ RxSeqNumber[t] <= RxSeqNumber'[t]
         /\ \A t \in Subflows : \A n \in sentDSN[t] :
              n.ssn < RxSeqNumber'[t] =>
                n.ssn < RxSeqNumber[t] \/ (t = s /\ n = m)
<1>1. RxSeqNumber \in [Subflows -> Nat]
  BY DEF IInv, TypeOK, ReceiverTypeOK
<1>2. /\ m.len \in Nat /\ m.ssn \in Nat /\ Ends(m) = m.ssn + m.len
      /\ Ends(m) \in Nat /\ Ends(m) <= maxSeqNb[s] + 1 /\ Boundary(s, Ends(m))
  BY SegmentTypes DEF Ends
<1>3. RxSeqNumber[s] <= maxSeqNb[s] + 1 /\ Boundary(s, RxSeqNumber[s])
  BY DEF IInv, SenderInv, Progress, Boundaries
<1>4. RxSeqNumber'[s] = IF m.ssn = RxSeqNumber[s] THEN Ends(m)
                        ELSE RxSeqNumber[s]
  BY <1>1, <1>2 DEF Advance
<1>5. \A t \in Subflows : t # s => RxSeqNumber'[t] = RxSeqNumber[t]
  BY <1>1 DEF Advance
<1>6. RxSeqNumber' = [RxSeqNumber EXCEPT ![s] = RxSeqNumber'[s]]
  BY <1>1 DEF Advance
<1>7. RxSeqNumber'[s] \in Nat /\ RxSeqNumber[s] <= RxSeqNumber'[s]
  BY <1>1, <1>2, <1>4
<1>8. \A t \in Subflows : /\ RxSeqNumber[t] \in Nat /\ RxSeqNumber'[t] \in Nat
                          /\ RxSeqNumber[t] <= RxSeqNumber'[t]
  BY <1>1, <1>5, <1>7
<1>9. RxSeqNumber'[s] <= maxSeqNb[s] + 1 /\ Boundary(s, RxSeqNumber'[s])
  BY <1>2, <1>3, <1>4
<1>10. m.ssn <= RxSeqNumber[s] => Ends(m) <= RxSeqNumber'[s]
  <2>1. CASE m.ssn = RxSeqNumber[s]
    BY <1>2, <1>4, <2>1
  <2>2. CASE m.ssn < RxSeqNumber[s]
    BY <1>3, <1>8, <1>4, <2>2, BoundaryCutsNothing
  <2>3. QED
    BY <1>2, <1>8, <2>1, <2>2
<1>11. ASSUME NEW t \in Subflows, NEW n \in sentDSN[t],
              n.ssn < RxSeqNumber'[t], ~(n.ssn < RxSeqNumber[t])
       PROVE  t = s /\ n = m
  <2>1. t = s /\ m.ssn = RxSeqNumber[s] /\ RxSeqNumber'[s] = Ends(m)
    BY <1>4, <1>5, <1>11
  <2>2. n.ssn \in Nat /\ n.ssn < Ends(n) /\ Ends(n) \in Nat
    BY SegmentTypes
  <2>3. ~(Ends(n) <= m.ssn) /\ ~(Ends(m) <= n.ssn)
    BY <1>1, <1>2, <1>11, <2>1, <2>2
  <2>4. QED
    BY <2>1, <2>3 DEF IInv, SentInv, SegmentOrder
<1>12. QED
  BY <1>6, <1>7, <1>8, <1>9, <1>10, <1>11

(* The receiver has a segment at least as long as its data number is below *)
(* the stream's or it is stored.                                           *)
LEMMA StillHeld ==
  ASSUME NEW s, NEW m, Holds(s, m), m.dsn \in Nat,
         nextRxSequence \in Nat, nextRxSequence' \in Nat,
         nextRxSequence <= nextRxSequence',
         Entry(s, m) \in unOrdered =>
           Entry(s, m) \in unOrdered' \/ m.dsn < nextRxSequence'
  PROVE  m.dsn < nextRxSequence' \/ Entry(s, m) \in unOrdered'
BY DEF Holds

(* A segment that does not get into the stream leaves it as it is.  It may *)
(* be stored, and the sub-flow may advance over it if it is.               *)
LEMMA AnsweredKeeps ==
  ASSUME IInv, NEW s \in Subflows, NEW i \in Leaving(dataPath[s]),
         NEW m \in sentDSN[s], m = dataPath[s][i],
         UNCHANGED senderVars, Answer(s, i),
         UNCHANGED <<nextRxSequence, recvingBuffer, received, rxLoop>>,
         \/ unOrdered' = unOrdered
         \/ /\ unOrdered' = unOrdered \cup {Entry(s, m)}
            /\ m.dsn > nextRxSequence,
         \/ RxSeqNumber' = RxSeqNumber
         \/ /\ Advance(s, IF m.ssn = RxSeqNumber[s] THEN m.len ELSE 0)
            /\ Entry(s, m) \in unOrdered'
  PROVE  IInv'
<1> DEFINE advanced == Advance(s, IF m.ssn = RxSeqNumber[s] THEN m.len ELSE 0)
<1>1. /\ RxSeqNumber \in [Subflows -> Nat]
      /\ dataPath \in [Subflows -> Seq(Mapping)]
      /\ ackPath \in [Subflows -> Seq(Nat)]
  BY DEF IInv, TypeOK, ReceiverTypeOK
<1>2. /\ RxSeqNumber[s] <= maxSeqNb[s] + 1 /\ Boundary(s, RxSeqNumber[s])
  BY DEF IInv, SenderInv, Progress, Boundaries
<1>3. /\ RxSeqNumber' = [RxSeqNumber EXCEPT ![s] = RxSeqNumber'[s]]
      /\ RxSeqNumber'[s] \in Nat
      /\ RxSeqNumber'[s] <= maxSeqNb[s] + 1
      /\ Boundary(s, RxSeqNumber'[s])
      /\ \A t \in Subflows : /\ RxSeqNumber[t] \in Nat
                             /\ RxSeqNumber'[t] \in Nat
                             /\ RxSeqNumber[t] <= RxSeqNumber'[t]
      /\ \A t \in Subflows : \A n \in sentDSN[t] :
           n.ssn < RxSeqNumber'[t] =>
             \/ n.ssn < RxSeqNumber[t]
             \/ t = s /\ n = m /\ Entry(s, m) \in unOrdered'
  <2>1. CASE RxSeqNumber' = RxSeqNumber
    BY <1>1, <1>2, <2>1
  <2>2. CASE advanced /\ Entry(s, m) \in unOrdered'
    BY <2>2, AdvanceOver
  <2>3. QED
    BY <2>1, <2>2
<1>4. /\ dataPath' = [dataPath EXCEPT ![s] = dataPath'[s]]
      /\ dataPath'[s] \in Seq(sentDSN[s])
  <2>1. dataPath' = [dataPath EXCEPT ![s] = RemoveAt(dataPath[s], i)]
    BY DEF Answer
  <2>2. QED
    BY <1>1, <2>1, SegmentTaken
<1>5. /\ ackPath' = [ackPath EXCEPT ![s] = ackPath'[s]]
      /\ ackPath'[s] = Enqueue(ackPath[s], RxSeqNumber'[s])
  <2>1. ackPath' = [ackPath EXCEPT ![s] = Enqueue(ackPath[s], RxSeqNumber'[s])]
    BY DEF Answer
  <2>2. QED
    BY <1>1, <2>1
<1>6. /\ SentInv' /\ SenderInv' /\ SenderTypeOK'
      /\ RxSeqNumber' \in [Subflows -> Nat]
      /\ dataPath' \in [Subflows -> Seq(Mapping)]
      /\ ackPath' \in [Subflows -> Seq(Nat)]
  BY <1>3, <1>4, <1>5, ReceiverStepPaths
<1>7. /\ UNCHANGED <<sentDSN, nextTxSequence>>
      /\ UNCHANGED <<rxPhase, rxFlow, rxCursor>>
  BY DEF senderVars, sendState, seqState, rxLoop
<1>8. /\ m.dsn \in Nat /\ m.len \in Nat /\ m.ssn \in Nat
      /\ Entry(s, m) \in Stored /\ SegmentOf(Entry(s, m)) = m
      /\ Entry(s, m).sub = s /\ Entry(s, m).dsn = m.dsn
  <2>1. m \in Mapping
    BY SegmentTypes
  <2>2. QED
    BY <2>1 DEF Entry, Stored, SegmentOf, Mapping
<1>9. /\ unOrdered \subseteq unOrdered'
      /\ \A e \in unOrdered' : e \in unOrdered \/
                               (e = Entry(s, m) /\ e.dsn > nextRxSequence)
  BY <1>8
<1>10. TypeOK'
  <2>1. unOrdered' \subseteq Stored
    BY <1>8, <1>9 DEF IInv, TypeOK, ReceiverTypeOK
  <2>2. ReceiverTypeOK'
    BY <1>6, <1>7, <2>1 DEF IInv, TypeOK, ReceiverTypeOK
  <2>3. QED
    BY <1>6, <2>2 DEF TypeOK
<1>11. StoredWasSent'
  BY <1>7, <1>8, <1>9 DEF IInv, ReceiverInv, StoredWasSent, SegmentOf
<1>12. DeliveredIsPassed'
  <2>1. SUFFICES ASSUME NEW t \in Subflows, NEW n \in sentDSN[t],
                        n.dsn < nextRxSequence
                 PROVE  Ends(n) <= RxSeqNumber'[t]
    BY <1>7 DEF DeliveredIsPassed, Ends
  <2>2. Ends(n) <= RxSeqNumber[t] /\ Ends(n) \in Nat
    BY <2>1, SegmentTypes DEF IInv, ReceiverInv, DeliveredIsPassed
  <2>3. QED
    BY <1>3, <2>2
<1>13. PassedIsHeld'
  <2>1. SUFFICES ASSUME NEW t \in Subflows, NEW n \in sentDSN[t],
                        n.ssn < RxSeqNumber'[t]
                 PROVE  \/ n.dsn < nextRxSequence
                        \/ Entry(t, n) \in unOrdered'
    BY <1>7 DEF PassedIsHeld, Holds, Entry
  <2>2. CASE n.ssn < RxSeqNumber[t]
    BY <1>9, <2>2 DEF IInv, ReceiverInv, PassedIsHeld, Holds
  <2>3. CASE t = s /\ n = m /\ Entry(s, m) \in unOrdered'
    BY <2>3
  <2>4. QED
    BY <1>3, <2>1, <2>2, <2>3
<1>14. StoredIsAhead'
  BY <1>7, <1>9 DEF IInv, ReceiverInv, StoredIsAhead
<1>15. StreamSoFar'
  BY <1>7 DEF IInv, ReceiverInv, StreamSoFar
<1>16. QED
  BY <1>6, <1>10, <1>11, <1>12, <1>13, <1>14, <1>15 DEF IInv, ReceiverInv

LEMMA DuplicateKeeps ==
  ASSUME IInv, NEW s \in Subflows, NEW i \in Leaving(dataPath[s]),
         Duplicate(s, i), UNCHANGED senderVars
  PROVE  IInv'
BY SegmentTaken, AnsweredKeeps DEF Duplicate

LEMMA OutOfOrderKeeps ==
  ASSUME IInv, NEW s \in Subflows, NEW i \in Leaving(dataPath[s]),
         OutOfOrder(s, i), UNCHANGED senderVars
  PROVE  IInv'
BY SegmentTaken, AnsweredKeeps DEF OutOfOrder, StoreUnOrderedData

LEMMA AheadOfDataKeeps ==
  ASSUME IInv, NEW s \in Subflows, NEW i \in Leaving(dataPath[s]),
         AheadOfData(s, i), UNCHANGED senderVars
  PROVE  IInv'
<1>1. PICK m \in sentDSN[s] : m = dataPath[s][i]
  BY SegmentTaken
<1>2. /\ m.ssn = RxSeqNumber[s] /\ m.dsn > nextRxSequence
      /\ StoreUnOrderedData(s, m)
      /\ Advance(s, IF IsStored(m) THEN 0 ELSE m.len)
      /\ Answer(s, i)
      /\ UNCHANGED <<nextRxSequence, recvingBuffer, received, rxLoop>>
  BY <1>1 DEF AheadOfData
<1>3. CASE IsStored(m)
  <2>1. RxSeqNumber' = RxSeqNumber
    BY <1>2, <1>3 DEF Advance, IInv, TypeOK, ReceiverTypeOK
  <2>2. unOrdered' = unOrdered
    BY <1>2, <1>3 DEF StoreUnOrderedData
  <2>3. QED
    BY <1>1, <1>2, <2>1, <2>2, AnsweredKeeps
<1>4. CASE ~IsStored(m)
  <2>1. Advance(s, IF m.ssn = RxSeqNumber[s] THEN m.len ELSE 0)
    BY <1>2, <1>4
  <2>2. unOrdered' = unOrdered \cup {Entry(s, m)}
    BY <1>2, <1>4 DEF StoreUnOrderedData
  <2>3. QED
    BY <1>1, <1>2, <2>1, <2>2, AnsweredKeeps
<1>5. QED
  BY <1>3, <1>4

(* The segment at which the stream is continues it.                        *)
LEMMA StreamContinues ==
  ASSUME IInv, NEW s \in Subflows, NEW m \in sentDSN[s],
         m.dsn = nextRxSequence
  PROVE  /\ recvingBuffer \o BytesOf(m) \in Seq(Nat)
         /\ Len(recvingBuffer \o BytesOf(m)) = Len(recvingBuffer) + m.len
         /\ received \o (recvingBuffer \o BytesOf(m)) =
              [i \in 1 .. nextRxSequence + m.len - 1 |-> i]
<1>1. recvingBuffer \in Seq(Nat) /\ received \in Seq(Nat)
  BY DEF IInv, TypeOK, ReceiverTypeOK
<1>2. m.dsn \in Nat \ {0} /\ m.len \in Nat
  BY SegmentTypes
<1>3. BytesOf(m) \in Seq(Nat) /\ Len(BytesOf(m)) = m.len
  BY <1>2, BytesOfSeq
<1>4. received \o recvingBuffer \in Seq(Nat)
  BY <1>1, ConcatProperties
<1>5. PICK c \in Seq(Nat) : c = BytesOf(m) /\ Len(c) = m.len
  BY <1>3
<1>6. /\ recvingBuffer \o c \in Seq(Nat)
      /\ Len(recvingBuffer \o c) = Len(recvingBuffer) + m.len
  BY <1>1, <1>5, ConcatProperties
<1>7. (received \o recvingBuffer) \o c = received \o (recvingBuffer \o c)
  BY <1>1, BytesAssociative, Zenon
<1>8. PICK k \in Nat : k + 1 = m.dsn /\ k = nextRxSequence - 1
  BY <1>2
<1>9. received \o recvingBuffer = [i \in 1 .. k |-> i]
  BY <1>8 DEF IInv, ReceiverInv, StreamSoFar
<1>10. PICK q \in Seq(Nat) : q = received \o recvingBuffer
  BY <1>4
<1>11. q \o BytesOf(m) = [i \in 1 .. k + m.len |-> i]
  <2>1. q = [i \in 1 .. k |-> i] /\ m.dsn = k + 1 /\ m.len \in Nat
    BY <1>2, <1>8, <1>9, <1>10
  <2>2. QED
    BY <2>1, StreamGrows
<1>12. k + m.len = nextRxSequence + m.len - 1
  BY <1>2, <1>8
<1>13. QED
  BY <1>5, <1>6, <1>7, <1>10, <1>11, <1>12

(* A segment at which the stream is and that its sub-flow has come up to   *)
(* gets into the stream.                                                   *)
LEMMA DeliverKeeps ==
  ASSUME IInv, NEW s \in Subflows, NEW m \in sentDSN[s],
         m.dsn = nextRxSequence, m.ssn <= RxSeqNumber[s],
         UNCHANGED <<senderVars, ackPath>>,
         Advance(s, IF m.ssn = RxSeqNumber[s] THEN m.len ELSE 0),
         nextRxSequence' = nextRxSequence + m.len,
         unOrdered' \subseteq unOrdered, Entry(s, m) \notin unOrdered',
         \A e \in unOrdered : e \in unOrdered' \/ e = Entry(s, m),
         rxPhase' = "reading", rxFlow' \in Subflows, rxCursor' \in Nat,
         rxCursor' <= nextRxSequence,
         received' \in Seq(Nat), recvingBuffer' \in Seq(Nat),
         received' \o recvingBuffer' = received \o (recvingBuffer \o BytesOf(m)),
         Len(recvingBuffer') <= MSS,
         dataPath' = [dataPath EXCEPT ![s] = dataPath'[s]],
         dataPath'[s] \in Seq(sentDSN[s])
  PROVE  IInv'
<1>1. /\ m.dsn \in Nat \ {0} /\ m.len \in Nat \ {0} /\ m.ssn \in Nat
      /\ Ends(m) \in Nat /\ DataEnds(m) = m.dsn + m.len
      /\ DataEnds(m) <= nextTxSequence
  BY SegmentTypes DEF DataEnds
<1>2. /\ nextRxSequence \in Nat /\ nextRxSequence' = DataEnds(m)
      /\ nextRxSequence' \in Nat /\ nextRxSequence < nextRxSequence'
  BY <1>1
<1>3. /\ RxSeqNumber' = [RxSeqNumber EXCEPT ![s] = RxSeqNumber'[s]]
      /\ RxSeqNumber'[s] \in Nat
      /\ RxSeqNumber'[s] <= maxSeqNb[s] + 1
      /\ Boundary(s, RxSeqNumber'[s])
      /\ Ends(m) <= RxSeqNumber'[s]
      /\ \A t \in Subflows : /\ RxSeqNumber[t] \in Nat
                             /\ RxSeqNumber'[t] \in Nat
                             /\ RxSeqNumber[t] <= RxSeqNumber'[t]
      /\ \A t \in Subflows : \A n \in sentDSN[t] :
           n.ssn < RxSeqNumber'[t] =>
             n.ssn < RxSeqNumber[t] \/ (t = s /\ n = m)
  BY AdvanceOver
<1>4. ackPath' = [ackPath EXCEPT ![s] = ackPath'[s]] /\ ackPath'[s] = ackPath[s]
  BY ExceptSame DEF IInv, TypeOK
<1>5. /\ SentInv' /\ SenderInv' /\ SenderTypeOK'
      /\ RxSeqNumber' \in [Subflows -> Nat]
      /\ dataPath' \in [Subflows -> Seq(Mapping)]
      /\ ackPath' \in [Subflows -> Seq(Nat)]
  BY <1>3, <1>4, ReceiverStepPaths
<1>6. UNCHANGED <<sentDSN, nextTxSequence>>
  BY DEF senderVars, sendState, seqState
<1>7. TypeOK'
  <2>1. unOrdered' \subseteq Stored
    BY DEF IInv, TypeOK, ReceiverTypeOK
  <2>2. ReceiverTypeOK'
    BY <1>2, <1>5, <2>1 DEF ReceiverTypeOK
  <2>3. QED
    BY <1>5, <2>2 DEF TypeOK
<1>8. StoredWasSent'
  BY <1>6 DEF IInv, ReceiverInv, StoredWasSent, SegmentOf
<1>9. DeliveredIsPassed'
  <2>1. SUFFICES ASSUME NEW t \in Subflows, NEW n \in sentDSN[t],
                        n.dsn < nextRxSequence'
                 PROVE  Ends(n) <= RxSeqNumber'[t]
    BY <1>6 DEF DeliveredIsPassed, Ends
  <2>2. /\ Ends(n) \in Nat /\ n.dsn \in Nat /\ n.dsn < DataEnds(n)
        /\ DataEnds(n) \in Nat
    BY SegmentTypes
  <2>3. n.dsn < nextRxSequence \/ (s = t /\ m = n)
    <3>1. \/ s = t /\ m = n
          \/ DataEnds(m) <= n.dsn
          \/ DataEnds(n) <= m.dsn
      BY BytesDisjoint
    <3>2. ~(DataEnds(m) <= n.dsn)
      BY <1>2, <2>1, <2>2
    <3>3. DataEnds(n) <= m.dsn => n.dsn < nextRxSequence
      BY <1>2, <2>2
    <3>4. QED
      BY <3>1, <3>2, <3>3
  <2>4. CASE n.dsn < nextRxSequence
    <3>1. Ends(n) <= RxSeqNumber[t]
      BY <2>4 DEF IInv, ReceiverInv, DeliveredIsPassed
    <3>2. QED
      BY <1>3, <2>2, <3>1
  <2>5. CASE s = t /\ m = n
    BY <1>3, <2>5
  <2>6. QED
    BY <2>3, <2>4, <2>5
<1>10. PassedIsHeld'
  <2>1. SUFFICES ASSUME NEW t \in Subflows, NEW n \in sentDSN[t],
                        n.ssn < RxSeqNumber'[t]
                 PROVE  \/ n.dsn < nextRxSequence'
                        \/ Entry(t, n) \in unOrdered'
    BY <1>6 DEF PassedIsHeld, Holds, Entry
  <2>2. CASE n.ssn < RxSeqNumber[t]
    <3>1. Holds(t, n)
      BY <2>2 DEF IInv, ReceiverInv, PassedIsHeld
    <3>2. n.dsn \in Nat
      BY SegmentTypes
    <3>3. Entry(t, n) = Entry(s, m) => n.dsn = m.dsn
      BY DEF Entry
    <3>4. QED
      BY <1>1, <1>2, <3>1, <3>2, <3>3 DEF Holds
  <2>3. CASE t = s /\ n = m
    BY <1>1, <1>2, <2>3
  <2>4. QED
    BY <1>3, <2>1, <2>2, <2>3
<1>11. \A e \in unOrdered' : e.dsn >= nextRxSequence'
  <2>1. TAKE e \in unOrdered'
  <2>2. /\ e.sub \in Subflows /\ SegmentOf(e) \in sentDSN[e.sub]
        /\ SegmentOf(e).dsn = e.dsn /\ e.dsn \in Nat
        /\ Entry(e.sub, SegmentOf(e)) = e
    BY EntryTypes
  <2>3. ~(e.sub = s /\ SegmentOf(e) = m)
    BY <2>2
  <2>4. DataEnds(SegmentOf(e)) > e.dsn /\ DataEnds(SegmentOf(e)) \in Nat
    BY <2>2, SegmentTypes
  <2>5. e.dsn >= nextRxSequence
    <3>1. e \in unOrdered
      BY <1>2
    <3>2. QED
      BY <3>1, StoredIsBehind
  <2>6. DataEnds(SegmentOf(e)) <= m.dsn \/ DataEnds(m) <= e.dsn
    BY <2>2, <2>3, BytesDisjoint
  <2>7. QED
    BY <1>1, <1>2, <2>2, <2>4, <2>5, <2>6
<1>12. StoredIsAhead'
  <2>1. SUFFICES ASSUME NEW e \in unOrdered'
                 PROVE  \/ e.dsn > nextRxSequence'
                        \/ e.dsn = nextRxSequence' /\ e.dsn > rxCursor'
    BY DEF StoredIsAhead
  <2>2. e.dsn \in Nat /\ e.dsn >= nextRxSequence'
    BY <1>11, EntryTypes
  <2>3. QED
    BY <1>2, <2>2
<1>13. StreamSoFar'
  <2>1. received \o (recvingBuffer \o BytesOf(m)) =
          [i \in 1 .. nextRxSequence + m.len - 1 |-> i]
    BY StreamContinues
  <2>2. nextRxSequence + m.len - 1 = nextRxSequence' - 1
    BY <1>1, <1>2
  <2>3. received' \o recvingBuffer' = [i \in 1 .. nextRxSequence' - 1 |-> i]
    BY <2>1, <2>2
  <2>4. QED
    BY <1>1, <1>2, <1>6, <2>3 DEF StreamSoFar
<1>14. QED
  BY <1>5, <1>7, <1>8, <1>9, <1>10, <1>12, <1>13 DEF IInv, ReceiverInv

LEMMA InOrderKeeps ==
  ASSUME IInv, NEW s \in Subflows, NEW i \in Leaving(dataPath[s]),
         rxPhase = "idle", InOrder(s, i), UNCHANGED senderVars
  PROVE  IInv'
<1>1. PICK m \in sentDSN[s] : m = dataPath[s][i]
  BY SegmentTaken
<1>2. /\ m.ssn = RxSeqNumber[s] /\ m.dsn = nextRxSequence
      /\ recvingBuffer' = recvingBuffer \o BytesOf(m)
      /\ Advance(s, m.len)
      /\ nextRxSequence' = nextRxSequence + m.len
      /\ rxPhase' = "reading" /\ rxFlow' = s /\ rxCursor' = 0
      /\ dataPath' = [dataPath EXCEPT ![s] = RemoveAt(dataPath[s], i)]
      /\ UNCHANGED <<ackPath, unOrdered, received>>
  BY <1>1 DEF InOrder, IsExpected
<1>3. m.len \in Nat /\ m.len <= MSS /\ nextRxSequence \in Nat
  BY SegmentTypes, NumberTypes
<1>4. dataPath' = [dataPath EXCEPT ![s] = dataPath'[s]]
      /\ dataPath'[s] \in Seq(sentDSN[s])
  BY <1>2, SegmentTaken DEF IInv, TypeOK
<1>5. \A e \in unOrdered : e.dsn > nextRxSequence
  BY DEF IInv, ReceiverInv, StoredIsAhead
<1>6. Entry(s, m) \notin unOrdered
  <2>1. Entry(s, m).dsn = nextRxSequence
    BY <1>2 DEF Entry
  <2>2. QED
    BY <1>3, <1>5, <2>1
<1>7. /\ recvingBuffer' \in Seq(Nat)
      /\ Len(recvingBuffer') = Len(recvingBuffer) + m.len
  BY <1>2, StreamContinues
<1>8. Len(recvingBuffer') <= MSS
  <2>1. recvingBuffer = << >>
    BY DEF IInv, ReceiverInv, StreamSoFar
  <2>2. QED
    BY <1>3, <1>7, <2>1
<1>9. received' \in Seq(Nat)
  BY <1>2 DEF IInv, TypeOK, ReceiverTypeOK
<1>10. /\ received' \o recvingBuffer' = received \o (recvingBuffer \o BytesOf(m))
       /\ Advance(s, IF m.ssn = RxSeqNumber[s] THEN m.len ELSE 0)
       /\ m.ssn <= RxSeqNumber[s]
  BY <1>2, NumberTypes
<1>11. /\ rxFlow' \in Subflows /\ rxCursor' \in Nat /\ rxCursor' <= nextRxSequence
       /\ unOrdered' \subseteq unOrdered /\ Entry(s, m) \notin unOrdered'
       /\ \A e \in unOrdered : e \in unOrdered' \/ e = Entry(s, m)
       /\ UNCHANGED <<senderVars, ackPath>>
  BY <1>2, <1>3, <1>6
<1>12. QED
  BY <1>2, <1>4, <1>7, <1>8, <1>9, <1>10, <1>11, DeliverKeeps

LEMMA ReceivedDataKeeps ==
  ASSUME IInv, NEW s \in Subflows, ReceivedData(s), UNCHANGED senderVars
  PROVE  IInv'
BY InOrderKeeps, AheadOfDataKeeps, OutOfOrderKeeps, DuplicateKeeps
   DEF ReceivedData

(* The entry that ReadEntry delivers is where the stream is, and its       *)
(* sub-flow has come up to it.                                             *)
LEMMA EntryIsReached ==
  ASSUME IInv, NEW e \in unOrdered, e.dsn <= nextRxSequence
  PROVE  e.dsn = nextRxSequence /\ e.ssn <= RxSeqNumber[e.sub]
<1>1. /\ e.sub \in Subflows /\ SegmentOf(e) \in sentDSN[e.sub]
      /\ SegmentOf(e).dsn = e.dsn /\ SegmentOf(e).ssn = e.ssn /\ e.dsn \in Nat
  BY EntryTypes
<1>2. e.dsn = nextRxSequence
  BY <1>1, NumberTypes DEF IInv, ReceiverInv, StoredIsAhead
<1>3. e.ssn <= RxSeqNumber[e.sub]
  BY <1>1, NextIsReached
<1>4. QED
  BY <1>2, <1>3

LEMMA ReadEntryKeeps ==
  ASSUME IInv, NEW e \in unOrdered, ReadEntry(e),
         rxPhase = "reading", rxCursor' = e.dsn,
         UNCHANGED <<rxPhase, rxFlow, pathVars>>, UNCHANGED senderVars
  PROVE  IInv'
<1>1. PICK s \in Subflows : s = e.sub
  BY EntryTypes
<1>2. PICK m \in sentDSN[s] : m = SegmentOf(e)
  BY <1>1, EntryTypes
<1>3. /\ m.dsn = e.dsn /\ m.len = e.len /\ m.ssn = e.ssn /\ Entry(s, m) = e
      /\ m.dsn \in Nat /\ m.len \in Nat /\ m.len <= MSS
  BY <1>1, <1>2, EntryTypes
<1>4. /\ HandleRead(recvingBuffer \o BytesOf(m))
      /\ nextRxSequence' = nextRxSequence + m.len
      /\ Advance(s, IF m.ssn = RxSeqNumber[s] THEN m.len ELSE 0)
      /\ unOrdered' = unOrdered \ {e}
  BY <1>1, <1>3 DEF ReadEntry, BytesOf
<1>5. m.dsn = nextRxSequence /\ m.ssn <= RxSeqNumber[s]
  BY <1>1, <1>3, EntryIsReached DEF ReadEntry
<1>6. PICK b \in Seq(Nat) : /\ b = recvingBuffer \o BytesOf(m)
                            /\ Len(b) = Len(recvingBuffer) + m.len
  BY <1>5, StreamContinues
<1>7. recvingBuffer \in Seq(Nat) /\ received \in Seq(Nat)
  BY DEF IInv, TypeOK, ReceiverTypeOK
<1>8. /\ received' \in Seq(Nat) /\ recvingBuffer' \in Seq(Nat)
      /\ received' \o recvingBuffer' = received \o b
      /\ Len(recvingBuffer') =
           IF Len(b) <= ReadSize THEN 0 ELSE Len(b) - ReadSize
  BY <1>4, <1>6, <1>7, ReadMoves
<1>9. Len(recvingBuffer') <= MSS
  <2>1. Len(recvingBuffer) <= MSS /\ Len(recvingBuffer) \in Nat
    BY <1>7 DEF IInv, ReceiverInv, StreamSoFar
  <2>2. MSS \in Nat /\ ReadSize \in Nat /\ ReadSize >= MSS
    BY SenderAssumption, ReceiverAssumption, TransferAssumption
  <2>3. QED
    BY <1>3, <1>6, <1>8, <2>1, <2>2
<1>10. /\ rxPhase' = "reading" /\ rxFlow' \in Subflows
       /\ rxCursor' \in Nat /\ rxCursor' <= nextRxSequence
  BY <1>3, <1>5 DEF IInv, TypeOK, ReceiverTypeOK
<1>11. /\ unOrdered' \subseteq unOrdered /\ Entry(s, m) \notin unOrdered'
       /\ \A f \in unOrdered : f \in unOrdered' \/ f = Entry(s, m)
  BY <1>3, <1>4
<1>12. /\ dataPath' = [dataPath EXCEPT ![s] = dataPath'[s]]
       /\ dataPath'[s] \in Seq(sentDSN[s])
       /\ UNCHANGED <<senderVars, ackPath>>
  <2>1. dataPath' = dataPath /\ UNCHANGED <<senderVars, ackPath>>
    BY DEF pathVars
  <2>2. dataPath[s] \in Seq(sentDSN[s])
    BY DEF IInv, SenderInv, InTransit
  <2>3. [dataPath EXCEPT ![s] = dataPath[s]] = dataPath
    BY ExceptSame DEF IInv, TypeOK
  <2>4. QED
    BY <2>1, <2>2, <2>3
<1>13. received' \o recvingBuffer' = received \o (recvingBuffer \o BytesOf(m))
  BY <1>6, <1>8
<1>14. QED
  BY <1>4, <1>5, <1>8, <1>9, <1>10, <1>11, <1>12, <1>13, DeliverKeeps

LEMMA PassEntryKeeps ==
  ASSUME IInv, NEW e \in unOrdered, IsNext(e), PassEntry(e),
         rxPhase = "reading", rxCursor' = e.dsn,
         UNCHANGED <<rxPhase, rxFlow, pathVars>>, UNCHANGED senderVars
  PROVE  IInv'
<1>1. PICK s \in Subflows : s = e.sub
  BY EntryTypes
<1>2. PICK m \in sentDSN[s] : m = SegmentOf(e)
  BY <1>1, EntryTypes
<1>3. /\ m.dsn = e.dsn /\ m.len = e.len /\ m.ssn = e.ssn /\ Entry(s, m) = e
      /\ e.dsn \in Nat
  BY <1>1, <1>2, EntryTypes
<1>4. /\ e.dsn > nextRxSequence
      /\ Advance(s, IF m.ssn = RxSeqNumber[s] THEN m.len ELSE 0)
      /\ UNCHANGED <<nextRxSequence, unOrdered, recvingBuffer, received>>
  BY <1>1, <1>3 DEF PassEntry
<1>5. /\ RxSeqNumber' = [RxSeqNumber EXCEPT ![s] = RxSeqNumber'[s]]
      /\ RxSeqNumber'[s] \in Nat
      /\ RxSeqNumber[s] <= RxSeqNumber'[s]
      /\ RxSeqNumber'[s] <= maxSeqNb[s] + 1
      /\ Boundary(s, RxSeqNumber'[s])
      /\ \A t \in Subflows : /\ RxSeqNumber[t] \in Nat
                             /\ RxSeqNumber'[t] \in Nat
                             /\ RxSeqNumber[t] <= RxSeqNumber'[t]
      /\ \A t \in Subflows : \A n \in sentDSN[t] :
           n.ssn < RxSeqNumber'[t] =>
             n.ssn < RxSeqNumber[t] \/ (t = s /\ n = m)
  BY <1>4, AdvanceOver
<1>6. /\ dataPath' = [dataPath EXCEPT ![s] = dataPath'[s]]
      /\ dataPath'[s] \in Seq(sentDSN[s])
      /\ ackPath' = [ackPath EXCEPT ![s] = ackPath'[s]]
      /\ ackPath'[s] = ackPath[s]
  <2>1. dataPath' = dataPath /\ ackPath' = ackPath
    BY DEF pathVars
  <2>2. dataPath[s] \in Seq(sentDSN[s])
    BY DEF IInv, SenderInv, InTransit
  <2>3. [dataPath EXCEPT ![s] = dataPath[s]] = dataPath
    BY ExceptSame DEF IInv, TypeOK
  <2>4. [ackPath EXCEPT ![s] = ackPath[s]] = ackPath
    BY ExceptSame DEF IInv, TypeOK
  <2>5. QED
    BY <2>1, <2>2, <2>3, <2>4
<1>7. /\ SentInv' /\ SenderInv' /\ SenderTypeOK'
      /\ RxSeqNumber' \in [Subflows -> Nat]
      /\ dataPath' \in [Subflows -> Seq(Mapping)]
      /\ ackPath' \in [Subflows -> Seq(Nat)]
  BY <1>5, <1>6, ReceiverStepPaths
<1>8. UNCHANGED <<sentDSN, nextTxSequence>>
  BY DEF senderVars, sendState, seqState
<1>9. TypeOK'
  <2>1. ReceiverTypeOK'
    BY <1>3, <1>4, <1>7 DEF IInv, TypeOK, ReceiverTypeOK
  <2>2. QED
    BY <1>7, <2>1 DEF TypeOK
<1>10. StoredWasSent'
  BY <1>4, <1>8 DEF IInv, ReceiverInv, StoredWasSent, SegmentOf
<1>11. DeliveredIsPassed'
  <2>1. SUFFICES ASSUME NEW t \in Subflows, NEW n \in sentDSN[t],
                        n.dsn < nextRxSequence
                 PROVE  Ends(n) <= RxSeqNumber'[t]
    BY <1>4, <1>8 DEF DeliveredIsPassed, Ends
  <2>2. Ends(n) <= RxSeqNumber[t] /\ Ends(n) \in Nat
    BY <2>1, SegmentTypes DEF IInv, ReceiverInv, DeliveredIsPassed
  <2>3. QED
    BY <1>5, <2>2
<1>12. PassedIsHeld'
  <2>1. SUFFICES ASSUME NEW t \in Subflows, NEW n \in sentDSN[t],
                        n.ssn < RxSeqNumber'[t]
                 PROVE  Holds(t, n)
    BY <1>4, <1>8 DEF PassedIsHeld, Holds, Entry
  <2>2. CASE n.ssn < RxSeqNumber[t]
    BY <2>2 DEF IInv, ReceiverInv, PassedIsHeld
  <2>3. CASE t = s /\ n = m
    BY <1>3, <2>3 DEF Holds
  <2>4. QED
    BY <1>5, <2>1, <2>2, <2>3
<1>13. StoredIsAhead'
  <2>1. SUFFICES ASSUME NEW f \in unOrdered
                 PROVE  f.dsn > nextRxSequence
    BY <1>4 DEF StoredIsAhead
  <2>2. f.dsn > rxCursor => e.dsn <= f.dsn
    BY DEF IsNext
  <2>3. f.dsn \in Nat /\ nextRxSequence \in Nat
    BY EntryTypes, <1>1, NumberTypes
  <2>4. f.dsn > nextRxSequence \/ f.dsn > rxCursor
    BY DEF IInv, ReceiverInv, StoredIsAhead
  <2>5. QED
    BY <1>3, <1>4, <2>2, <2>3, <2>4
<1>14. StreamSoFar'
  BY <1>4, <1>8 DEF IInv, ReceiverInv, StreamSoFar
<1>15. QED
  BY <1>7, <1>9, <1>10, <1>11, <1>12, <1>13, <1>14 DEF IInv, ReceiverInv

LEMMA ReadDoneKeeps ==
  ASSUME IInv, ReadDone, UNCHANGED senderVars
  PROVE  IInv'
<1>1. /\ rxPhase = "reading" /\ rxFlow \in Subflows
      /\ \A e \in unOrdered : e.dsn <= rxCursor
      /\ HandleRead(recvingBuffer)
      /\ rxPhase' = "idle" /\ rxFlow' = 0 /\ rxCursor' = 0
      /\ UNCHANGED <<RxSeqNumber, nextRxSequence, unOrdered, dataPath>>
  BY DEF ReadDone, IInv, TypeOK, ReceiverTypeOK
<1>2. PICK s \in Subflows : s = rxFlow
  BY <1>1
<1>3. ackPath' = [ackPath EXCEPT ![s] = Enqueue(ackPath[s], RxSeqNumber'[s])]
  BY <1>1, <1>2 DEF ReadDone
<1>4. /\ RxSeqNumber \in [Subflows -> Nat]
      /\ dataPath \in [Subflows -> Seq(Mapping)]
      /\ ackPath \in [Subflows -> Seq(Nat)]
      /\ recvingBuffer \in Seq(Nat) /\ received \in Seq(Nat)
      /\ rxCursor \in Nat /\ unOrdered \subseteq Stored /\ nextRxSequence \in Nat
  BY DEF IInv, TypeOK, ReceiverTypeOK
<1>5. /\ RxSeqNumber' = [RxSeqNumber EXCEPT ![s] = RxSeqNumber'[s]]
      /\ RxSeqNumber'[s] \in Nat /\ RxSeqNumber[s] <= RxSeqNumber'[s]
      /\ RxSeqNumber'[s] <= maxSeqNb[s] + 1
      /\ Boundary(s, RxSeqNumber'[s])
  <2>1. RxSeqNumber[s] <= maxSeqNb[s] + 1 /\ Boundary(s, RxSeqNumber[s])
    BY DEF IInv, SenderInv, Progress, Boundaries
  <2>2. QED
    BY <1>1, <1>4, <2>1, ExceptSame
<1>6. /\ dataPath' = [dataPath EXCEPT ![s] = dataPath'[s]]
      /\ dataPath'[s] \in Seq(sentDSN[s])
  <2>1. dataPath[s] \in Seq(sentDSN[s])
    BY DEF IInv, SenderInv, InTransit
  <2>2. QED
    BY <1>1, <1>4, <2>1, ExceptSame
<1>7. /\ ackPath' = [ackPath EXCEPT ![s] = ackPath'[s]]
      /\ ackPath'[s] = Enqueue(ackPath[s], RxSeqNumber'[s])
  BY <1>3, <1>4
<1>8. /\ SentInv' /\ SenderInv' /\ SenderTypeOK'
      /\ dataPath' \in [Subflows -> Seq(Mapping)]
      /\ ackPath' \in [Subflows -> Seq(Nat)]
  BY <1>5, <1>6, <1>7, ReceiverStepPaths
<1>9. UNCHANGED <<sentDSN, nextTxSequence>>
  BY DEF senderVars, sendState, seqState
<1>10. /\ received' \in Seq(Nat) /\ recvingBuffer' \in Seq(Nat)
       /\ received' \o recvingBuffer' = received \o recvingBuffer
       /\ Len(recvingBuffer') = IF Len(recvingBuffer) <= ReadSize THEN 0
                                ELSE Len(recvingBuffer) - ReadSize
  BY <1>1, <1>4, ReadMoves
<1>11. Len(recvingBuffer') = 0
  <2>1. Len(recvingBuffer) <= MSS /\ Len(recvingBuffer) \in Nat
    BY <1>4 DEF IInv, ReceiverInv, StreamSoFar
  <2>2. MSS \in Nat /\ ReadSize \in Nat /\ ReadSize >= MSS
    BY SenderAssumption, ReceiverAssumption, TransferAssumption
  <2>3. QED
    BY <1>10, <2>1, <2>2
<1>12. recvingBuffer' = << >>
  BY <1>10, <1>11, EmptySeq
<1>13. TypeOK'
  <2>1. 0 \in Subflows
    BY PathAssumption DEF Subflows
  <2>2. ReceiverTypeOK'
    BY <1>1, <1>4, <1>10, <2>1 DEF ReceiverTypeOK
  <2>3. QED
    BY <1>8, <2>2 DEF TypeOK
<1>14. StoredWasSent' /\ DeliveredIsPassed' /\ PassedIsHeld'
  BY <1>1, <1>9 DEF IInv, ReceiverInv, StoredWasSent, SegmentOf,
     DeliveredIsPassed, PassedIsHeld, Holds, Entry, Ends
<1>15. StoredIsAhead'
  <2>1. SUFFICES ASSUME NEW e \in unOrdered
                 PROVE  e.dsn > nextRxSequence
    BY <1>1 DEF StoredIsAhead
  <2>2. e.dsn \in Nat /\ ~(e.dsn > rxCursor)
    BY <1>1, <1>4, EntryTypes
  <2>3. QED
    BY <2>2 DEF IInv, ReceiverInv, StoredIsAhead
<1>16. StreamSoFar'
  <2>1. /\ nextRxSequence <= nextTxSequence
        /\ received \o recvingBuffer = [i \in 1 .. nextRxSequence - 1 |-> i]
    BY DEF IInv, ReceiverInv, StreamSoFar
  <2>2. MSS \in Nat
    BY SenderAssumption
  <2>3. QED
    BY <1>1, <1>9, <1>10, <1>11, <1>12, <2>1, <2>2 DEF StreamSoFar
<1>17. QED
  BY <1>8, <1>13, <1>14, <1>15, <1>16 DEF IInv, ReceiverInv

LEMMA ReadStepKeeps ==
  ASSUME IInv, ReadStep, UNCHANGED senderVars
  PROVE  IInv'
BY ReadEntryKeeps, PassEntryKeeps DEF ReadStep

-----------------------------------------------------------------------------
(* Losses. *)

LEMMA LossKeeps ==
  ASSUME IInv, NEW s \in Subflows, LoseData(s) \/ LoseAck(s),
         UNCHANGED <<senderVars, receiverVars>>
  PROVE  IInv'
<1>1. /\ UNCHANGED <<sentDSN, nextTxSequence, maxSeqNb, RxSeqNumber>>
      /\ UNCHANGED <<seqState, inFastRec, recover>>
  BY DEF senderVars, sendState, seqState, ccState, receiverVars
<1>2. /\ dataPath \in [Subflows -> Seq(Mapping)]
      /\ ackPath \in [Subflows -> Seq(Nat)]
      /\ dataPath[s] \in Seq(sentDSN[s]) /\ ackPath[s] \in Seq(AckNumbers(s))
  BY DEF IInv, TypeOK, SenderInv, InTransit
<1>3. /\ InTransit'
      /\ dataPath' \in [Subflows -> Seq(Mapping)]
      /\ ackPath' \in [Subflows -> Seq(Nat)]
  <2>1. CASE LoseData(s)
    <3>1. PICK i \in Leaving(dataPath[s]) :
            /\ dataPath' = [dataPath EXCEPT ![s] = RemoveAt(dataPath[s], i)]
            /\ ackPath' = ackPath
      BY <2>1 DEF LoseData
    <3>2. RemoveAt(dataPath[s], i) \in Seq(sentDSN[s])
      BY SegmentTaken
    <3>3. ackPath' = [ackPath EXCEPT ![s] = ackPath[s]]
      BY <1>2, <3>1, ExceptSame
    <3>4. QED
      BY <1>1, <1>2, <3>1, <3>2, <3>3, PathFrame
  <2>2. CASE LoseAck(s)
    <3>1. PICK i \in Leaving(ackPath[s]) :
            /\ ackPath' = [ackPath EXCEPT ![s] = RemoveAt(ackPath[s], i)]
            /\ dataPath' = dataPath
      BY <2>2 DEF LoseAck
    <3>2. RemoveAt(ackPath[s], i) \in Seq(AckNumbers(s))
      BY AckTaken
    <3>3. dataPath' = [dataPath EXCEPT ![s] = dataPath[s]]
      BY <1>2, <3>1, ExceptSame
    <3>4. QED
      BY <1>1, <1>2, <3>1, <3>2, <3>3, PathFrame
  <2>3. QED
    BY <2>1, <2>2
<1>4. MapIsUnacked' /\ Boundaries' /\ Progress' /\ RecoveryBounds'
  BY <1>1 DEF IInv, SenderInv, MapIsUnacked, Boundaries, Boundary, Progress,
     RecoveryBounds, FastRecoveryEnds, Ends, seqState
<1>5. SenderTypeOK'
  BY DEF IInv, TypeOK, SenderTypeOK, senderVars, sendState, seqState, ccState,
     txLoop
<1>6. SentInv' /\ ReceiverInv' /\ ReceiverTypeOK'
  BY <1>1, SentFrame, ReceiverFrame, ReceiverTypeFrame
<1>7. QED
  BY <1>3, <1>4, <1>5, <1>6 DEF IInv, TypeOK, SenderInv

-----------------------------------------------------------------------------
(* The invariant. *)

LEMMA InitHolds == Init => IInv
<1> SUFFICES ASSUME Init PROVE IInv
  OBVIOUS
<1> USE DEF Init
<1>1. 0 \in Subflows /\ MSS \in Nat /\ InitialSsthresh \in Nat
  BY PathAssumption, SenderAssumption DEF Subflows
<1>2. SenderTypeOK
  BY <1>1 DEF SenderInit, SenderTypeOK, DupAckCap
<1>3. ReceiverTypeOK /\ dataPath \in [Subflows -> Seq(Mapping)]
      /\ ackPath \in [Subflows -> Seq(Nat)]
  BY <1>1 DEF ReceiverInit, ReceiverTypeOK, PathInit
<1>4. SentInv
  BY DEF SenderInit, SentInv, SegmentsSent, SegmentOrder, SegmentsDisjoint
<1>5. SenderInv
  <2>1. MapIsUnacked /\ Progress /\ RecoveryBounds
    BY DEF SenderInit, ReceiverInit, MapIsUnacked, Progress, RecoveryBounds,
       FastRecoveryEnds
  <2>2. Boundaries
    BY DEF SenderInit, ReceiverInit, Boundaries, Boundary
  <2>3. InTransit
    BY DEF PathInit, InTransit
  <2>4. QED
    BY <2>1, <2>2, <2>3 DEF SenderInv
<1>6. ReceiverInv
  <2>1. StoredWasSent /\ DeliveredIsPassed /\ PassedIsHeld /\ StoredIsAhead
    BY DEF SenderInit, ReceiverInit, StoredWasSent, DeliveredIsPassed,
       PassedIsHeld, StoredIsAhead
  <2>2. StreamSoFar
    <3>1. << >> \o << >> = [i \in 1 .. 1 - 1 |-> i]
      OBVIOUS
    <3>2. QED
      BY <1>1, <3>1 DEF SenderInit, ReceiverInit, StreamSoFar
  <2>3. QED
    BY <2>1, <2>2 DEF ReceiverInv
<1>7. QED
  BY <1>2, <1>3, <1>4, <1>5, <1>6 DEF IInv, TypeOK

LEMMA StutterKeeps ==
  ASSUME IInv, UNCHANGED vars
  PROVE  IInv'
<1>1. /\ UNCHANGED <<senderVars, receiverVars, pathVars>>
      /\ UNCHANGED <<sentDSN, nextTxSequence, maxSeqNb, RxSeqNumber>>
      /\ UNCHANGED <<seqState, inFastRec, recover>>
  BY DEF vars, senderVars, sendState, seqState, ccState, receiverVars
<1>2. SentInv' /\ SenderInv' /\ ReceiverInv' /\ ReceiverTypeOK'
  BY <1>1, SentFrame, SenderFrame, ReceiverFrame, ReceiverTypeFrame
<1>3. SenderTypeOK'
  BY <1>1 DEF IInv, TypeOK, SenderTypeOK, senderVars, sendState, seqState,
     ccState, txLoop
<1>4. QED
  BY <1>1, <1>2, <1>3 DEF IInv, TypeOK, pathVars

LEMMA NextKeeps == IInv /\ [Next]_vars => IInv'
<1> SUFFICES ASSUME IInv, [Next]_vars PROVE IInv'
  OBVIOUS
<1>1. CASE SenderTurn
  BY <1>1, SenderStepKeeps DEF SenderTurn
<1>2. CASE ReceiverTurn
  BY <1>2, ReadStepKeeps, ReadDoneKeeps, ReceivedDataKeeps
     DEF ReceiverTurn, ReceiverStep
<1>3. CASE Loss
  BY <1>3, LossKeeps DEF Loss
<1>4. CASE Done
  BY <1>4, StutterKeeps DEF Done
<1>5. CASE UNCHANGED vars
  BY <1>5, StutterKeeps
<1>6. QED
  BY <1>1, <1>2, <1>3, <1>4, <1>5 DEF Next

(* The two ends and the paths between them keep the invariant IInv, from   *)
(* which the properties of MpTcpTransfer follow.                           *)
THEOREM Invariance == Spec => []IInv
<1>1. Init => IInv
  BY InitHolds
<1>2. IInv /\ [Next]_vars => IInv'
  BY NextKeeps
<1>3. QED
  BY <1>1, <1>2, PTL DEF Spec
=============================================================================
