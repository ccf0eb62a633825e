------------------------ MODULE MpTcpCloseProgress -------------------------
(***************************************************************************)
(* While data or a FIN waits, the timer of some sub-flow is enough to go   *)
(* on: the part of the liveness of a close that is about states.           *)
(***************************************************************************)
EXTENDS MpTcpCloseProofs

-----------------------------------------------------------------------------
(* Data numbers are sent once, and in order. *)

LEMMA OrderSame ==
  ASSUME SentOnce, SentInOrder, UNCHANGED sent
  PROVE  SentOnce' /\ SentInOrder'
BY DEF SentOnce, SentInOrder, maxSeqNb

LEMMA SamePlace ==
  ASSUME SentOnce, NEW t \in Subflows, NEW u \in Subflows,
         NEW i \in 1 .. Len(sent[t]), NEW j \in 1 .. Len(sent[u]),
         sent[t][i] = sent[u][j]
  PROVE  t = u /\ i = j
<1>1. \A v \in Subflows : \A n \in 1 .. Len(sent[v]), k \in 1 .. Len(sent[u]) :
        sent[v][n] = sent[u][k] => v = u /\ n = k
  BY DEF SentOnce, maxSeqNb
<1> QED
  BY <1>1

LEMMA EarlierPlace ==
  ASSUME SentInOrder, NEW t \in Subflows,
         NEW i \in 1 .. Len(sent[t]), NEW j \in 1 .. Len(sent[t]), i < j
  PROVE  sent[t][i] < sent[t][j]
BY DEF SentInOrder, maxSeqNb

LEMMA SentNumbers ==
  ASSUME CloseInv, NEW t \in Subflows
  PROVE  /\ sent[t] \in Seq(Nat) /\ Len(sent[t]) \in Nat
         /\ nextTxSequence \in Nat
         /\ \A n \in 1 .. Len(sent[t]) :
              n \in Nat /\ sent[t][n] \in Nat /\ sent[t][n] < nextTxSequence
<1>1. sent[t] \in Seq(Nat) /\ Len(sent[t]) \in Nat /\ nextTxSequence \in Nat
  BY Counters DEF CloseInv, maxSeqNb
<1>2. \A n \in 1 .. Len(sent[t]) : sent[t][n] \in 1 .. nextTxSequence - 1
  BY DEF CloseInv, DataNumbers, maxSeqNb
<1> QED
  BY <1>1, <1>2

(* What SendDataPacket does to the numbers of the sub-flows. *)
LEMMA NewSegment ==
  ASSUME CloseInv, NEW s \in Subflows, SendDataPacket(s)
  PROVE  /\ Len(sent'[s]) = Len(sent[s]) + 1
         /\ \A n \in 1 .. Len(sent[s]) : sent'[s][n] = sent[s][n]
         /\ sent'[s][Len(sent[s]) + 1] = nextTxSequence
         /\ \A t \in Subflows \ {s} : sent'[t] = sent[t]
<1>1. /\ sent' = [sent EXCEPT ![s] = Append(sent[s], nextTxSequence)]
      /\ sent \in [Subflows -> Seq(Nat)]
  BY DEF SendDataPacket, CloseInv, TypeOK
<1>2. sent'[s] = Append(sent[s], nextTxSequence)
  BY <1>1
<1> QED
  BY <1>1, <1>2, SentNumbers

(* Each number below nextTxSequence is older than the one that is sent.    *)
LEMMA NewIsLast ==
  ASSUME CloseInv, SentOnce, SentInOrder, NEW s \in Subflows, SendDataPacket(s)
  PROVE  SentOnce' /\ SentInOrder'
<1> DEFINE Older(t, n) ==
             /\ n \in 1 .. Len(sent[t]) /\ n \in Nat /\ Len(sent[t]) \in Nat
             /\ sent'[t][n] = sent[t][n] /\ sent[t][n] \in Nat
             /\ sent[t][n] < nextTxSequence /\ nextTxSequence \in Nat
<1>1. ASSUME NEW t \in Subflows, NEW n \in 1 .. Len(sent'[t])
      PROVE  \/ Older(t, n)
             \/ t = s /\ n = Len(sent[s]) + 1 /\ sent'[t][n] = nextTxSequence
  <2>1. CASE t = s
    <3>1. n \in 1 .. Len(sent[s]) + 1 /\ Len(sent[s]) \in Nat
      BY <2>1, NewSegment, SentNumbers
    <3>2. CASE n = Len(sent[s]) + 1
      BY <2>1, <3>2, NewSegment
    <3>3. CASE n \in 1 .. Len(sent[s])
      BY <2>1, <3>3, NewSegment, SentNumbers
    <3> QED
      BY <3>1, <3>2, <3>3
  <2>2. CASE t # s
    BY <2>2, NewSegment, SentNumbers
  <2> QED
    BY <2>1, <2>2
<1>2. SentOnce'
  <2> SUFFICES ASSUME NEW t \in Subflows, NEW u \in Subflows,
                      NEW i \in 1 .. Len(sent'[t]), NEW j \in 1 .. Len(sent'[u]),
                      sent'[t][i] = sent'[u][j]
               PROVE  t = u /\ i = j
    BY DEF SentOnce, maxSeqNb
  <2>1. /\ Older(t, i) => sent'[t][i] # nextTxSequence
        /\ Older(u, j) => sent'[u][j] # nextTxSequence
    OBVIOUS
  <2>2. ASSUME ~ Older(t, i)
        PROVE  t = s /\ i = Len(sent[s]) + 1 /\ sent'[t][i] = nextTxSequence
    BY <1>1, <2>2
  <2>3. ASSUME ~ Older(u, j)
        PROVE  u = s /\ j = Len(sent[s]) + 1 /\ sent'[u][j] = nextTxSequence
    BY <1>1, <2>3
  <2>4. ASSUME Older(t, i), Older(u, j) PROVE t = u /\ i = j
    <3>1. /\ i \in 1 .. Len(sent[t]) /\ j \in 1 .. Len(sent[u])
          /\ sent[t][i] = sent[u][j]
      BY <2>4
    <3> HIDE DEF Older
    <3> QED
      BY <3>1, SamePlace
  <2> HIDE DEF Older
  <2> QED
    BY <2>1, <2>2, <2>3, <2>4
<1>3. SentInOrder'
  <2> SUFFICES ASSUME NEW t \in Subflows,
                      NEW i \in 1 .. Len(sent'[t]), NEW j \in 1 .. Len(sent'[t]), i < j
               PROVE  sent'[t][i] < sent'[t][j]
    BY DEF SentInOrder, maxSeqNb
  <2>1. CASE Older(t, i) /\ Older(t, j)
    BY <2>1, EarlierPlace
  <2>2. CASE Older(t, i) /\ ~ Older(t, j)
    BY <1>1, <2>2
  <2>3. ASSUME ~ Older(t, i) PROVE FALSE
    <3>1. t = s /\ i = Len(sent[s]) + 1 /\ Len(sent[s]) \in Nat
      BY <1>1, <2>3, SentNumbers
    <3>2. j \in 1 .. Len(sent[s]) + 1
      BY <3>1, NewSegment
    <3> QED
      BY <3>1, <3>2
  <2> QED
    BY <2>1, <2>2, <2>3
<1> QED
  BY <1>2, <1>3

-----------------------------------------------------------------------------
(* What is delivered was passed by its sub-flow. *)

LEMMA DeliveredSame ==
  ASSUME DeliveredIsPassed, CloseInv, UNCHANGED <<sent, nextRxSequence>>,
         \A t \in Subflows : RxSeqNumber'[t] \in Nat /\ RxSeqNumber[t] <= RxSeqNumber'[t]
  PROVE  DeliveredIsPassed'
<1> SUFFICES ASSUME NEW t \in Subflows, NEW n \in 1 .. Len(sent[t]),
                    sent[t][n] < nextRxSequence
             PROVE  n < RxSeqNumber'[t]
  BY DEF DeliveredIsPassed, maxSeqNb
<1>1. n < RxSeqNumber[t]
  BY DEF DeliveredIsPassed, maxSeqNb
<1> QED
  BY <1>1, Bounds

(* New data is behind all that is delivered. *)
LEMMA NewIsNotDelivered ==
  ASSUME CloseInv, DeliveredIsPassed, NEW s \in Subflows, SendDataPacket(s)
  PROVE  DeliveredIsPassed'
<1> SUFFICES ASSUME NEW t \in Subflows, NEW n \in 1 .. Len(sent'[t]),
                    sent'[t][n] < nextRxSequence
             PROVE  n < RxSeqNumber[t]
  BY DEF DeliveredIsPassed, maxSeqNb, SendDataPacket, serverVars, receiveVars
<1>1. n \in 1 .. Len(sent[t]) /\ sent'[t][n] = sent[t][n]
  <2>1. nextRxSequence <= nextTxSequence /\ nextRxSequence \in Nat /\ nextTxSequence \in Nat
    BY Bounds
  <2>2. CASE t = s
    <3>1. n \in 1 .. Len(sent[s]) + 1 /\ Len(sent[s]) \in Nat
      BY <2>2, NewSegment, SentNumbers
    <3>2. n # Len(sent[s]) + 1
      BY <2>1, <2>2, NewSegment
    <3> QED
      BY <2>2, <3>1, <3>2, NewSegment
  <2>3. CASE t # s
    BY <2>3, NewSegment
  <2> QED
    BY <2>2, <2>3
<1> QED
  BY <1>1 DEF DeliveredIsPassed, maxSeqNb

(* A segment in order lets its sub-flow pass, and every other one that has *)
(* stored what is delivered with it.                                       *)
LEMMA InOrderPasses ==
  ASSUME CloseInv, SentOnce, SentInOrder, DeliveredIsPassed,
         NEW s \in Subflows, NEW p \in DataFits(s), p.kind = "DATA",
         InOrder(s, p), UNCHANGED sent
  PROVE  DeliveredIsPassed'
<1> DEFINE N == nextRxSequence'
<1>1. /\ p.number \in 1 .. Len(sent[s]) /\ p.number \in Nat
      /\ p.dsn = sent[s][p.number]
      /\ p.number = RxSeqNumber[s] /\ p.dsn = nextRxSequence
  BY SegmentWasSent DEF InOrder
<1>2. /\ N \in nextRxSequence + 1 .. MaxSegments + 2
      /\ \A j \in nextRxSequence + 1 .. N - 1 : j \in {e.dsn : e \in unOrdered}
  BY NextIsAhead
<1> SUFFICES ASSUME NEW t \in Subflows, NEW n \in 1 .. Len(sent[t]),
                    sent[t][n] < N, ~ n < RxSeqNumber'[t]
             PROVE  FALSE
  BY DEF DeliveredIsPassed, maxSeqNb
<1> DEFINE from == IF t = s THEN RxSeqNumber[t] + 1 ELSE RxSeqNumber[t]
           R    == RxSeqNumber'[t]
<1>3. /\ from \in Nat /\ from >= RxSeqNumber[t]
      /\ from <= Len(sent[t]) + 2 /\ from <= MaxSegments + 2
  <2>1. from \in Nat /\ from >= RxSeqNumber[t] /\ from <= Len(sent[t]) + 2
    BY <1>1, Bounds
  <2> HIDE DEF from
  <2> QED
    BY <2>1, Bounds
<1>4. /\ R \in from .. MaxSegments + 2 /\ R \notin StoredOn(t)
  <2>1. R = FirstFree(from, StoredOn(t))
    BY DEF InOrder
  <2>2. MaxSegments + 2 \notin StoredOn(t)
    BY StoredNumbers, Bounds DEF StoredOn
  <2> HIDE DEF from, R
  <2> QED
    BY <1>3, <2>1, <2>2, FirstFreeExists
(* All that is delivered of t is behind from, or stored on t. *)
<1>5. ASSUME NEW k \in 1 .. Len(sent[t]), sent[t][k] < N
      PROVE  k < from \/ k \in StoredOn(t)
  <2>1. k \in Nat /\ sent[t][k] \in Nat
    BY SentNumbers
  <2>2. CASE sent[t][k] < nextRxSequence
    <3>1. k < RxSeqNumber[t]
      BY <2>2 DEF DeliveredIsPassed, maxSeqNb
    <3> QED
      BY <2>1, <3>1, <1>3, Bounds
  <2>3. CASE sent[t][k] = nextRxSequence
    <3>1. t = s /\ k = p.number
      BY <1>1, <2>3, SamePlace
    <3> QED
      BY <1>1, <3>1
  <2>4. CASE sent[t][k] > nextRxSequence
    <3>1. sent[t][k] \in nextRxSequence + 1 .. N - 1
      BY <1>2, <1>5, <2>1, <2>4, Bounds
    <3>2. PICK e \in unOrdered : e.dsn = sent[t][k]
      BY <1>2, <3>1
    <3>3. PICK v \in Subflows : e.sub = v
      BY StoredNumbers
    <3>4. PICK m \in 1 .. Len(sent[v]) : e.ssn = m /\ sent[v][m] = sent[t][k]
      BY <3>2, <3>3, StoredNumbers
    <3>5. v = t /\ m = k
      BY <3>4, SamePlace
    <3> QED
      BY <3>3, <3>4, <3>5 DEF StoredOn
  <2> QED
    BY <2>1, <2>2, <2>3, <2>4, Bounds
(* The number R, at which t stops, is not behind n, so it was delivered.   *)
<1>6. R \in Nat /\ R <= n /\ n \in Nat /\ R \in 1 .. Len(sent[t])
  <2>1. ~ n < R /\ R \in from .. MaxSegments + 2
    BY <1>4
  <2> HIDE DEF from, R
  <2>2. R \in Nat /\ R >= 1
    BY <1>3, <2>1, Bounds
  <2> QED
    BY <2>1, <2>2, SentNumbers
<1>7. sent[t][R] = sent[t][n] \/ sent[t][R] < sent[t][n]
  <2> HIDE DEF R
  <2>1. CASE R = n
    BY <2>1
  <2>2. CASE R < n
    BY <1>6, <2>2, EarlierPlace
  <2> QED
    BY <1>6, <2>1, <2>2
<1>8. sent[t][R] < N
  <2>1. sent[t][R] \in Nat /\ sent[t][n] \in Nat /\ N \in Nat /\ sent[t][n] < N
    <3>1. N \in Nat
      BY <1>2, Bounds
    <3> HIDE DEF R, N
    <3> QED
      BY <1>6, <3>1, SentNumbers
  <2> HIDE DEF N, R
  <2> QED
    BY <1>7, <2>1
<1>9. R < from \/ R \in StoredOn(t)
  <2> HIDE DEF from, R, N
  <2> QED
    BY <1>5, <1>6, <1>8
<1> HIDE DEF from, R
<1> QED
  BY <1>3, <1>4, <1>9, Bounds

-----------------------------------------------------------------------------
(* The rest of the server's steps, and the client's. *)

(* What arrives at the server takes no sub-flow back.                      *)
LEMMA ServerGoesOn ==
  ASSUME CloseInv, SentOnce, SentInOrder, DeliveredIsPassed,
         NEW s \in Subflows, NEW n, ToServer(s, n)
  PROVE  /\ DeliveredIsPassed'
         /\ \A t \in Subflows :
              RxSeqNumber'[t] \in Nat /\ RxSeqNumber[t] <= RxSeqNumber'[t]
         /\ UNCHANGED clientVars /\ (reset => reset')
<1>1. PICK i \in Leaving(dataPath[s]) :
        LET p == dataPath[s][i] IN
        /\ dataPath' = Take(dataPath, s, i)
        /\ \/ ReceivedData(s, p) \/ PeerClose(s, p) \/ RepeatedFin(s, p)
           \/ LastAck(s, p) \/ ServerReset(s, p) \/ ServerRefuses(s, p)
        /\ UNCHANGED clientVars
  BY DEF ToServer
<1> DEFINE p == dataPath[s][i]
<1>2. p \in DataFits(s)
  BY DataTaken DEF CloseInv
<1>3. UNCHANGED <<sent, clientVars>>
  BY <1>1 DEF clientVars
<1> HIDE DEF p
<1>4. CASE ReceivedData(s, p)
  <2>1. DataProgress(s, p)
    BY <1>2, <1>3, <1>4, InOrderProgress, OutOfOrderProgress, DuplicateProgress
       DEF ReceivedData
  <2>2. \A t \in Subflows :
          RxSeqNumber'[t] \in Nat /\ RxSeqNumber[t] <= RxSeqNumber'[t]
    BY <2>1 DEF DataProgress
  <2>3. CASE InOrder(s, p)
    BY <1>2, <1>3, <1>4, <2>2, <2>3, InOrderPasses DEF ReceivedData
  <2>4. CASE OutOfOrder(s, p) \/ Duplicate(s, p)
    BY <1>3, <1>4, <2>2, <2>4, DeliveredSame DEF ReceivedData, OutOfOrder, Duplicate
  <2> QED
    BY <1>3, <1>4, <2>2, <2>3, <2>4 DEF ReceivedData
<1>5. CASE PeerClose(s, p)
  <2>1. /\ UNCHANGED <<nextRxSequence, reset>>
        /\ \/ UNCHANGED RxSeqNumber
           \/ /\ p.number = RxSeqNumber[s]
              /\ RxSeqNumber' = [RxSeqNumber EXCEPT ![s] = p.number + 1]
    BY <1>5 DEF PeerClose, Counts
  <2>2. \A t \in Subflows :
          RxSeqNumber'[t] \in Nat /\ RxSeqNumber[t] <= RxSeqNumber'[t]
    <3>1. RxSeqNumber \in [Subflows -> Nat]
      BY DEF CloseInv, TypeOK
    <3>2. CASE UNCHANGED RxSeqNumber
      BY <3>1, <3>2
    <3>3. CASE RxSeqNumber' = [RxSeqNumber EXCEPT ![s] = RxSeqNumber[s] + 1]
      BY <3>1, <3>3
    <3> QED
      BY <2>1, <3>2, <3>3
  <2> QED
    BY <1>3, <2>1, <2>2, DeliveredSame
<1>6. CASE RepeatedFin(s, p) \/ LastAck(s, p) \/ ServerReset(s, p) \/ ServerRefuses(s, p)
  <2>1. UNCHANGED <<nextRxSequence, RxSeqNumber>> /\ (reset => reset')
    BY <1>6 DEF RepeatedFin, LastAck, ServerReset, ServerRefuses, serverVars, receiveVars
  <2>2. \A t \in Subflows :
          RxSeqNumber'[t] \in Nat /\ RxSeqNumber[t] <= RxSeqNumber'[t]
    BY <2>1, Bounds
  <2> QED
    BY <1>3, <2>1, <2>2, DeliveredSame
<1> QED
  BY <1>1, <1>4, <1>5, <1>6 DEF p

Answered(t) == clientState[t] \in {"TIME_WAIT", "CLOSED"}

(* A sub-flow is answered when its FIN was counted, and stays so.          *)
LEMMA AnsweredStays ==
  ASSUME CloseInv, CloseInv', AnsweredIsCounted, reset => reset',
         \A t \in Subflows : RxSeqNumber[t] <= RxSeqNumber'[t],
         \A t \in Subflows : Answered(t)' /\ ~ reset' =>
           /\ sent'[t] = sent[t]
           /\ Answered(t) \/ RxSeqNumber[t] = maxSeqNb(t) + 2
  PROVE  AnsweredIsCounted'
<1> SUFFICES ASSUME NEW t \in Subflows, Answered(t)', ~ reset'
             PROVE  RxSeqNumber'[t] = Len(sent'[t]) + 2
  BY DEF AnsweredIsCounted, Answered, maxSeqNb
<1>1. RxSeqNumber[t] = Len(sent[t]) + 2 /\ sent'[t] = sent[t]
  BY DEF AnsweredIsCounted, Answered, maxSeqNb
<1>2. /\ RxSeqNumber'[t] \in Nat /\ RxSeqNumber'[t] <= Len(sent'[t]) + 2
      /\ Len(sent[t]) \in Nat
  <2>1. RxSeqNumber'[t] \in Nat
    BY DEF CloseInv, TypeOK
  <2> QED
    BY <2>1, Bounds DEF CloseInv, Progress, maxSeqNb
<1> QED
  BY <1>1, <1>2

LEMMA ClientAnswers ==
  ASSUME CloseInv, CloseInv', AnsweredIsCounted, NEW s \in Subflows, ToClient(s)
  PROVE  AnsweredIsCounted'
<1>1. PICK i \in Leaving(ackPath[s]) :
        LET p == ackPath[s][i] IN
        /\ \/ ReceivedAck(s, p) \/ FastRetransmit(s, p) \/ ReceiveFinAck(s, p)
           \/ ReceiveReset(s, p) \/ ClientRefuses(s, p)
        /\ UNCHANGED serverVars
  BY DEF ToClient
<1> DEFINE p == ackPath[s][i]
<1>2. p \in AckFits(s)
  BY AckTaken DEF CloseInv
<1>3. UNCHANGED <<sent, serverVars>> /\ (reset => reset')
  BY <1>1 DEF ReceivedAck, FastRetransmit, ReceiveFinAck, ReceiveReset, ClientRefuses
<1>4. \A t \in Subflows : RxSeqNumber[t] <= RxSeqNumber'[t]
  BY <1>3, Bounds DEF serverVars, receiveVars
<1> HIDE DEF p
<1>5. CASE ReceivedAck(s, p) \/ FastRetransmit(s, p) \/ ClientRefuses(s, p)
  <2>1. UNCHANGED clientState
    BY <1>5 DEF ReceivedAck, FastRetransmit, ClientRefuses
  <2> QED
    BY <1>3, <1>4, <2>1, AnsweredStays DEF Answered
<1>6. CASE ReceiveReset(s, p)
  BY <1>6 DEF ReceiveReset, AnsweredIsCounted
<1>7. CASE ReceiveFinAck(s, p)
  <2>1. RxSeqNumber[s] = maxSeqNb(s) + 2
    BY <1>2, <1>7 DEF ReceiveFinAck, AckFits
  <2>2. \A t \in Subflows \ {s} : clientState'[t] = clientState[t]
    <3>1. \/ clientState' = [clientState EXCEPT ![s] = "TIME_WAIT"]
          \/ clientState' = [clientState EXCEPT ![s] = "CLOSING"]
      BY <1>7 DEF ReceiveFinAck
    <3> QED
      BY <3>1 DEF CloseInv, TypeOK
  <2> QED
    BY <1>3, <1>4, <2>1, <2>2, AnsweredStays DEF Answered
<1> QED
  BY <1>1, <1>5, <1>6, <1>7 DEF p

(* Of the client's other steps only new data touches the numbers, and only *)
(* the end of TIME_WAIT comes to CLOSED.                                   *)
LEMMA ClientStepOrders ==
  ASSUME CloseInv, CloseInv', OrderInv, ClientStep
  PROVE  OrderInv'
<1> USE DEF OrderInv
<1>1. UNCHANGED serverVars
  BY DEF ClientStep, FillBuffer, Close, CloseMultipathConnection, SendDataPacket,
         SendAgain, ScheduledDoClose, IdleTimeout, RetransmitData, RetransmitFin, ToClient
<1>2. /\ UNCHANGED nextRxSequence
      /\ \A t \in Subflows : RxSeqNumber'[t] \in Nat /\ RxSeqNumber[t] <= RxSeqNumber'[t]
  BY <1>1, Bounds DEF serverVars, receiveVars
<1>3. ASSUME NEW s \in Subflows, SendDataPacket(s) PROVE OrderInv'
  <2>1. \A t \in Subflows : Answered(t)' => Answered(t) /\ t # s
    <3>1. SendAndClose(s, TxSeqNumber[s]) /\ clientState[s] = "ESTABLISHED" /\ TypeOK
      BY <1>3 DEF SendDataPacket, MaySend, CloseInv
    <3>2. \A t \in Subflows :
            \/ clientState'[t] = clientState[t]
            \/ clientState'[t] = "FIN_WAIT_1"
      BY <3>1, SendAndCloseClient
    <3> QED
      BY <3>1, <3>2 DEF Answered
  <2>2. \A t \in Subflows : t # s => sent'[t] = sent[t]
    BY <1>3, NewSegment
  <2>3. UNCHANGED reset
    BY <1>3 DEF SendDataPacket
  <2>4. AnsweredIsCounted'
    BY <1>2, <2>1, <2>2, <2>3, AnsweredStays
  <2> QED
    BY <1>3, <2>4, NewIsLast, NewIsNotDelivered
<1>4. ASSUME UNCHANGED sent, AnsweredIsCounted' PROVE OrderInv'
  BY <1>2, <1>4, OrderSame, DeliveredSame
<1>5. ASSUME NEW s \in Subflows, ToClient(s) PROVE OrderInv'
  <2>1. UNCHANGED sent
    BY <1>5 DEF ToClient, ReceivedAck, FastRetransmit, ReceiveFinAck, ReceiveReset,
                ClientRefuses
  <2> QED
    BY <1>4, <1>5, <2>1, ClientAnswers
<1>6. ASSUME UNCHANGED <<sent, reset>>,
             \A t \in Subflows : Answered(t)' => Answered(t)
      PROVE  OrderInv'
  BY <1>2, <1>4, <1>6, AnsweredStays
<1>7. CASE CloseMultipathConnection
  <2>1. \A t \in Subflows : Answered(t)' => Answered(t)
    BY <1>7 DEF CloseMultipathConnection, Answered
  <2> QED
    BY <1>6, <1>7, <2>1 DEF CloseMultipathConnection
<1>8. ASSUME NEW t \in Subflows, DoClose(t)
      PROVE  \A u \in Subflows : Answered(u)' => Answered(u)
  <2>1. \/ UNCHANGED clientState
        \/ clientState' = [clientState EXCEPT ![t] = "FIN_WAIT_1"]
    BY <1>8 DEF DoClose
  <2> QED
    BY <2>1 DEF Answered, CloseInv, TypeOK
<1>9. CASE Close
  <2>1. currentSublow \in Subflows
    BY DEF CloseInv, TypeOK
  <2>2. \A u \in Subflows : Answered(u)' => Answered(u)
    BY <1>8, <1>9, <2>1 DEF Close, Answered
  <2> QED
    BY <1>6, <1>9, <2>2 DEF Close
<1>10. ASSUME NEW s \in Subflows, ScheduledDoClose(s) PROVE OrderInv'
  BY <1>6, <1>8, <1>10 DEF ScheduledDoClose
<1>11. ASSUME NEW s \in Subflows, SendAgain(s) PROVE OrderInv'
  <2>1. SendAndClose(s, TxSeqNumber[s]) /\ TypeOK
    BY <1>11 DEF SendAgain, CloseInv
  <2>2. \A u \in Subflows : Answered(u)' => Answered(u)
    BY <2>1, SendAndCloseClient DEF Answered
  <2> QED
    BY <1>6, <1>11, <2>2 DEF SendAgain
<1>12. ASSUME NEW s \in Subflows,
              FillBuffer \/ IdleTimeout(s) \/ RetransmitData(s) \/ RetransmitFin(s)
       PROVE  OrderInv'
  <2>1. UNCHANGED <<sent, reset, clientState>>
    BY <1>12 DEF FillBuffer, IdleTimeout, RetransmitData, RetransmitFin
  <2> QED
    BY <1>6, <2>1 DEF Answered
<1>13. \E s \in Subflows : TRUE
  BY DEF CloseInv, TypeOK
<1> HIDE DEF OrderInv
<1> QED
  BY <1>3, <1>5, <1>7, <1>9, <1>10, <1>11, <1>12, <1>13 DEF ClientStep

LEMMA StepOrders ==
  ASSUME CloseInv, CloseInv', OrderInv, [Next]_vars
  PROVE  OrderInv'
<1> USE DEF OrderInv
<1>1. ASSUME NEW s \in Subflows, NEW n, ToServer(s, n) PROVE OrderInv'
  <2>1. /\ DeliveredIsPassed' /\ UNCHANGED clientVars /\ (reset => reset')
        /\ \A t \in Subflows : RxSeqNumber[t] <= RxSeqNumber'[t]
    BY <1>1, ServerGoesOn
  <2>2. UNCHANGED <<sent, clientState>>
    BY <2>1 DEF clientVars
  <2>3. AnsweredIsCounted'
    BY <2>1, <2>2, AnsweredStays DEF Answered
  <2> QED
    BY <2>1, <2>2, <2>3, OrderSame
<1>2. ASSUME UNCHANGED <<clientVars, receiveVars, reset>> PROVE OrderInv'
  BY <1>2 DEF clientVars, receiveVars, SentOnce, SentInOrder, DeliveredIsPassed,
              AnsweredIsCounted, maxSeqNb
<1> HIDE DEF OrderInv
<1>3. CASE ServerStep
  BY <1>1, <1>2, <1>3 DEF ServerStep, LastAckTimeout
<1>4. CASE Loss \/ UNCHANGED vars
  BY <1>2, <1>4 DEF Loss, vars, serverVars
<1> QED
  BY <1>3, <1>4, ClientStepOrders DEF Next, Done

(* Each data number goes out on one sub-flow, a sub-flow's numbers         *)
(* increase, what is delivered its sub-flow has passed, and the client is  *)
(* done with a sub-flow only when its FIN was counted.                     *)
THEOREM DataKeepsOrder == Spec => []OrderInv
<1>1. Init => OrderInv
  BY DEF Init, OrderInv, SentOnce, SentInOrder, DeliveredIsPassed, AnsweredIsCounted,
         maxSeqNb
<1>2. CloseInv /\ CloseInv' /\ OrderInv /\ [Next]_vars => OrderInv'
  BY StepOrders
<1> QED
  BY <1>1, <1>2, CloseInvariance, PTL DEF Spec

-----------------------------------------------------------------------------
(* Some timer helps. *)

LEMMA ClientNumbers ==
  ASSUME CloseInv, NEW t \in Subflows
  PROVE  /\ highestAck[t] \in Nat /\ highestAck[t] + 1 <= RxSeqNumber[t]
         /\ RxSeqNumber[t] \in Nat /\ Len(sent[t]) \in Nat
         /\ nextRxSequence \in Nat /\ nextTxSequence \in Nat
         /\ nextRxSequence <= nextTxSequence
<1>1. highestAck[t] \in Nat /\ RxSeqNumber[t] \in Nat
  BY Counters DEF CloseInv
<1>2. highestAck[t] < RxSeqNumber[t]
  BY DEF CloseInv, Progress
<1> QED
  BY <1>1, <1>2, Bounds

(* An open sub-flow with a segment outstanding that the server has not     *)
(* passed or waits for helps.                                              *)
LEMMA FirstIsUseful ==
  ASSUME CloseInv, OrderInv, NEW t \in Subflows, Open(t), serverState[t] # "CLOSED",
         highestAck[t] < Len(sent[t]),
         \/ highestAck[t] + 1 < RxSeqNumber[t]
         \/ sent[t][highestAck[t] + 1] = nextRxSequence
  PROVE  ResendHelps(t)
<1>1. Unacked(t)
  BY DEF Unacked, maxSeqNb
<1>2. retxEvent[t] = "ReTxTimeout"
  BY <1>1 DEF CloseInv, CloseIsTimed
<1> QED
  BY <1>1, <1>2 DEF ResendHelps

(* The sub-flow on which the awaited segment went out is not closed at     *)
(* either end.                                                             *)
LEMMA AwaitedIsHelped ==
  ASSUME CloseInv, OrderInv, ~ reset, nextRxSequence < nextTxSequence
  PROVE  \E t \in Subflows : ResendHelps(t)
<1>1. nextRxSequence \in 1 .. nextTxSequence - 1
  <2>1. nextRxSequence \in 1 .. nextTxSequence /\ nextTxSequence \in Nat
    BY DEF CloseInv, DataNumbers, TypeOK
  <2> QED
    BY <2>1
<1>2. PICK t \in Subflows : \E k \in 1 .. Len(sent[t]) : sent[t][k] = nextRxSequence
  BY <1>1 DEF CloseInv, DataNumbers, maxSeqNb
<1>3. PICK k \in 1 .. Len(sent[t]) : sent[t][k] = nextRxSequence
  BY <1>2
<1>4. ~ Holds(t, k)
  <2>1. \A e \in unOrdered : e.dsn # nextRxSequence
    BY StoredNumbers, ClientNumbers
  <2> QED
    BY <1>3, <2>1, ClientNumbers DEF Holds
<1>5. ~ k < RxSeqNumber[t]
  BY <1>4 DEF CloseInv, PassedIsHeld, maxSeqNb
<1>6. k \in Nat /\ RxSeqNumber[t] <= k /\ k <= Len(sent[t])
  BY <1>5, ClientNumbers
<1>7. RxSeqNumber[t] # Len(sent[t]) + 2 /\ highestAck[t] < Len(sent[t])
  BY <1>6, ClientNumbers
<1>8. serverState[t] # "CLOSED"
  BY <1>7 DEF CloseInv, Progress, maxSeqNb
<1>9. Open(t)
  BY <1>7 DEF OrderInv, AnsweredIsCounted, Open, CloseInv, TypeOK, maxSeqNb
<1>10. \/ highestAck[t] + 1 < RxSeqNumber[t]
       \/ sent[t][highestAck[t] + 1] = nextRxSequence
  <2> DEFINE h == highestAck[t] + 1
  <2>1. h \in 1 .. Len(sent[t]) /\ h \in Nat /\ h <= k
    BY <1>6, <1>7, ClientNumbers
  <2>2. CASE h = k
    BY <1>3, <2>2
  <2>3. CASE h # k
    <3> HIDE DEF h
    <3>1. sent[t][h] < nextRxSequence
      BY <1>3, <2>1, <2>3, <1>6, EarlierPlace DEF OrderInv
    <3> QED
      BY <2>1, <3>1 DEF OrderInv, DeliveredIsPassed, maxSeqNb, h
  <2> QED
    BY <2>2, <2>3
<1> QED
  BY <1>7, <1>8, <1>9, <1>10, FirstIsUseful

(* When all data is delivered the FIN's own sub-flow helps.                *)
LEMMA FinIsHelped ==
  ASSUME CloseInv, OrderInv, nextRxSequence = nextTxSequence,
         NEW s \in Subflows, clientState[s] = "FIN_WAIT_1", serverState[s] # "CLOSED"
  PROVE  ResendHelps(s)
<1>1. Open(s)
  BY DEF Open
<1>2. CASE highestAck[s] < Len(sent[s])
  <2>1. highestAck[s] + 1 \in 1 .. Len(sent[s])
    BY <1>2, ClientNumbers
  <2>2. sent[s][highestAck[s] + 1] < nextRxSequence
    BY <2>1, SentNumbers
  <2>3. highestAck[s] + 1 < RxSeqNumber[s]
    BY <2>1, <2>2 DEF OrderInv, DeliveredIsPassed, maxSeqNb
  <2> QED
    BY <1>1, <1>2, <2>3, FirstIsUseful
<1>3. CASE ~ highestAck[s] < Len(sent[s])
  <2>1. RxSeqNumber[s] > Len(sent[s])
    BY <1>3, ClientNumbers
  <2>2. retxEvent[s] # "none"
    BY DEF CloseInv, CloseIsTimed
  <2> QED
    BY <1>1, <1>3, <2>1, <2>2 DEF ResendHelps, Unacked, maxSeqNb
<1> QED
  BY <1>2, <1>3

(* Whatever was lost, stored, closed or answered before, a FIN without an  *)
(* answer and data that is not delivered wait for nothing but a timer that *)
(* runs, unless a RST has closed the connection.                           *)
THEOREM SomeResendHelps == Spec => []CloseHelps
<1>1. CloseInv /\ OrderInv => CloseHelps
  BY AwaitedIsHelped, FinIsHelped, ClientNumbers DEF CloseHelps
<1> QED
  BY <1>1, CloseInvariance, DataKeepsOrder, PTL
=============================================================================
