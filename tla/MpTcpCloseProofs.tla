-------------------------- MODULE MpTcpCloseProofs --------------------------
(***************************************************************************)
(* CloseInv is an invariant of MpTcpClose for every number of sub-flows,   *)
(* segments and queue places, and the properties follow from it.           *)
(***************************************************************************)
EXTENDS MpTcpCloseInv, SequenceTheorems, WellFoundedInduction, TLAPS

-----------------------------------------------------------------------------
(* Sequences and numbers. *)

(* A packet that leaves a path leaves the others as they are. *)
LEMMA RemoveAtSeq ==
  ASSUME NEW S, NEW q \in Seq(S), NEW i \in 1 .. Len(q)
  PROVE  RemoveAt(q, i) \in Seq(S)
<1>1. SubSeq(q, 1, i - 1) \in Seq(S)
  OBVIOUS
<1>2. SubSeq(q, i + 1, Len(q)) \in Seq(S)
  OBVIOUS
<1>3. QED
  BY <1>1, <1>2, ConcatProperties DEF RemoveAt

(* A packet that enters a path is put behind the others, or dropped. *)
LEMMA EnqueueSeq ==
  ASSUME NEW S, NEW q \in Seq(S), NEW e \in S
  PROVE  Enqueue(q, e) \in Seq(S)
BY DEF Enqueue

(* A path may be taken to hold more kinds of packet than it does. *)
LEMMA SeqSubset ==
  ASSUME NEW S, NEW T, S \subseteq T, NEW q \in Seq(S)
  PROVE  q \in Seq(T)
OBVIOUS

(* Only positions of the path are left from. *)
LEMMA LeavingIsPosition ==
  ASSUME NEW q, NEW i \in Leaving(q)
  PROVE  i \in 1 .. Len(q)
BY DEF Leaving

(* The number of a FIN is behind all data, wherever TxSeqNumber is. *)
LEMMA FinIsBehind ==
  ASSUME NEW tx \in Nat, NEW max \in Nat
  PROVE  FinAt(tx, max) = max + 1
BY DEF FinAt

(* A set of numbers that is not empty has a least one. *)
LEMMA LeastNumber ==
  ASSUME NEW S, S \subseteq Nat, S # {}
  PROVE  \E k \in S : \A j \in S : k <= j
<1>1. PICK k \in S : \A j \in S : ~ (<<j, k>> \in OpToRel(<, Nat))
  BY NatLessThanWellFounded, WFMin
<1>2. ASSUME NEW j \in S PROVE k <= j
  <2>1. ~ (j < k)
    BY <1>1 DEF OpToRel
  <2> QED
    BY <2>1
<1> QED
  BY <1>2

(* FirstFree finds a number if the last one is not taken. *)
LEMMA FirstFreeExists ==
  ASSUME NEW taken, MaxSegments + 2 \notin taken,
         NEW n \in Nat, n <= MaxSegments + 2
  PROVE  /\ FirstFree(n, taken) \in n .. MaxSegments + 2
         /\ FirstFree(n, taken) \notin taken
         /\ \A j \in n .. FirstFree(n, taken) - 1 : j \in taken
<1> DEFINE S == {k \in n .. MaxSegments + 2 : k \notin taken}
<1>1. MaxSegments \in Nat
  BY CloseAssumption
<1>2. S \subseteq Nat /\ MaxSegments + 2 \in S
  BY <1>1
<1>3. PICK k \in S : \A j \in S : k <= j
  BY <1>2, LeastNumber
<1>4. \A j \in n .. k - 1 : j \in taken
  BY <1>1, <1>3
<1>5. \E m \in n .. MaxSegments + 2 : m \notin taken /\ \A j \in n .. m - 1 : j \in taken
  BY <1>3, <1>4
<1> QED
  BY <1>5 DEF FirstFree

(* A sub-flow's numbers are numbers. *)
LEMMA Counters ==
  ASSUME TypeOK, NEW s \in Subflows
  PROVE  /\ sent[s] \in Seq(Nat) /\ maxSeqNb(s) \in Nat
         /\ TxSeqNumber[s] \in Nat /\ highestAck[s] \in Nat
         /\ RxSeqNumber[s] \in Nat /\ finSeq[s] \in Nat
         /\ scheduled[s] \in Nat
         /\ nextTxSequence \in Nat /\ nextRxSequence \in Nat
         /\ sendingBuffer \in Nat /\ MaxSegments \in Nat
BY CloseAssumption DEF TypeOK, maxSeqNb

-----------------------------------------------------------------------------
(* Paths. *)

LEMMA SendType ==
  ASSUME NEW path \in [Subflows -> Seq(PacketType)], NEW s \in Subflows,
         NEW p \in PacketType
  PROVE  Send(path, s, p) \in [Subflows -> Seq(PacketType)]
BY EnqueueSeq DEF Send

LEMMA TakeType ==
  ASSUME NEW path \in [Subflows -> Seq(PacketType)], NEW s \in Subflows,
         NEW i \in Leaving(path[s])
  PROVE  Take(path, s, i) \in [Subflows -> Seq(PacketType)]
BY RemoveAtSeq, LeavingIsPosition DEF Take

(* What stays on the path still fits. *)
LEMMA DataStays ==
  ASSUME DataInTransit, \A t \in Subflows : DataFits(t) \subseteq DataFits(t)'
  PROVE  \A t \in Subflows : dataPath[t] \in Seq(DataFits(t)')
BY SeqSubset DEF DataInTransit

LEMMA AcksStay ==
  ASSUME AcksInTransit, \A t \in Subflows : AckFits(t) \subseteq AckFits(t)'
  PROVE  \A t \in Subflows : ackPath[t] \in Seq(AckFits(t)')
BY SeqSubset DEF AcksInTransit

(* A packet that fits joins packets that fit, and one that leaves them     *)
(* leaves such.                                                            *)
LEMMA SendFits ==
  ASSUME NEW F, NEW path \in [Subflows -> Seq(PacketType)],
         \A t \in Subflows : path[t] \in Seq(F[t]),
         NEW s \in Subflows, NEW p \in F[s]
  PROVE  \A t \in Subflows : Send(path, s, p)[t] \in Seq(F[t])
BY EnqueueSeq DEF Send

LEMMA TakeFits ==
  ASSUME NEW F, NEW path \in [Subflows -> Seq(PacketType)],
         \A t \in Subflows : path[t] \in Seq(F[t]),
         NEW s \in Subflows, NEW i \in Leaving(path[s])
  PROVE  /\ \A t \in Subflows : Take(path, s, i)[t] \in Seq(F[t])
         /\ path[s][i] \in F[s]
<1>1. i \in 1 .. Len(path[s]) /\ path[s] \in Seq(F[s])
  BY LeavingIsPosition
<1>2. path[s][i] \in F[s]
  BY <1>1
<1>3. RemoveAt(path[s], i) \in Seq(F[s])
  BY <1>1, RemoveAtSeq
<1> QED
  BY <1>2, <1>3 DEF Take

(* A sub-flow that sends no new data leaves its packets as they fit. *)
LEMMA DataFitsStays ==
  ASSUME NEW t \in Subflows, sent'[t] = sent[t],
         clientState[t] # "ESTABLISHED" => clientState'[t] # "ESTABLISHED"
  PROVE  DataFits(t) \subseteq DataFits(t)'
BY DEF DataFits, maxSeqNb

LEMMA DataFitsNew ==
  ASSUME TypeOK, NEW t \in Subflows, NEW d \in Nat,
         clientState[t] = "ESTABLISHED", sent'[t] = Append(sent[t], d)
  PROVE  DataFits(t) \subseteq DataFits(t)'
<1>1. sent[t] \in Seq(Nat)
  BY Counters
<1>2. /\ Len(sent'[t]) = Len(sent[t]) + 1
      /\ Len(sent[t]) \in Nat
      /\ \A n \in 1 .. Len(sent[t]) : sent'[t][n] = sent[t][n]
  BY <1>1
<1> QED
  BY <1>2 DEF DataFits, maxSeqNb

LEMMA AckFitsStays ==
  ASSUME TypeOK, TypeOK', NEW t \in Subflows, sent'[t] = sent[t],
         RxSeqNumber[t] <= RxSeqNumber'[t],
         RxSeqNumber[t] = maxSeqNb(t) + 2 => RxSeqNumber'[t] = RxSeqNumber[t]
  PROVE  AckFits(t) \subseteq AckFits(t)'
<1>1. RxSeqNumber[t] \in Nat /\ RxSeqNumber'[t] \in Nat /\ maxSeqNb(t) \in Nat
  BY Counters DEF TypeOK
<1> QED
  BY <1>1 DEF AckFits, maxSeqNb, PacketType

-----------------------------------------------------------------------------
(* A part of the invariant holds as long as its variables do not change.   *)

LEMMA DataSame ==
  ASSUME DataInTransit, UNCHANGED <<dataPath, sent, clientState>>
  PROVE  DataInTransit'
BY DEF DataInTransit, DataFits, maxSeqNb

LEMMA AcksSame ==
  ASSUME AcksInTransit, UNCHANGED <<ackPath, sent, RxSeqNumber>>
  PROVE  AcksInTransit'
BY DEF AcksInTransit, AckFits, maxSeqNb

LEMMA NumbersSame ==
  ASSUME DataNumbers,
         UNCHANGED <<nextTxSequence, sendingBuffer, nextRxSequence, sent>>
  PROVE  DataNumbers'
BY DEF DataNumbers, maxSeqNb

LEMMA StoredSame ==
  ASSUME StoredWasSent, UNCHANGED <<unOrdered, sent, nextRxSequence>>
  PROVE  StoredWasSent'
BY DEF StoredWasSent, maxSeqNb

LEMMA PassedSame ==
  ASSUME PassedIsHeld, UNCHANGED <<sent, RxSeqNumber, nextRxSequence, unOrdered>>
  PROVE  PassedIsHeld'
BY DEF PassedIsHeld, Holds, maxSeqNb

LEMMA ProgressSame ==
  ASSUME Progress, UNCHANGED <<sent, RxSeqNumber, clientState, serverState,
                               finSeq, reset, highestAck, TxSeqNumber>>
  PROVE  Progress'
BY DEF Progress, maxSeqNb

LEMMA ClosedSame ==
  ASSUME ClosedInTime, UNCHANGED <<closeOnEmpty, closes, scheduled,
                                   sendingBuffer, clientState, reset, fault>>
  PROVE  ClosedInTime'
BY DEF ClosedInTime, ClientOpen

LEMMA TimedSame ==
  ASSUME CloseIsTimed, FinTimed,
         UNCHANGED <<clientState, highestAck, sent, retxEvent>>
  PROVE  CloseIsTimed' /\ FinTimed'
BY DEF CloseIsTimed, FinTimed, Open, Unacked, maxSeqNb

-----------------------------------------------------------------------------
(* Each action keeps the invariant. *)

LEMMA InitHolds == Init => CloseInv
<1> SUFFICES ASSUME Init PROVE CloseInv
  OBVIOUS
<1> USE DEF Init, PathInit
<1>1. TypeOK
  <2>1. << >> \in Seq(PacketType) /\ << >> \in Seq(Nat)
    OBVIOUS
  <2>2. /\ dataPath \in [Subflows -> Seq(PacketType)]
        /\ ackPath \in [Subflows -> Seq(PacketType)]
        /\ sent \in [Subflows -> Seq(Nat)]
    BY <2>1
  <2>3. /\ TxSeqNumber \in [Subflows -> Nat] /\ highestAck \in [Subflows -> Nat]
        /\ scheduled \in [Subflows -> Nat] /\ RxSeqNumber \in [Subflows -> Nat]
        /\ finSeq \in [Subflows -> Nat] /\ closes \in 0 .. 2
    OBVIOUS
  <2> QED
    BY <2>2, <2>3 DEF TypeOK
<1>2. DataInTransit /\ AcksInTransit
  BY DEF DataInTransit, AcksInTransit
<1>3. Progress
  BY DEF Progress, maxSeqNb
<1>4. DataNumbers
  BY CloseAssumption DEF DataNumbers, maxSeqNb
<1>5. StoredWasSent /\ PassedIsHeld
  BY DEF StoredWasSent, PassedIsHeld, maxSeqNb
<1>6. ClosedInTime
  BY DEF ClosedInTime
<1>7. CloseIsTimed /\ FinTimed
  BY DEF CloseIsTimed, FinTimed, Unacked, maxSeqNb
<1> QED
  BY <1>1, <1>2, <1>3, <1>4, <1>5, <1>6, <1>7 DEF CloseInv

LEMMA FillBufferKeeps ==
  ASSUME CloseInv, FillBuffer PROVE CloseInv'
<1> USE DEF FillBuffer, serverVars, receiveVars, pathVars
<1>1. TypeOK'
  <2>1. sendingBuffer' \in Nat
    BY DEF CloseInv, TypeOK
  <2> QED
    BY <2>1 DEF CloseInv, TypeOK
<1>2. DataInTransit' /\ AcksInTransit' /\ Progress' /\ CloseIsTimed' /\ FinTimed'
  BY DataSame, AcksSame, ProgressSame, TimedSame DEF CloseInv
<1>3. StoredWasSent' /\ PassedIsHeld'
  BY StoredSame, PassedSame DEF CloseInv
<1>4. DataNumbers'
  <2> USE DEF CloseInv, DataNumbers, maxSeqNb
  <2>1. nextTxSequence' + sendingBuffer' <= MaxSegments + 1
    BY CloseAssumption DEF TypeOK
  <2> QED
    BY <2>1
<1>5. ClosedInTime'
  BY DEF CloseInv, ClosedInTime, ClientOpen, TypeOK
<1> QED
  BY <1>1, <1>2, <1>3, <1>4, <1>5 DEF CloseInv

LEMMA IdleTimeoutKeeps ==
  ASSUME CloseInv, NEW s \in Subflows, IdleTimeout(s) PROVE CloseInv'
<1> USE DEF IdleTimeout, serverVars, receiveVars, pathVars
<1>1. TypeOK'
  BY DEF CloseInv, TypeOK
<1>2. DataInTransit' /\ AcksInTransit' /\ Progress' /\ ClosedInTime'
  BY DataSame, AcksSame, ProgressSame, ClosedSame DEF CloseInv
<1>3. StoredWasSent' /\ PassedIsHeld' /\ DataNumbers'
  BY StoredSame, PassedSame, NumbersSame DEF CloseInv
<1>4. CloseIsTimed' /\ FinTimed'
  BY DEF CloseInv, TypeOK, CloseIsTimed, FinTimed, Open, Unacked, maxSeqNb
<1> QED
  BY <1>1, <1>2, <1>3, <1>4 DEF CloseInv

(* What the end of SendDataPacket does to the client. *)
LEMMA SendAndCloseClient ==
  ASSUME TypeOK, NEW s \in Subflows, NEW n, SendAndClose(s, n)
  PROVE  /\ clientState' \in [Subflows -> {"ESTABLISHED", "FIN_WAIT_1", "CLOSING",
                                           "TIME_WAIT", "CLOSED"}]
         /\ retxEvent' \in [Subflows -> {"none", "ReTxTimeout", "SendFIN"}]
         /\ scheduled' \in [Subflows -> Nat]
         /\ \A t \in Subflows :
              /\ \/ clientState'[t] = clientState[t]
                 \/ /\ clientState[t] = "ESTABLISHED"
                    /\ clientState'[t] = "FIN_WAIT_1"
                    /\ retxEvent'[t] # "none" /\ ClosesNow
              /\ scheduled'[t] = scheduled[t] \/ ClosesNow
              /\ retxEvent[t] # "none" => retxEvent'[t] = retxEvent[t]
              /\ retxEvent[t] = "none" /\ t = s => retxEvent'[t] = "ReTxTimeout"
              /\ retxEvent[t] = "none" /\ t # s /\ retxEvent'[t] # "none"
                   => clientState'[t] = "FIN_WAIT_1"
<1>1. CASE /\ ~ ClosesNow \/ Established = {}
           /\ retxEvent' = [retxEvent EXCEPT ![s] = Start(@, "ReTxTimeout")]
           /\ UNCHANGED <<clientState, scheduled>>
  BY <1>1 DEF TypeOK, Start
<1>2. ASSUME ClosesNow, NEW f \in Subflows, FirstEstablished(f),
             clientState' = [clientState EXCEPT ![f] = "FIN_WAIT_1"],
             scheduled' = ScheduleOthers(f),
             retxEvent' = [[retxEvent EXCEPT ![s] = Start(@, "ReTxTimeout")]
                             EXCEPT ![f] = Start(@, "SendFIN")]
      PROVE  /\ clientState' \in [Subflows -> {"ESTABLISHED", "FIN_WAIT_1", "CLOSING",
                                               "TIME_WAIT", "CLOSED"}]
             /\ retxEvent' \in [Subflows -> {"none", "ReTxTimeout", "SendFIN"}]
             /\ scheduled' \in [Subflows -> Nat]
             /\ \A t \in Subflows :
                  /\ \/ clientState'[t] = clientState[t]
                     \/ /\ clientState[t] = "ESTABLISHED"
                        /\ clientState'[t] = "FIN_WAIT_1"
                        /\ retxEvent'[t] # "none" /\ ClosesNow
                  /\ scheduled'[t] = scheduled[t] \/ ClosesNow
                  /\ retxEvent[t] # "none" => retxEvent'[t] = retxEvent[t]
                  /\ retxEvent[t] = "none" /\ t = s => retxEvent'[t] = "ReTxTimeout"
                  /\ retxEvent[t] = "none" /\ t # s /\ retxEvent'[t] # "none"
                       => clientState'[t] = "FIN_WAIT_1"
  <2>1. clientState[f] = "ESTABLISHED"
    BY <1>2 DEF FirstEstablished, Established
  <2>2. \A t \in Subflows : scheduled[t] \in Nat /\ scheduled[t] + 1 \in Nat
    BY Counters
  <2>3. ScheduleOthers(f) \in [Subflows -> Nat]
    BY <2>2 DEF ScheduleOthers
  <2> QED
    BY <1>2, <2>1, <2>3 DEF Start, TypeOK
<1> QED
  BY <1>1, <1>2 DEF SendAndClose

(* The segment and the FIN that follows it fit. *)
LEMMA SendAndCloseFits ==
  ASSUME TypeOK, DataInTransit, NEW s \in Subflows, NEW n \in Nat,
         SendAndClose(s, n),
         sent' \in [Subflows -> Seq(Nat)], TxSeqNumber' \in [Subflows -> Nat],
         n \in 1 .. Len(sent'[s]),
         \A t \in Subflows : DataFits(t) \subseteq DataFits(t)'
  PROVE  DataInTransit' /\ dataPath' \in [Subflows -> Seq(PacketType)]
<1> DEFINE F    == [t \in Subflows |-> DataFits(t)']
           path == Send(dataPath, s, Data(s, n))
<1>1. \A t \in Subflows : dataPath[t] \in Seq(F[t])
  BY DataStays
<1>2. Data(s, n) \in PacketType /\ Data(s, n) \in F[s]
  <2>1. sent'[s][n] \in Nat
    OBVIOUS
  <2>2. Data(s, n) \in PacketType
    BY <2>1 DEF Data, Packet, PacketType
  <2>3. Data(s, n).kind = "DATA" /\ Data(s, n).number = n /\ Data(s, n).dsn = sent'[s][n]
    BY DEF Data, Packet
  <2> QED
    BY <2>2, <2>3 DEF DataFits, maxSeqNb
<1>3. /\ path \in [Subflows -> Seq(PacketType)]
      /\ \A t \in Subflows : path[t] \in Seq(F[t])
  <2>1. dataPath \in [Subflows -> Seq(PacketType)]
    BY DEF TypeOK
  <2>2. path \in [Subflows -> Seq(PacketType)]
    BY <1>2, <2>1, SendType
  <2> HIDE DEF F
  <2>3. \A t \in Subflows : path[t] \in Seq(F[t])
    BY <1>1, <1>2, <2>1, SendFits
  <2> QED
    BY <2>2, <2>3
<1>4. CASE dataPath' = path
  BY <1>3, <1>4 DEF DataInTransit
<1>5. ASSUME NEW f \in Subflows,
             clientState' = [clientState EXCEPT ![f] = "FIN_WAIT_1"],
             dataPath' = Send(path, f, Fin(FinAt(TxSeqNumber'[f], Len(sent'[f]))))
      PROVE  DataInTransit' /\ dataPath' \in [Subflows -> Seq(PacketType)]
  <2> DEFINE p == Fin(FinAt(TxSeqNumber'[f], Len(sent'[f])))
  <2>1. Len(sent'[f]) \in Nat /\ TxSeqNumber'[f] \in Nat
    OBVIOUS
  <2>2. p = Fin(Len(sent'[f]) + 1)
    BY <2>1, FinIsBehind
  <2>3. p \in PacketType /\ p.kind = "FIN" /\ p.number = Len(sent'[f]) + 1
    BY <2>1, <2>2 DEF Fin, Packet, PacketType
  <2>4. clientState'[f] = "FIN_WAIT_1"
    BY <1>5 DEF TypeOK
  <2>5. p \in F[f]
    BY <2>3, <2>4 DEF DataFits, maxSeqNb
  <2> HIDE DEF F, path, p
  <2>6. Send(path, f, p) \in [Subflows -> Seq(PacketType)]
    BY <1>3, <2>3, SendType
  <2>7. \A t \in Subflows : Send(path, f, p)[t] \in Seq(F[t])
    BY <1>3, <2>5, SendFits
  <2>8. dataPath' = Send(path, f, p)
    BY <1>5 DEF p
  <2> USE DEF F
  <2> QED
    BY <2>6, <2>7, <2>8 DEF DataInTransit
<1> QED
  BY <1>4, <1>5 DEF SendAndClose

LEMMA SendAndCloseTimed ==
  ASSUME TypeOK, CloseIsTimed, FinTimed, NEW s \in Subflows, NEW n,
         SendAndClose(s, n), retxEvent[s] # "SendFIN", UNCHANGED highestAck,
         \A t \in Subflows \ {s} : sent'[t] = sent[t]
  PROVE  CloseIsTimed' /\ FinTimed'
<1> SUFFICES ASSUME NEW t \in Subflows
             PROVE  /\ Open(t)' /\ Unacked(t)' => retxEvent'[t] = "ReTxTimeout"
                    /\ clientState'[t] = "FIN_WAIT_1" => retxEvent'[t] # "none"
                    /\ clientState'[t] = "ESTABLISHED" => retxEvent'[t] # "SendFIN"
  BY DEF CloseIsTimed, FinTimed
<1>1. retxEvent[t] \in {"none", "ReTxTimeout", "SendFIN"}
  BY DEF TypeOK
<1>2. ASSUME t # s, Open(t)', Unacked(t)' PROVE retxEvent[t] = "ReTxTimeout"
  <2>1. Unacked(t)
    BY <1>2 DEF Unacked, maxSeqNb
  <2>2. Open(t)
    BY <1>2, SendAndCloseClient DEF Open
  <2> QED
    BY <2>1, <2>2 DEF CloseIsTimed
<1>3. /\ clientState'[t] = clientState[t]
           \/ (clientState[t] = "ESTABLISHED" /\ clientState'[t] = "FIN_WAIT_1"
                 /\ retxEvent'[t] # "none")
      /\ retxEvent[t] # "none" => retxEvent'[t] = retxEvent[t]
      /\ retxEvent[t] = "none" /\ t = s => retxEvent'[t] = "ReTxTimeout"
      /\ retxEvent[t] = "none" /\ t # s /\ retxEvent'[t] # "none"
           => clientState'[t] = "FIN_WAIT_1"
  BY SendAndCloseClient
<1> QED
  BY <1>1, <1>2, <1>3 DEF CloseIsTimed, FinTimed

LEMMA SendAndCloseInTime ==
  ASSUME TypeOK, ClosedInTime, NEW s \in Subflows, NEW n, SendAndClose(s, n),
         Open(s), sendingBuffer = 0 => sendingBuffer' = 0,
         UNCHANGED <<closes, closeOnEmpty, reset, fault>>
  PROVE  ClosedInTime'
<1>1. ClientOpen
  BY DEF Open, ClientOpen
<1>2. ClosesNow => sendingBuffer' = 0 /\ closes' > 0
  BY DEF ClosesNow, ClosedInTime
<1>3. ASSUME NEW t \in Subflows
      PROVE  /\ scheduled'[t] > 0 => sendingBuffer' = 0 /\ closes' > 0
             /\ clientState'[t] # "CLOSING"
             /\ clientState'[t] # "ESTABLISHED" => sendingBuffer' = 0 /\ closes' > 0
  <2>1. /\ scheduled'[t] = scheduled[t] \/ ClosesNow
        /\ clientState'[t] = clientState[t] \/ (clientState'[t] = "FIN_WAIT_1" /\ ClosesNow)
    BY SendAndCloseClient
  <2> QED
    BY <1>1, <1>2, <2>1 DEF ClosedInTime
<1> QED
  BY <1>3 DEF ClosedInTime

LEMMA SendAgainKeeps ==
  ASSUME CloseInv, NEW s \in Subflows, SendAgain(s) PROVE CloseInv'
<1> USE DEF SendAgain, serverVars, receiveVars, pathVars
<1>1. /\ TxSeqNumber[s] \in Nat /\ TxSeqNumber[s] + 1 \in Nat
      /\ TxSeqNumber[s] \in 1 .. maxSeqNb(s) /\ Unacked(s)
      /\ TxSeqNumber' \in [Subflows -> Nat]
  <2>1. /\ TxSeqNumber[s] \in Nat /\ highestAck[s] \in Nat /\ maxSeqNb(s) \in Nat
        /\ highestAck[s] < TxSeqNumber[s] /\ TxSeqNumber[s] <= maxSeqNb(s)
    BY Counters DEF CloseInv, Progress
  <2>2. TxSeqNumber \in [Subflows -> Nat]
    BY DEF CloseInv, TypeOK
  <2> HIDE DEF SendAgain
  <2>3. TxSeqNumber[s] + 1 \in Nat /\ TxSeqNumber[s] \in 1 .. maxSeqNb(s) /\ Unacked(s)
    BY <2>1 DEF Unacked
  <2>4. TxSeqNumber' = [TxSeqNumber EXCEPT ![s] = TxSeqNumber[s] + 1]
    BY DEF SendAgain
  <2> QED
    BY <2>1, <2>2, <2>3, <2>4
<1>2. DataInTransit' /\ dataPath' \in [Subflows -> Seq(PacketType)]
  <2>1. \A t \in Subflows : DataFits(t) \subseteq DataFits(t)'
    BY DataFitsStays, SendAndCloseClient DEF CloseInv
  <2>2. TxSeqNumber[s] \in 1 .. Len(sent'[s])
    BY <1>1 DEF maxSeqNb
  <2>3. sent' \in [Subflows -> Seq(Nat)] /\ TypeOK /\ DataInTransit
    BY DEF CloseInv, TypeOK
  <2> QED
    BY <1>1, <2>1, <2>2, <2>3, SendAndCloseFits
<1>3. TypeOK'
  <2>1. TypeOK
    BY DEF CloseInv
  <2>2. /\ clientState' \in [Subflows -> {"ESTABLISHED", "FIN_WAIT_1", "CLOSING",
                                          "TIME_WAIT", "CLOSED"}]
        /\ retxEvent' \in [Subflows -> {"none", "ReTxTimeout", "SendFIN"}]
        /\ scheduled' \in [Subflows -> Nat]
    BY <2>1, SendAndCloseClient
  <2> QED
    BY <1>1, <1>2, <2>1, <2>2 DEF TypeOK
<1>4. Progress'
  <2>1. \A t \in Subflows : TxSeqNumber'[t] \in {TxSeqNumber[t], TxSeqNumber[t] + 1}
    BY DEF CloseInv, TypeOK
  <2>2. \A t \in Subflows : TxSeqNumber'[t] > highestAck[t]
    BY <2>1, Counters DEF CloseInv, Progress
  <2>3. \A t \in Subflows : clientState[t] # "ESTABLISHED" => clientState'[t] # "ESTABLISHED"
    BY SendAndCloseClient DEF CloseInv
  <2> QED
    BY <2>2, <2>3 DEF CloseInv, Progress, maxSeqNb
<1>5. AcksInTransit' /\ DataNumbers' /\ StoredWasSent' /\ PassedIsHeld'
  BY AcksSame, NumbersSame, StoredSame, PassedSame DEF CloseInv
<1>6. ClosedInTime'
  BY SendAndCloseInTime DEF CloseInv
<1>7. CloseIsTimed' /\ FinTimed'
  <2>1. retxEvent[s] # "SendFIN"
    BY <1>1 DEF CloseInv, CloseIsTimed
  <2> QED
    BY <2>1, SendAndCloseTimed DEF CloseInv
<1> QED
  BY <1>2, <1>3, <1>4, <1>5, <1>6, <1>7 DEF CloseInv

LEMMA SendDataPacketKeeps ==
  ASSUME CloseInv, NEW s \in Subflows, SendDataPacket(s) PROVE CloseInv'
<1> USE DEF SendDataPacket, MaySend, serverVars, receiveVars, pathVars
<1>1. /\ TypeOK /\ Len(sent[s]) \in Nat /\ TxSeqNumber[s] = Len(sent[s]) + 1
      /\ nextTxSequence \in Nat /\ sendingBuffer \in Nat
      /\ TxSeqNumber' = [TxSeqNumber EXCEPT ![s] = Len(sent[s]) + 2]
  BY Counters DEF CloseInv, maxSeqNb
<1>2. /\ sent' \in [Subflows -> Seq(Nat)]
      /\ sent'[s] = Append(sent[s], nextTxSequence)
      /\ Len(sent'[s]) = Len(sent[s]) + 1
      /\ \A n \in 1 .. Len(sent[s]) : sent'[s][n] = sent[s][n]
      /\ sent'[s][Len(sent[s]) + 1] = nextTxSequence
      /\ \A t \in Subflows \ {s} : sent'[t] = sent[t]
  <2>1. sent \in [Subflows -> Seq(Nat)] /\ sent[s] \in Seq(Nat)
    BY <1>1 DEF TypeOK
  <2>2. Append(sent[s], nextTxSequence) \in Seq(Nat)
    BY <1>1, <2>1
  <2>3. sent' = [sent EXCEPT ![s] = Append(sent[s], nextTxSequence)]
    OBVIOUS
  <2> QED
    BY <1>1, <2>1, <2>2, <2>3
<1>3. TxSeqNumber' \in [Subflows -> Nat]
  <2> HIDE DEF SendDataPacket
  <2>1. Len(sent[s]) + 2 \in Nat
    BY <1>1
  <2>2. TxSeqNumber \in [Subflows -> Nat]
    BY DEF CloseInv, TypeOK
  <2> QED
    BY <1>1, <2>1, <2>2
<1>4. DataInTransit' /\ dataPath' \in [Subflows -> Seq(PacketType)]
  <2>1. \A t \in Subflows \ {s} : DataFits(t) \subseteq DataFits(t)'
    BY <1>1, <1>2, DataFitsStays, SendAndCloseClient DEF CloseInv
  <2>2. DataFits(s) \subseteq DataFits(s)'
    BY <1>1, <1>2, DataFitsNew
  <2>3. \A t \in Subflows : DataFits(t) \subseteq DataFits(t)'
    BY <2>1, <2>2
  <2>4. TxSeqNumber[s] \in 1 .. Len(sent'[s]) /\ TxSeqNumber[s] \in Nat
    BY <1>1, <1>2
  <2>5. DataInTransit /\ SendAndClose(s, TxSeqNumber[s])
    BY DEF CloseInv
  <2> QED
    BY <1>1, <1>2, <1>3, <2>3, <2>4, <2>5, SendAndCloseFits
<1>5. TypeOK'
  <2>1. /\ clientState' \in [Subflows -> {"ESTABLISHED", "FIN_WAIT_1", "CLOSING",
                                          "TIME_WAIT", "CLOSED"}]
        /\ retxEvent' \in [Subflows -> {"none", "ReTxTimeout", "SendFIN"}]
        /\ scheduled' \in [Subflows -> Nat]
    BY <1>1, SendAndCloseClient
  <2>2. nextTxSequence' \in Nat /\ sendingBuffer' \in Nat
    BY <1>1
  <2> QED
    BY <1>1, <1>2, <1>3, <1>4, <2>1, <2>2 DEF TypeOK
<1>6. /\ RxSeqNumber[s] <= Len(sent[s]) + 1 /\ RxSeqNumber[s] \in Nat
      /\ finSeq[s] = 0 /\ highestAck[s] <= Len(sent[s]) /\ highestAck[s] \in Nat
      /\ serverState[s] # "LAST_ACK" /\ (serverState[s] = "CLOSED" => reset)
  <2>1. RxSeqNumber[s] \in Nat /\ highestAck[s] \in Nat
    BY Counters DEF CloseInv
  <2> QED
    BY <1>1, <2>1 DEF CloseInv, Progress, maxSeqNb
<1>7. Progress'
  <2>1. \A t \in Subflows : clientState[t] # "ESTABLISHED" => clientState'[t] # "ESTABLISHED"
    BY <1>1, SendAndCloseClient
  <2>2. \A t \in Subflows \ {s} : TxSeqNumber'[t] = TxSeqNumber[t]
    BY <1>1 DEF TypeOK
  <2>3. TxSeqNumber'[s] = Len(sent[s]) + 2
    BY <1>1 DEF TypeOK
  <2> QED
    BY <1>2, <1>6, <2>1, <2>2, <2>3 DEF CloseInv, Progress, maxSeqNb
<1>8. AcksInTransit'
  <2>1. AckFits(s) \subseteq AckFits(s)'
    BY <1>2, <1>6 DEF AckFits, maxSeqNb
  <2>2. \A t \in Subflows \ {s} : AckFits(t) \subseteq AckFits(t)'
    BY <1>2 DEF AckFits, maxSeqNb
  <2>3. \A t \in Subflows : ackPath[t] \in Seq(AckFits(t)')
    BY <2>1, <2>2, AcksStay DEF CloseInv
  <2> QED
    BY <2>3 DEF AcksInTransit
<1>9. DataNumbers'
  <2> USE DEF CloseInv, DataNumbers, maxSeqNb
  <2>1. /\ nextTxSequence' >= 1
        /\ nextTxSequence' + sendingBuffer' <= MaxSegments + 1
        /\ nextRxSequence' \in 1 .. nextTxSequence'
    BY <1>1, CloseAssumption
  <2>2. \A t \in Subflows :
          /\ Len(sent'[t]) < nextTxSequence'
          /\ \A n \in 1 .. Len(sent'[t]) : sent'[t][n] \in 1 .. nextTxSequence' - 1
    <3> SUFFICES ASSUME NEW t \in Subflows
                 PROVE  /\ Len(sent'[t]) < nextTxSequence'
                        /\ \A n \in 1 .. Len(sent'[t]) :
                             sent'[t][n] \in 1 .. nextTxSequence' - 1
      OBVIOUS
    <3>1. /\ Len(sent[t]) \in Nat /\ Len(sent[t]) < nextTxSequence
          /\ \A n \in 1 .. Len(sent[t]) : sent[t][n] \in 1 .. nextTxSequence - 1
          /\ nextTxSequence' = nextTxSequence + 1
      BY <1>1, Counters
    <3> HIDE DEF SendDataPacket, DataNumbers, CloseInv
    <3>2. CASE t # s
      <4>1. sent'[t] = sent[t]
        BY <1>2, <3>2
      <4>2. nextTxSequence \in Nat
        BY <1>1, Counters
      <4> QED
        BY <3>1, <4>1, <4>2
    <3>3. CASE t = s
      <4>1. Len(sent'[s]) < nextTxSequence'
        BY <1>2, <3>1, <3>3
      <4>2. ASSUME NEW n \in 1 .. Len(sent'[s])
            PROVE  sent'[s][n] \in 1 .. nextTxSequence' - 1
        <5>1. CASE n = Len(sent[s]) + 1
          BY <1>1, <1>2, <3>1, <5>1
        <5>2. CASE n \in 1 .. Len(sent[s])
          BY <1>1, <1>2, <3>1, <3>3, <5>2
        <5> QED
          BY <1>1, <1>2, <5>1, <5>2
      <4> QED
        BY <3>3, <4>1, <4>2
    <3> QED
      BY <3>2, <3>3
  <2>3. \A d \in 1 .. nextTxSequence' - 1 :
          \E t \in Subflows : \E n \in 1 .. Len(sent'[t]) : sent'[t][n] = d
    <3> SUFFICES ASSUME NEW d \in 1 .. nextTxSequence' - 1
                 PROVE  \E t \in Subflows : \E n \in 1 .. Len(sent'[t]) : sent'[t][n] = d
      OBVIOUS
    <3>1. CASE d = nextTxSequence
      BY <1>1, <1>2, <3>1
    <3>2. CASE d # nextTxSequence
      <4>1. d \in 1 .. nextTxSequence - 1
        BY <1>1, <3>2
      <4>2. PICK t \in Subflows : \E n \in 1 .. Len(sent[t]) : sent[t][n] = d
        BY <4>1
      <4>3. Len(sent[t]) \in Nat
        BY <1>1, Counters
      <4> HIDE DEF SendDataPacket, DataNumbers, CloseInv
      <4>4. PICK n \in 1 .. Len(sent[t]) : sent[t][n] = d
        BY <4>2
      <4>5. n \in 1 .. Len(sent'[t]) /\ sent'[t][n] = d
        <5>1. CASE t = s
          <6>1. n \in 1 .. Len(sent[s]) /\ sent[s][n] = d
            BY <4>4, <5>1
          <6>2. n \in 1 .. Len(sent'[s]) /\ sent'[s][n] = d
            BY <1>1, <1>2, <6>1
          <6> QED
            BY <5>1, <6>2
        <5>2. CASE t # s
          BY <1>1, <1>2, <4>3, <4>4, <5>2
        <5> QED
          BY <5>1, <5>2
      <4> QED
        BY <4>5
    <3> QED
      BY <3>1, <3>2
  <2> QED
    BY <2>1, <2>2, <2>3
<1>10. StoredWasSent'
  <2> SUFFICES ASSUME NEW e \in unOrdered
               PROVE  /\ e.ssn \in 1 .. Len(sent'[e.sub])
                      /\ e.dsn = sent'[e.sub][e.ssn]
                      /\ e.dsn > nextRxSequence
    BY DEF StoredWasSent, maxSeqNb
  <2>1. e.sub \in Subflows
    BY <1>1 DEF TypeOK
  <2>2. /\ e.ssn \in 1 .. Len(sent[e.sub])
        /\ e.dsn = sent[e.sub][e.ssn]
        /\ e.dsn > nextRxSequence
    BY DEF CloseInv, StoredWasSent, maxSeqNb
  <2> QED
    BY <1>1, <1>2, <2>1, <2>2
<1>11. PassedIsHeld'
  <2> SUFFICES ASSUME NEW t \in Subflows, NEW n \in 1 .. Len(sent'[t]),
                      n < RxSeqNumber[t]
               PROVE  Holds(t, n)'
    BY DEF PassedIsHeld, maxSeqNb
  <2>1. n \in 1 .. Len(sent[t]) /\ sent'[t][n] = sent[t][n]
    BY <1>1, <1>2, <1>6
  <2>2. Holds(t, n)
    BY <2>1 DEF CloseInv, PassedIsHeld, maxSeqNb
  <2> QED
    BY <2>1, <2>2 DEF Holds
<1>12. ClosedInTime'
  <2>1. sendingBuffer = 0 => sendingBuffer' = 0
    BY <1>1
  <2>2. Open(s)
    BY DEF Open
  <2> QED
    BY <1>1, <2>1, <2>2, SendAndCloseInTime DEF CloseInv
<1>13. CloseIsTimed' /\ FinTimed'
  <2>1. retxEvent[s] # "SendFIN"
    BY DEF CloseInv, FinTimed
  <2> QED
    BY <1>1, <1>2, <2>1, SendAndCloseTimed DEF CloseInv
<1> QED
  BY <1>4, <1>5, <1>7, <1>8, <1>9, <1>10, <1>11, <1>12, <1>13 DEF CloseInv

(* One packet joins, or leaves, a path. *)
LEMMA DataSent ==
  ASSUME TypeOK, DataInTransit, NEW s \in Subflows, NEW p \in DataFits(s)',
         dataPath' = Send(dataPath, s, p),
         \A t \in Subflows : DataFits(t) \subseteq DataFits(t)'
  PROVE  DataInTransit' /\ dataPath' \in [Subflows -> Seq(PacketType)]
<1> DEFINE F == [t \in Subflows |-> DataFits(t)']
<1>1. p \in PacketType
  BY DEF DataFits, PacketType
<1>2. dataPath \in [Subflows -> Seq(PacketType)]
  BY DEF TypeOK
<1>3. \A t \in Subflows : dataPath[t] \in Seq(F[t])
  BY DataStays
<1>4. p \in F[s]
  OBVIOUS
<1> HIDE DEF F
<1>5. \A t \in Subflows : Send(dataPath, s, p)[t] \in Seq(F[t])
  BY <1>2, <1>3, <1>4, SendFits
<1> USE DEF F
<1> QED
  BY <1>1, <1>2, <1>5, SendType DEF DataInTransit

LEMMA AckSent ==
  ASSUME TypeOK, AcksInTransit, NEW s \in Subflows, NEW p \in AckFits(s)',
         ackPath' = Send(ackPath, s, p),
         \A t \in Subflows : AckFits(t) \subseteq AckFits(t)'
  PROVE  AcksInTransit' /\ ackPath' \in [Subflows -> Seq(PacketType)]
<1> DEFINE F == [t \in Subflows |-> AckFits(t)']
<1>1. p \in PacketType
  BY DEF AckFits, PacketType
<1>2. ackPath \in [Subflows -> Seq(PacketType)]
  BY DEF TypeOK
<1>3. \A t \in Subflows : ackPath[t] \in Seq(F[t])
  BY AcksStay
<1>4. p \in F[s]
  OBVIOUS
<1> HIDE DEF F
<1>5. \A t \in Subflows : Send(ackPath, s, p)[t] \in Seq(F[t])
  BY <1>2, <1>3, <1>4, SendFits
<1> USE DEF F
<1> QED
  BY <1>1, <1>2, <1>5, SendType DEF AcksInTransit

LEMMA DataTaken ==
  ASSUME TypeOK, DataInTransit, NEW s \in Subflows, NEW i \in Leaving(dataPath[s])
  PROVE  /\ dataPath[s][i] \in DataFits(s)
         /\ dataPath' = Take(dataPath, s, i)
              => dataPath' \in [Subflows -> Seq(PacketType)]
         /\ (dataPath' = Take(dataPath, s, i)
               /\ (\A t \in Subflows : DataFits(t) \subseteq DataFits(t)'))
              => DataInTransit'
<1> DEFINE F == [t \in Subflows |-> DataFits(t)]
           G == [t \in Subflows |-> DataFits(t)']
<1>1. dataPath \in [Subflows -> Seq(PacketType)]
  BY DEF TypeOK
<1>2. \A t \in Subflows : dataPath[t] \in Seq(F[t])
  BY DEF DataInTransit
<1>3. dataPath[s][i] \in F[s]
  <2> HIDE DEF F
  <2> QED
    BY <1>1, <1>2, TakeFits
<1>4. ASSUME \A t \in Subflows : DataFits(t) \subseteq DataFits(t)',
             dataPath' = Take(dataPath, s, i)
      PROVE  DataInTransit'
  <2>1. \A t \in Subflows : dataPath[t] \in Seq(G[t])
    BY <1>4, DataStays
  <2>2. \A t \in Subflows : Take(dataPath, s, i)[t] \in Seq(G[t])
    <3> HIDE DEF G
    <3> QED
      BY <1>1, <2>1, TakeFits
  <2> QED
    BY <1>4, <2>2 DEF DataInTransit
<1> QED
  BY <1>1, <1>3, <1>4, TakeType

LEMMA AckTaken ==
  ASSUME TypeOK, AcksInTransit, NEW s \in Subflows, NEW i \in Leaving(ackPath[s])
  PROVE  /\ ackPath[s][i] \in AckFits(s)
         /\ ackPath' = Take(ackPath, s, i)
              => ackPath' \in [Subflows -> Seq(PacketType)]
         /\ (ackPath' = Take(ackPath, s, i)
               /\ (\A t \in Subflows : AckFits(t) \subseteq AckFits(t)'))
              => AcksInTransit'
<1> DEFINE F == [t \in Subflows |-> AckFits(t)]
           G == [t \in Subflows |-> AckFits(t)']
<1>1. ackPath \in [Subflows -> Seq(PacketType)]
  BY DEF TypeOK
<1>2. \A t \in Subflows : ackPath[t] \in Seq(F[t])
  BY DEF AcksInTransit
<1>3. ackPath[s][i] \in F[s]
  <2> HIDE DEF F
  <2> QED
    BY <1>1, <1>2, TakeFits
<1>4. ASSUME \A t \in Subflows : AckFits(t) \subseteq AckFits(t)',
             ackPath' = Take(ackPath, s, i)
      PROVE  AcksInTransit'
  <2>1. \A t \in Subflows : ackPath[t] \in Seq(G[t])
    BY <1>4, AcksStay
  <2>2. \A t \in Subflows : Take(ackPath, s, i)[t] \in Seq(G[t])
    <3> HIDE DEF G
    <3> QED
      BY <1>1, <2>1, TakeFits
  <2> QED
    BY <1>4, <2>2 DEF AcksInTransit
<1> QED
  BY <1>1, <1>3, <1>4, TakeType

(* A FIN fits on a sub-flow that is no longer established. *)
LEMMA FinFits ==
  ASSUME TypeOK, NEW s \in Subflows, NEW tx \in Nat, UNCHANGED sent,
         clientState'[s] # "ESTABLISHED"
  PROVE  Fin(FinAt(tx, maxSeqNb(s))) \in DataFits(s)'
<1>1. maxSeqNb(s) \in Nat /\ FinAt(tx, maxSeqNb(s)) = maxSeqNb(s) + 1
  BY Counters, FinIsBehind
<1>2. /\ Fin(maxSeqNb(s) + 1) \in PacketType
      /\ Fin(maxSeqNb(s) + 1).kind = "FIN"
      /\ Fin(maxSeqNb(s) + 1).number = maxSeqNb(s) + 1
  BY <1>1 DEF Fin, Packet, PacketType
<1> QED
  BY <1>1, <1>2 DEF DataFits, maxSeqNb

(* An acknowledgement or a RST from the client always fits. *)
LEMMA OtherFits ==
  ASSUME NEW s, NEW n \in Nat
  PROVE  Ack(n) \in DataFits(s) /\ Rst \in DataFits(s)
BY DEF Ack, Rst, Packet, PacketType, DataFits

LEMMA DoCloseKeeps ==
  ASSUME CloseInv, NEW s \in Subflows, DoClose(s), sendingBuffer = 0,
         closes' \in 1 .. 2, scheduled' \in [Subflows -> Nat],
         UNCHANGED <<sent, TxSeqNumber, highestAck, nextTxSequence, sendingBuffer,
                     closeOnEmpty, currentSublow, serverVars, reset, ackPath>>
  PROVE  CloseInv'
<1> USE DEF serverVars, receiveVars
<1>0. closes' \in 0 .. 2
  OBVIOUS
<1>1. CASE clientState[s] = "ESTABLISHED"
  <2> DEFINE p == Fin(FinAt(TxSeqNumber[s], maxSeqNb(s)))
  <2>1. /\ clientState' = [clientState EXCEPT ![s] = "FIN_WAIT_1"]
        /\ retxEvent' = [retxEvent EXCEPT ![s] = Start(@, "SendFIN")]
        /\ dataPath' = Send(dataPath, s, p)
        /\ UNCHANGED fault
        /\ TypeOK /\ clientState'[s] = "FIN_WAIT_1"
    BY <1>1 DEF DoClose, CloseInv, TypeOK
  <2>2. /\ \A t \in Subflows : clientState[t] # "ESTABLISHED"
                                 => clientState'[t] # "ESTABLISHED"
        /\ \A t \in Subflows : clientState'[t] = clientState[t] \/ t = s
        /\ retxEvent'[s] = (IF retxEvent[s] = "none" THEN "SendFIN" ELSE retxEvent[s])
        /\ \A t \in Subflows \ {s} : retxEvent'[t] = retxEvent[t]
        /\ retxEvent[s] \in {"none", "ReTxTimeout", "SendFIN"}
    BY <2>1 DEF TypeOK, Start
  <2>3. DataInTransit' /\ dataPath' \in [Subflows -> Seq(PacketType)]
    <3>1. p \in DataFits(s)'
      BY <2>1, FinFits, Counters
    <3>2. \A t \in Subflows : DataFits(t) \subseteq DataFits(t)'
      BY <2>2, DataFitsStays
    <3>3. DataInTransit
      BY DEF CloseInv
    <3> HIDE DEF p
    <3> QED
      BY <2>1, <3>1, <3>2, <3>3, DataSent
  <2> HIDE DEF p
  <2>4. TypeOK'
    <3>1. retxEvent' \in [Subflows -> {"none", "ReTxTimeout", "SendFIN"}]
      BY <2>1 DEF TypeOK, Start
    <3>2. clientState' \in [Subflows -> {"ESTABLISHED", "FIN_WAIT_1", "CLOSING",
                                         "TIME_WAIT", "CLOSED"}]
      BY <2>1 DEF TypeOK
    <3> QED
      BY <1>0, <2>1, <2>3, <3>1, <3>2 DEF TypeOK
  <2>5. Progress'
    BY <2>2 DEF CloseInv, Progress, maxSeqNb
  <2>6. ClosedInTime'
    BY <2>1, <2>2 DEF CloseInv, ClosedInTime
  <2>7. CloseIsTimed' /\ FinTimed'
    <3>1. \A t \in Subflows : Open(t)' => Open(t)
      BY <1>1, <2>2 DEF Open
    <3> QED
      BY <2>1, <2>2, <3>1 DEF CloseInv, CloseIsTimed, FinTimed, Unacked, maxSeqNb
  <2>8. AcksInTransit' /\ StoredWasSent' /\ PassedIsHeld' /\ DataNumbers'
    BY AcksSame, StoredSame, PassedSame, NumbersSame DEF CloseInv
  <2> QED
    BY <2>3, <2>4, <2>5, <2>6, <2>7, <2>8 DEF CloseInv
<1>2. CASE clientState[s] # "ESTABLISHED"
  <2>1. UNCHANGED <<clientState, dataPath, retxEvent, fault>>
    BY <1>2 DEF DoClose, CloseInv, ClosedInTime
  <2>2. TypeOK'
    BY <1>0, <2>1 DEF CloseInv, TypeOK
  <2>3. DataInTransit' /\ AcksInTransit' /\ Progress' /\ CloseIsTimed' /\ FinTimed'
    BY <2>1, DataSame, AcksSame, ProgressSame, TimedSame DEF CloseInv
  <2>4. StoredWasSent' /\ PassedIsHeld' /\ DataNumbers'
    BY StoredSame, PassedSame, NumbersSame DEF CloseInv
  <2>5. ClosedInTime'
    BY <2>1 DEF CloseInv, ClosedInTime, ClientOpen
  <2> QED
    BY <2>2, <2>3, <2>4, <2>5 DEF CloseInv
<1> QED
  BY <1>1, <1>2

LEMMA CloseKeeps ==
  ASSUME CloseInv, Close PROVE CloseInv'
<1> USE DEF Close
<1>0. closes \in Nat /\ closes' \in 1 .. 2 /\ closes' \in 0 .. 2
  BY DEF CloseInv, TypeOK
<1>1. CASE sendingBuffer > 0
  <2> USE DEF serverVars, receiveVars, pathVars
  <2>0. /\ closeOnEmpty' = TRUE
        /\ UNCHANGED <<clientState, dataPath, retxEvent, fault>>
    BY <1>1
  <2>1. TypeOK'
    BY <1>0, <2>0 DEF CloseInv, TypeOK
  <2>2. DataInTransit' /\ AcksInTransit' /\ Progress' /\ CloseIsTimed' /\ FinTimed'
    BY <2>0, DataSame, AcksSame, ProgressSame, TimedSame DEF CloseInv
  <2>3. StoredWasSent' /\ PassedIsHeld' /\ DataNumbers'
    BY StoredSame, PassedSame, NumbersSame DEF CloseInv
  <2>4. ClosedInTime'
    BY <1>0, <2>0 DEF CloseInv, ClosedInTime, ClientOpen
  <2> QED
    BY <2>1, <2>2, <2>3, <2>4 DEF CloseInv
<1>2. CASE ~ sendingBuffer > 0
  <2>1. sendingBuffer = 0 /\ scheduled' \in [Subflows -> Nat]
    BY <1>2 DEF CloseInv, TypeOK
  <2>2. DoClose(currentSublow) /\ currentSublow \in Subflows
    BY <1>2 DEF CloseInv, TypeOK
  <2> QED
    BY <1>0, <1>2, <2>1, <2>2, DoCloseKeeps
<1> QED
  BY <1>1, <1>2

LEMMA ScheduledDoCloseKeeps ==
  ASSUME CloseInv, NEW s \in Subflows, ScheduledDoClose(s) PROVE CloseInv'
<1> USE DEF ScheduledDoClose
<1>1. sendingBuffer = 0 /\ closes' \in 1 .. 2
  BY DEF CloseInv, ClosedInTime, TypeOK
<1>2. scheduled' \in [Subflows -> Nat]
  <2>1. scheduled[s] - 1 \in Nat
    BY Counters DEF CloseInv
  <2>2. scheduled \in [Subflows -> Nat]
    BY DEF CloseInv, TypeOK
  <2> QED
    BY <2>1, <2>2
<1> QED
  BY <1>1, <1>2, DoCloseKeeps

(* A segment that was sent fits when it is sent again. *)
LEMMA SegmentFits ==
  ASSUME TypeOK, NEW s \in Subflows, NEW n \in Nat, n \in 1 .. Len(sent[s]),
         UNCHANGED sent
  PROVE  Data(s, n) \in DataFits(s)'
<1>1. sent[s] \in Seq(Nat)
  BY Counters
<1>2. sent[s][n] \in Nat
  BY <1>1
<1>3. /\ Data(s, n) \in PacketType /\ Data(s, n).kind = "DATA"
      /\ Data(s, n).number = n /\ Data(s, n).dsn = sent'[s][n]
  BY <1>2 DEF Data, Packet, PacketType
<1> QED
  BY <1>3 DEF DataFits, maxSeqNb

LEMMA RetransmitDataKeeps ==
  ASSUME CloseInv, NEW s \in Subflows, RetransmitData(s) PROVE CloseInv'
<1> USE DEF RetransmitData, serverVars, receiveVars
<1>1. /\ TypeOK /\ DataInTransit
      /\ highestAck[s] + 1 \in 1 .. Len(sent[s]) /\ highestAck[s] + 2 \in Nat
      /\ highestAck[s] \in Nat /\ highestAck[s] + 1 \in Nat
  <2>1. TypeOK /\ DataInTransit /\ highestAck[s] < Len(sent[s])
    BY DEF CloseInv, Unacked, maxSeqNb
  <2>2. highestAck[s] \in Nat /\ Len(sent[s]) \in Nat
    BY <2>1, Counters DEF maxSeqNb
  <2> HIDE DEF RetransmitData
  <2> QED
    BY <2>1, <2>2
<1>2. Data(s, highestAck[s] + 1) \in DataFits(s)'
  BY <1>1, SegmentFits
<1>3. DataInTransit' /\ dataPath' \in [Subflows -> Seq(PacketType)]
  <2>1. \A t \in Subflows : DataFits(t) \subseteq DataFits(t)'
    BY DataFitsStays
  <2> QED
    BY <1>1, <1>2, <2>1, DataSent
<1>4. /\ TxSeqNumber' = [TxSeqNumber EXCEPT ![s] = highestAck[s] + 2]
      /\ TxSeqNumber' \in [Subflows -> Nat]
  BY <1>1 DEF TypeOK
<1>5. TypeOK'
  BY <1>1, <1>3, <1>4 DEF TypeOK
<1>6. Progress'
  <2>1. \A t \in Subflows : TxSeqNumber'[t] > highestAck[t]
    BY <1>1, <1>4 DEF CloseInv, Progress, TypeOK
  <2> QED
    BY <2>1 DEF CloseInv, Progress, maxSeqNb
<1>7. AcksInTransit' /\ StoredWasSent' /\ PassedIsHeld' /\ DataNumbers'
  BY AcksSame, StoredSame, PassedSame, NumbersSame DEF CloseInv
<1>8. ClosedInTime' /\ CloseIsTimed' /\ FinTimed'
  BY ClosedSame, TimedSame DEF CloseInv
<1> QED
  BY <1>3, <1>5, <1>6, <1>7, <1>8 DEF CloseInv

LEMMA RetransmitFinKeeps ==
  ASSUME CloseInv, NEW s \in Subflows, RetransmitFin(s) PROVE CloseInv'
<1> USE DEF RetransmitFin, serverVars, receiveVars
<1>1. TypeOK /\ DataInTransit /\ highestAck[s] \in Nat /\ highestAck[s] + 1 \in Nat
  BY Counters DEF CloseInv
<1>2. TxSeqNumber' \in [Subflows -> Nat] /\ TxSeqNumber'[s] \in Nat
  BY <1>1 DEF TypeOK
<1>3. DataInTransit' /\ dataPath' \in [Subflows -> Seq(PacketType)]
  <2>1. \A t \in Subflows : DataFits(t) \subseteq DataFits(t)'
    BY DataFitsStays
  <2>2. Fin(FinAt(TxSeqNumber'[s], maxSeqNb(s))) \in DataFits(s)'
    BY <1>1, <1>2, FinFits
  <2> QED
    BY <1>1, <2>1, <2>2, DataSent
<1>4. UNCHANGED fault
  <2>1. ClientOpen
    BY DEF ClientOpen
  <2>2. sendingBuffer = 0 /\ fault = "none"
    BY <2>1 DEF CloseInv, ClosedInTime
  <2> QED
    BY <2>2
<1>5. retxEvent' = [retxEvent EXCEPT ![s] = "SendFIN"]
  OBVIOUS
<1>6. TypeOK'
  BY <1>1, <1>2, <1>3, <1>4, <1>5 DEF TypeOK
<1>7. Progress'
  <2>1. \A t \in Subflows : TxSeqNumber'[t] > highestAck[t]
    BY <1>1 DEF CloseInv, Progress, TypeOK
  <2> QED
    BY <2>1 DEF CloseInv, Progress, maxSeqNb
<1>8. AcksInTransit' /\ StoredWasSent' /\ PassedIsHeld' /\ DataNumbers'
  BY AcksSame, StoredSame, PassedSame, NumbersSame DEF CloseInv
<1>9. ClosedInTime'
  BY <1>4, ClosedSame DEF CloseInv
<1>10. CloseIsTimed' /\ FinTimed'
  <2>1. ~ Unacked(s)
    BY DEF CloseInv, CloseIsTimed, Open
  <2>2. retxEvent'[s] = "SendFIN" /\ \A t \in Subflows \ {s} : retxEvent'[t] = retxEvent[t]
    BY <1>1, <1>5 DEF TypeOK
  <2> QED
    BY <2>1, <2>2 DEF CloseInv, CloseIsTimed, FinTimed, Open, Unacked, maxSeqNb
<1> QED
  BY <1>3, <1>6, <1>7, <1>8, <1>9, <1>10 DEF CloseInv

LEMMA CloseMultipathConnectionKeeps ==
  ASSUME CloseInv, CloseMultipathConnection PROVE CloseInv'
<1> USE DEF CloseMultipathConnection, serverVars, receiveVars, pathVars
<1>1. /\ \A t \in Subflows :
           clientState'[t] = IF clientState[t] = "TIME_WAIT" THEN "CLOSED"
                                                              ELSE clientState[t]
      /\ clientState' \in [Subflows -> {"ESTABLISHED", "FIN_WAIT_1", "CLOSING",
                                        "TIME_WAIT", "CLOSED"}]
  BY DEF CloseInv, TypeOK
<1>2. TypeOK'
  BY <1>1 DEF CloseInv, TypeOK
<1>3. DataInTransit'
  <2>1. \A t \in Subflows : DataFits(t) \subseteq DataFits(t)'
    BY <1>1, DataFitsStays
  <2> QED
    BY <2>1, DataStays DEF CloseInv, DataInTransit
<1>4. Progress'
  BY <1>1 DEF CloseInv, Progress, maxSeqNb
<1>5. AcksInTransit' /\ StoredWasSent' /\ PassedIsHeld' /\ DataNumbers'
  BY AcksSame, StoredSame, PassedSame, NumbersSame DEF CloseInv
<1>6. ClosedInTime'
  BY <1>1 DEF CloseInv, ClosedInTime, ClientOpen
<1>7. CloseIsTimed' /\ FinTimed'
  BY <1>1 DEF CloseInv, CloseIsTimed, FinTimed, Open, Unacked, maxSeqNb
<1> QED
  BY <1>2, <1>3, <1>4, <1>5, <1>6, <1>7 DEF CloseInv

LEMMA LossKeeps ==
  ASSUME CloseInv, Loss PROVE CloseInv'
<1> USE DEF Loss, clientVars, serverVars, receiveVars
<1>1. PICK s \in Subflows : LoseData(s) \/ LoseAck(s)
  OBVIOUS
<1>2. /\ DataInTransit' /\ dataPath' \in [Subflows -> Seq(PacketType)]
      /\ AcksInTransit' /\ ackPath' \in [Subflows -> Seq(PacketType)]
  <2>1. CASE LoseData(s)
    <3>1. PICK i \in Leaving(dataPath[s]) : dataPath' = Take(dataPath, s, i)
      BY <2>1 DEF LoseData, Take
    <3>2. \A t \in Subflows : DataFits(t) \subseteq DataFits(t)'
      BY DataFitsStays
    <3>3. DataInTransit' /\ dataPath' \in [Subflows -> Seq(PacketType)]
      BY <3>1, <3>2, DataTaken DEF CloseInv
    <3>4. UNCHANGED ackPath
      BY <2>1 DEF LoseData
    <3> QED
      BY <3>3, <3>4, AcksSame DEF CloseInv, TypeOK
  <2>2. CASE LoseAck(s)
    <3>1. PICK i \in Leaving(ackPath[s]) : ackPath' = Take(ackPath, s, i)
      BY <2>2 DEF LoseAck, Take
    <3>2. \A t \in Subflows : AckFits(t) \subseteq AckFits(t)'
      BY DEF AckFits, maxSeqNb
    <3>3. AcksInTransit' /\ ackPath' \in [Subflows -> Seq(PacketType)]
      BY <3>1, <3>2, AckTaken DEF CloseInv
    <3>4. UNCHANGED dataPath
      BY <2>2 DEF LoseAck
    <3> QED
      BY <3>3, <3>4, DataSame DEF CloseInv, TypeOK
  <2> QED
    BY <1>1, <2>1, <2>2
<1>3. TypeOK'
  BY <1>2 DEF CloseInv, TypeOK
<1>4. StoredWasSent' /\ PassedIsHeld' /\ DataNumbers' /\ Progress'
  BY StoredSame, PassedSame, NumbersSame, ProgressSame DEF CloseInv
<1>5. ClosedInTime' /\ CloseIsTimed' /\ FinTimed'
  BY ClosedSame, TimedSame DEF CloseInv
<1> QED
  BY <1>2, <1>3, <1>4, <1>5 DEF CloseInv

LEMMA LastAckTimeoutKeeps ==
  ASSUME CloseInv, NEW s \in Subflows, LastAckTimeout(s) PROVE CloseInv'
<1> USE DEF LastAckTimeout, clientVars, receiveVars
<1>1. /\ TypeOK /\ AcksInTransit /\ RxSeqNumber[s] \in Nat
      /\ RxSeqNumber[s] = maxSeqNb(s) + 2 /\ clientState[s] # "ESTABLISHED"
  BY Counters DEF CloseInv, Progress
<1>2. FinAck(RxSeqNumber[s]) \in AckFits(s)'
  <2>1. /\ FinAck(RxSeqNumber[s]) \in PacketType
        /\ FinAck(RxSeqNumber[s]).kind = "FIN_ACK"
        /\ FinAck(RxSeqNumber[s]).number = RxSeqNumber[s]
    BY <1>1 DEF FinAck, Packet, PacketType
  <2> QED
    BY <1>1, <2>1 DEF AckFits, maxSeqNb
<1>3. AcksInTransit' /\ ackPath' \in [Subflows -> Seq(PacketType)]
  <2>1. \A t \in Subflows : AckFits(t) \subseteq AckFits(t)'
    BY DEF AckFits, maxSeqNb
  <2> QED
    BY <1>1, <1>2, <2>1, AckSent
<1>4. /\ serverState' \in [Subflows -> {"ESTABLISHED", "LAST_ACK", "CLOSED"}]
      /\ serverState'[s] = "CLOSED"
      /\ \A t \in Subflows \ {s} : serverState'[t] = serverState[t]
  BY <1>1 DEF TypeOK
<1>5. TypeOK'
  BY <1>1, <1>3, <1>4 DEF TypeOK
<1>6. Progress'
  BY <1>1, <1>4 DEF CloseInv, Progress, maxSeqNb
<1>7. DataInTransit' /\ StoredWasSent' /\ PassedIsHeld' /\ DataNumbers'
  BY DataSame, StoredSame, PassedSame, NumbersSame DEF CloseInv
<1>8. ClosedInTime' /\ CloseIsTimed' /\ FinTimed'
  BY ClosedSame, TimedSame DEF CloseInv
<1> QED
  BY <1>3, <1>5, <1>6, <1>7, <1>8 DEF CloseInv

-----------------------------------------------------------------------------
(* What a packet does to the client. *)

(* The parts of the invariant that a packet to the client can disturb, but *)
(* for its path.                                                           *)
ClientPart ==
  /\ DataInTransit /\ Progress /\ ClosedInTime /\ CloseIsTimed /\ FinTimed
  /\ dataPath \in [Subflows -> Seq(PacketType)]
  /\ clientState \in [Subflows -> {"ESTABLISHED", "FIN_WAIT_1", "CLOSING",
                                   "TIME_WAIT", "CLOSED"}]
  /\ TxSeqNumber \in [Subflows -> Nat]
  /\ highestAck \in [Subflows -> Nat]
  /\ retxEvent \in [Subflows -> {"none", "ReTxTimeout", "SendFIN"}]
  /\ reset \in BOOLEAN

(* What a packet to the client leaves alone. *)
ClientKeeps == <<nextTxSequence, sendingBuffer, closes, closeOnEmpty, scheduled,
                 sent, serverVars, fault>>

(* TxSeqNumber never stays behind an acknowledgement. *)
LEMMA Raised ==
  ASSUME NEW f \in [Subflows -> Nat], NEW s \in Subflows, NEW n \in Nat,
         NEW g, g = [f EXCEPT ![s] = IF n > @ THEN n ELSE @]
  PROVE  /\ g \in [Subflows -> Nat] /\ g[s] \in Nat /\ g[s] >= n
         /\ \A t \in Subflows \ {s} : g[t] = f[t]
<1>1. CASE n > f[s]
  <2>1. g = [f EXCEPT ![s] = n]
    BY <1>1
  <2> QED
    BY <2>1
<1>2. CASE ~ n > f[s]
  <2>1. g = f
    BY <1>2
  <2>2. f[s] \in Nat
    OBVIOUS
  <2>3. f[s] >= n
    BY <1>2, <2>2
  <2> QED
    BY <2>1, <2>2, <2>3
<1> QED
  BY <1>1, <1>2

LEMMA ReceivedAckKeeps ==
  ASSUME CloseInv, NEW s \in Subflows, NEW p \in AckFits(s), ReceivedAck(s, p),
         UNCHANGED ClientKeeps
  PROVE  ClientPart'
<1> USE DEF ReceivedAck, ClientKeeps, serverVars, receiveVars
<1>1. /\ TypeOK /\ p.number \in Nat /\ p.number <= RxSeqNumber[s]
      /\ highestAck[s] \in Nat /\ TxSeqNumber[s] \in Nat /\ maxSeqNb(s) \in Nat
      /\ RxSeqNumber[s] \in Nat
  BY Counters DEF CloseInv, AckFits, PacketType
<1>2. DataInTransit'
  BY DataSame DEF CloseInv
<1>3. CASE UNCHANGED <<highestAck, TxSeqNumber, retxEvent>>
  BY <1>2, <1>3, <1>1, ProgressSame, ClosedSame, TimedSame DEF CloseInv, TypeOK, ClientPart
<1>4. CASE /\ p.number > highestAck[s] + 1
           /\ NewACK(s, p.number)
           /\ retxEvent' = [retxEvent EXCEPT ![s] =
                              IF NeedsTimer(s, p.number) THEN "ReTxTimeout" ELSE "none"]
  <2>0. p.number - 1 \in Nat
    BY <1>1, <1>4
  <2>1. /\ highestAck' = [highestAck EXCEPT ![s] = p.number - 1]
        /\ TxSeqNumber' = [TxSeqNumber EXCEPT ![s] = IF p.number > @ THEN p.number ELSE @]
        /\ TxSeqNumber \in [Subflows -> Nat]
    BY <1>1, <1>4 DEF NewACK, TypeOK
  <2>2. /\ highestAck' \in [Subflows -> Nat] /\ TxSeqNumber' \in [Subflows -> Nat]
        /\ retxEvent' \in [Subflows -> {"none", "ReTxTimeout", "SendFIN"}]
    <3>1. TxSeqNumber' \in [Subflows -> Nat]
      BY <1>1, <2>1, Raised
    <3> QED
      BY <1>1, <1>4, <2>0, <2>1, <3>1 DEF TypeOK
  <2>3. /\ highestAck'[s] = p.number - 1
        /\ TxSeqNumber'[s] >= p.number /\ TxSeqNumber'[s] \in Nat
        /\ \A t \in Subflows \ {s} : /\ highestAck'[t] = highestAck[t]
                                     /\ TxSeqNumber'[t] = TxSeqNumber[t]
                                     /\ retxEvent'[t] = retxEvent[t]
        /\ NeedsTimer(s, p.number) => retxEvent'[s] = "ReTxTimeout"
        /\ retxEvent'[s] # "SendFIN"
    <3>1. /\ TxSeqNumber'[s] >= p.number /\ TxSeqNumber'[s] \in Nat
          /\ \A t \in Subflows \ {s} : TxSeqNumber'[t] = TxSeqNumber[t]
      BY <1>1, <2>1, Raised
    <3> QED
      BY <1>1, <1>4, <2>1, <3>1 DEF TypeOK
  <2>4. Progress'
    <3>1. \A t \in Subflows : TxSeqNumber'[t] > highestAck'[t] /\ highestAck'[t] < RxSeqNumber[t]
      BY <1>1, <2>3 DEF CloseInv, Progress
    <3> QED
      BY <3>1 DEF CloseInv, Progress, maxSeqNb
  <2>5. CloseIsTimed' /\ FinTimed'
    <3>1. /\ highestAck'[s] < maxSeqNb(s) => retxEvent'[s] = "ReTxTimeout"
          /\ clientState[s] = "FIN_WAIT_1" => retxEvent'[s] = "ReTxTimeout"
      BY <1>1, <2>3 DEF NeedsTimer
    <3> QED
      BY <2>3, <3>1 DEF CloseInv, CloseIsTimed, FinTimed, Open, Unacked, maxSeqNb
  <2>6. ClosedInTime'
    BY ClosedSame DEF CloseInv
  <2> QED
    BY <1>1, <1>2, <2>2, <2>4, <2>5, <2>6 DEF TypeOK, ClientPart
<1> QED
  BY <1>3, <1>4

LEMMA FastRetransmitKeeps ==
  ASSUME CloseInv, NEW s \in Subflows, NEW p \in AckFits(s), FastRetransmit(s, p),
         UNCHANGED ClientKeeps
  PROVE  ClientPart'
<1> USE DEF FastRetransmit, ClientKeeps, serverVars, receiveVars
<1>1. /\ TypeOK /\ DataInTransit /\ p.number \in Nat /\ p.number <= RxSeqNumber[s]
      /\ highestAck[s] \in Nat /\ TxSeqNumber[s] \in Nat /\ maxSeqNb(s) \in Nat
      /\ RxSeqNumber[s] \in Nat
  BY Counters DEF CloseInv, AckFits, PacketType
<1>2. DataInTransit' /\ dataPath' \in [Subflows -> Seq(PacketType)]
  <2>1. p.number \in 1 .. Len(sent[s])
    BY <1>1 DEF maxSeqNb
  <2>2. Data(s, p.number) \in DataFits(s)'
    BY <1>1, <2>1, SegmentFits
  <2>3. \A t \in Subflows : DataFits(t) \subseteq DataFits(t)'
    BY DataFitsStays
  <2> QED
    BY <1>1, <2>2, <2>3, DataSent
<1>3. p.number - 1 \in Nat /\ p.number + 1 \in Nat
  BY <1>1
<1>4. /\ highestAck' = [highestAck EXCEPT ![s] = p.number - 1]
      /\ retxEvent' = [retxEvent EXCEPT ![s] = "ReTxTimeout"]
      /\ TxSeqNumber' \in [Subflows -> Nat] /\ TxSeqNumber'[s] \in Nat
      /\ TxSeqNumber'[s] >= p.number + 1
      /\ \A t \in Subflows \ {s} : TxSeqNumber'[t] = TxSeqNumber[t]
  <2>1. TxSeqNumber' = [TxSeqNumber EXCEPT ![s] =
                          IF p.number + 1 > @ THEN p.number + 1 ELSE @]
    OBVIOUS
  <2>2. TxSeqNumber \in [Subflows -> Nat]
    BY <1>1 DEF TypeOK
  <2>3. /\ TxSeqNumber' \in [Subflows -> Nat] /\ TxSeqNumber'[s] \in Nat
        /\ TxSeqNumber'[s] >= p.number + 1
        /\ \A t \in Subflows \ {s} : TxSeqNumber'[t] = TxSeqNumber[t]
    BY <1>3, <2>1, <2>2, Raised
  <2> QED
    BY <2>3
<1>5. /\ highestAck' \in [Subflows -> Nat] /\ TxSeqNumber' \in [Subflows -> Nat]
      /\ retxEvent' \in [Subflows -> {"none", "ReTxTimeout", "SendFIN"}]
  <2>1. /\ highestAck \in [Subflows -> Nat]
        /\ retxEvent \in [Subflows -> {"none", "ReTxTimeout", "SendFIN"}]
    BY <1>1 DEF TypeOK
  <2> HIDE DEF FastRetransmit
  <2>2. highestAck' \in [Subflows -> Nat]
    BY <1>3, <1>4, <2>1
  <2>3. retxEvent' \in [Subflows -> {"none", "ReTxTimeout", "SendFIN"}]
    BY <1>4, <2>1
  <2> QED
    BY <1>4, <2>2, <2>3
<1>6. /\ highestAck'[s] = p.number - 1
      /\ TxSeqNumber'[s] >= p.number + 1 /\ TxSeqNumber'[s] \in Nat
      /\ retxEvent'[s] = "ReTxTimeout"
      /\ \A t \in Subflows \ {s} : /\ highestAck'[t] = highestAck[t]
                                   /\ TxSeqNumber'[t] = TxSeqNumber[t]
                                   /\ retxEvent'[t] = retxEvent[t]
  <2>1. highestAck \in [Subflows -> Nat] /\ retxEvent \in [Subflows -> {"none", "ReTxTimeout", "SendFIN"}]
    BY <1>1 DEF TypeOK
  <2> HIDE DEF FastRetransmit
  <2> QED
    BY <1>4, <2>1
<1>7. Progress'
  <2>1. \A t \in Subflows : TxSeqNumber'[t] > highestAck'[t] /\ highestAck'[t] < RxSeqNumber[t]
    BY <1>1, <1>6 DEF CloseInv, Progress
  <2> QED
    BY <2>1 DEF CloseInv, Progress, maxSeqNb
<1>8. CloseIsTimed' /\ FinTimed'
  BY <1>6 DEF CloseInv, CloseIsTimed, FinTimed, Open, Unacked, maxSeqNb
<1>9. ClosedInTime'
  BY ClosedSame DEF CloseInv
<1> QED
  BY <1>1, <1>2, <1>5, <1>7, <1>8, <1>9 DEF TypeOK, ClientPart

LEMMA ReceiveFinAckKeeps ==
  ASSUME CloseInv, NEW s \in Subflows, NEW p \in AckFits(s), ReceiveFinAck(s, p),
         UNCHANGED ClientKeeps
  PROVE  ClientPart'
<1> USE DEF ReceiveFinAck, ClientKeeps, serverVars, receiveVars
<1>1. /\ TypeOK /\ DataInTransit /\ maxSeqNb(s) \in Nat
      /\ p.number = maxSeqNb(s) + 2 /\ p.number = RxSeqNumber[s]
      /\ highestAck[s] \in Nat /\ TxSeqNumber[s] \in Nat
      /\ highestAck[s] < RxSeqNumber[s] /\ highestAck[s] < TxSeqNumber[s]
  BY Counters DEF CloseInv, Progress, AckFits, PacketType
<1>2. /\ highestAck' = [highestAck EXCEPT ![s] = maxSeqNb(s) + 1]
      /\ TxSeqNumber' \in [Subflows -> Nat]
      /\ TxSeqNumber'[s] > maxSeqNb(s) + 1
      /\ \A t \in Subflows \ {s} : TxSeqNumber'[t] = TxSeqNumber[t]
  <2>1. CASE p.number > highestAck[s] + 1
    <3>1. p.number - 1 = maxSeqNb(s) + 1 /\ p.number \in Nat
      BY <1>1
    <3>2. /\ highestAck' = [highestAck EXCEPT ![s] = p.number - 1]
          /\ TxSeqNumber' = [TxSeqNumber EXCEPT ![s] = IF p.number > @ THEN p.number ELSE @]
          /\ TxSeqNumber \in [Subflows -> Nat]
      BY <1>1, <2>1 DEF NewACK, TypeOK
    <3>3. /\ TxSeqNumber' \in [Subflows -> Nat] /\ TxSeqNumber'[s] >= p.number
          /\ TxSeqNumber'[s] \in Nat
          /\ \A t \in Subflows \ {s} : TxSeqNumber'[t] = TxSeqNumber[t]
      BY <3>1, <3>2, Raised
    <3>4. TxSeqNumber'[s] > maxSeqNb(s) + 1
      BY <1>1, <3>3
    <3> QED
      BY <3>1, <3>2, <3>3, <3>4
  <2>2. CASE ~ p.number > highestAck[s] + 1
    <3>1. highestAck[s] = maxSeqNb(s) + 1
      BY <1>1, <2>2
    <3>2. UNCHANGED <<highestAck, TxSeqNumber>>
      BY <2>2
    <3> QED
      BY <1>1, <3>1, <3>2 DEF TypeOK
  <2> QED
    BY <2>1, <2>2
<1>3. highestAck'[s] = maxSeqNb(s) + 1 /\ highestAck' \in [Subflows -> Nat]
  <2>1. maxSeqNb(s) + 1 \in Nat
    BY <1>1
  <2> QED
    BY <1>1, <1>2, <2>1 DEF TypeOK
<1>4. sendingBuffer = 0 /\ closes > 0
  BY DEF CloseInv, ClosedInTime, ClientOpen
<1>5. /\ clientState' = [clientState EXCEPT ![s] = "TIME_WAIT"]
      /\ retxEvent' = [retxEvent EXCEPT ![s] = "none"]
  BY <1>1, <1>3, <1>4
<1>6. /\ clientState' \in [Subflows -> {"ESTABLISHED", "FIN_WAIT_1", "CLOSING",
                                        "TIME_WAIT", "CLOSED"}]
      /\ retxEvent' \in [Subflows -> {"none", "ReTxTimeout", "SendFIN"}]
      /\ clientState'[s] = "TIME_WAIT" /\ retxEvent'[s] = "none"
      /\ \A t \in Subflows \ {s} : /\ clientState'[t] = clientState[t]
                                   /\ retxEvent'[t] = retxEvent[t]
                                   /\ highestAck'[t] = highestAck[t]
  BY <1>1, <1>2, <1>5 DEF TypeOK
<1>7. DataInTransit' /\ dataPath' \in [Subflows -> Seq(PacketType)]
  <2>1. \A t \in Subflows : DataFits(t) \subseteq DataFits(t)'
    BY <1>6, DataFitsStays
  <2>2. TxSeqNumber'[s] \in Nat
    BY <1>2
  <2>3. Ack(TxSeqNumber'[s]) \in DataFits(s)'
    BY <2>1, <2>2, OtherFits
  <2> QED
    BY <1>1, <2>1, <2>3, DataSent
<1>8. Progress'
  <2>1. \A t \in Subflows : TxSeqNumber'[t] > highestAck'[t] /\ highestAck'[t] < RxSeqNumber[t]
    BY <1>1, <1>2, <1>3, <1>6 DEF CloseInv, Progress
  <2> QED
    BY <1>6, <2>1 DEF CloseInv, Progress, maxSeqNb
<1>9. ClosedInTime'
  BY <1>4, <1>6 DEF CloseInv, ClosedInTime, ClientOpen
<1>10. CloseIsTimed' /\ FinTimed'
  BY <1>6 DEF CloseInv, CloseIsTimed, FinTimed, Open, Unacked, maxSeqNb
<1> QED
  BY <1>1, <1>2, <1>3, <1>6, <1>7, <1>8, <1>9, <1>10 DEF TypeOK, ClientPart

LEMMA ReceiveResetKeeps ==
  ASSUME CloseInv, NEW s \in Subflows, NEW p, ReceiveReset(s, p),
         UNCHANGED ClientKeeps
  PROVE  ClientPart'
<1> USE DEF ReceiveReset, ClientKeeps, serverVars, receiveVars
<1>1. \A t \in Subflows : clientState'[t] = "CLOSED" /\ retxEvent'[t] = "none"
  OBVIOUS
<1>2. DataInTransit'
  <2>1. \A t \in Subflows : DataFits(t) \subseteq DataFits(t)'
    BY <1>1, DataFitsStays
  <2> QED
    BY <2>1, DataStays DEF CloseInv, DataInTransit
<1>3. Progress'
  BY <1>1 DEF CloseInv, Progress, maxSeqNb
<1>4. ClosedInTime'
  BY <1>1 DEF CloseInv, ClosedInTime, ClientOpen
<1>5. CloseIsTimed' /\ FinTimed'
  BY <1>1 DEF CloseIsTimed, FinTimed, Open
<1> QED
  BY <1>2, <1>3, <1>4, <1>5 DEF CloseInv, TypeOK, ClientPart

LEMMA ClientRefusesKeeps ==
  ASSUME CloseInv, NEW s \in Subflows, NEW p, ClientRefuses(s, p),
         UNCHANGED ClientKeeps
  PROVE  ClientPart'
<1> USE DEF ClientRefuses, ClientKeeps, serverVars, receiveVars
<1>1. DataInTransit' /\ dataPath' \in [Subflows -> Seq(PacketType)]
  <2>1. CASE dataPath' = Send(dataPath, s, Rst)
    <3>1. \A t \in Subflows : DataFits(t) \subseteq DataFits(t)'
      BY DataFitsStays
    <3>2. Rst \in DataFits(s)'
      BY <3>1, OtherFits
    <3> QED
      BY <2>1, <3>1, <3>2, DataSent DEF CloseInv
  <2>2. CASE UNCHANGED dataPath
    BY <2>2, DataSame DEF CloseInv, TypeOK
  <2> QED
    BY <2>1, <2>2
<1>2. Progress' /\ ClosedInTime' /\ CloseIsTimed' /\ FinTimed'
  BY ProgressSame, ClosedSame, TimedSame DEF CloseInv
<1> QED
  BY <1>1, <1>2 DEF CloseInv, TypeOK, ClientPart

LEMMA ToClientKeeps ==
  ASSUME CloseInv, NEW s \in Subflows, ToClient(s) PROVE CloseInv'
<1> USE DEF ToClient
<1>1. PICK i \in Leaving(ackPath[s]) :
        /\ ackPath' = Take(ackPath, s, i)
        /\ \/ ReceivedAck(s, ackPath[s][i])
           \/ FastRetransmit(s, ackPath[s][i])
           \/ ReceiveFinAck(s, ackPath[s][i])
           \/ ReceiveReset(s, ackPath[s][i])
           \/ ClientRefuses(s, ackPath[s][i])
        /\ currentSublow' = IF ClientOpen THEN s ELSE currentSublow
        /\ UNCHANGED <<nextTxSequence, sendingBuffer, closes, closeOnEmpty, scheduled,
                       serverVars, fault>>
  OBVIOUS
<1>2. UNCHANGED ClientKeeps
  BY <1>1 DEF ClientKeeps, ReceivedAck, FastRetransmit, ReceiveFinAck, ReceiveReset,
              ClientRefuses
<1>3. ackPath[s][i] \in AckFits(s)
  BY AckTaken DEF CloseInv
<1>4. ClientPart'
  BY <1>1, <1>2, <1>3, ReceivedAckKeeps, FastRetransmitKeeps, ReceiveFinAckKeeps,
     ReceiveResetKeeps, ClientRefusesKeeps
<1>5. AcksInTransit' /\ ackPath' \in [Subflows -> Seq(PacketType)]
  <2>1. \A t \in Subflows : AckFits(t) \subseteq AckFits(t)'
    BY <1>2 DEF AckFits, maxSeqNb, ClientKeeps, serverVars, receiveVars
  <2> QED
    BY <1>1, <2>1, AckTaken DEF CloseInv
<1>6. currentSublow' \in Subflows
  BY <1>1 DEF CloseInv, TypeOK
<1>7. TypeOK'
  BY <1>2, <1>4, <1>5, <1>6 DEF CloseInv, TypeOK, ClientPart, ClientKeeps, serverVars,
                                receiveVars
<1>8. StoredWasSent' /\ PassedIsHeld' /\ DataNumbers'
  BY <1>2, StoredSame, PassedSame, NumbersSame
     DEF CloseInv, ClientKeeps, serverVars, receiveVars
<1> QED
  BY <1>4, <1>5, <1>7, <1>8 DEF CloseInv, ClientPart

-----------------------------------------------------------------------------
(* What a data segment does to the server. *)

(* A segment moves the server forward, up to what was sent, and it holds   *)
(* what it held and what its sub-flows have passed.                        *)
DataProgress(s, p) ==
  /\ nextRxSequence' \in 1 .. nextTxSequence
  /\ unOrdered' \subseteq [sub : Subflows, dsn : Nat, ssn : Nat]
  /\ StoredWasSent'
  /\ RxSeqNumber' \in [Subflows -> Nat]
  /\ \A t \in Subflows :
       /\ RxSeqNumber[t] <= RxSeqNumber'[t]
       /\ RxSeqNumber[t] <= maxSeqNb(t) + 1 => RxSeqNumber'[t] <= maxSeqNb(t) + 1
       /\ RxSeqNumber[t] = maxSeqNb(t) + 2 => RxSeqNumber'[t] = RxSeqNumber[t]
  /\ PassedIsHeld'
  /\ ~ (p.dsn = nextRxSequence /\ finSeq[s] \in 1 .. RxSeqNumber'[s] - 1)

(* A data segment that arrives was sent. *)
LEMMA SegmentWasSent ==
  ASSUME CloseInv, NEW s \in Subflows, NEW p \in DataFits(s), p.kind = "DATA"
  PROVE  /\ p.number \in 1 .. Len(sent[s]) /\ p.number \in Nat
         /\ p.dsn = sent[s][p.number]
         /\ p.dsn \in 1 .. nextTxSequence - 1 /\ p.dsn \in Nat
<1>1. /\ p.number \in 1 .. Len(sent[s]) /\ p.dsn = sent[s][p.number]
      /\ p.number \in Nat /\ p.dsn \in Nat
  BY DEF DataFits, maxSeqNb, PacketType
<1> QED
  BY <1>1 DEF CloseInv, DataNumbers, maxSeqNb

(* What is stored was sent, in numbers. *)
LEMMA StoredNumbers ==
  ASSUME CloseInv, NEW e \in unOrdered
  PROVE  /\ e.sub \in Subflows /\ e.ssn \in 1 .. Len(sent[e.sub])
         /\ e.dsn = sent[e.sub][e.ssn] /\ e.dsn \in Nat /\ e.ssn \in Nat
         /\ e.dsn > nextRxSequence /\ e.dsn < nextTxSequence
         /\ e.ssn <= MaxSegments /\ e.dsn <= MaxSegments
<1>1. e \in [sub : Subflows, dsn : Nat, ssn : Nat]
  BY DEF CloseInv, TypeOK
<1>2. e.sub \in Subflows /\ e.dsn \in Nat /\ e.ssn \in Nat
  BY <1>1
<1>3. /\ e.ssn \in 1 .. Len(sent[e.sub]) /\ e.dsn = sent[e.sub][e.ssn]
      /\ e.dsn > nextRxSequence
  BY DEF CloseInv, StoredWasSent, maxSeqNb
<1>4. /\ Len(sent[e.sub]) < nextTxSequence /\ Len(sent[e.sub]) \in Nat
      /\ e.dsn \in 1 .. nextTxSequence - 1
      /\ nextTxSequence + sendingBuffer <= MaxSegments + 1
      /\ nextTxSequence \in Nat /\ sendingBuffer \in Nat /\ MaxSegments \in Nat
  BY <1>2, <1>3, Counters DEF CloseInv, DataNumbers, maxSeqNb
<1> QED
  BY <1>2, <1>3, <1>4

(* How far the server may be, in numbers. *)
LEMMA Bounds ==
  ASSUME CloseInv, NEW t \in Subflows
  PROVE  /\ Len(sent[t]) \in Nat /\ Len(sent[t]) <= MaxSegments
         /\ RxSeqNumber[t] \in 1 .. Len(sent[t]) + 2 /\ RxSeqNumber[t] \in Nat
         /\ nextTxSequence \in Nat /\ nextTxSequence <= MaxSegments + 1
         /\ nextRxSequence \in 1 .. nextTxSequence /\ nextRxSequence \in Nat
         /\ MaxSegments \in Nat
<1>1. /\ Len(sent[t]) \in Nat /\ nextTxSequence \in Nat /\ sendingBuffer \in Nat
      /\ RxSeqNumber[t] \in Nat /\ highestAck[t] \in Nat /\ nextRxSequence \in Nat
      /\ MaxSegments \in Nat
  BY Counters DEF CloseInv, maxSeqNb
<1>2. /\ Len(sent[t]) < nextTxSequence
      /\ nextTxSequence + sendingBuffer <= MaxSegments + 1
      /\ nextRxSequence \in 1 .. nextTxSequence
      /\ highestAck[t] < RxSeqNumber[t] /\ RxSeqNumber[t] <= Len(sent[t]) + 2
  BY DEF CloseInv, DataNumbers, Progress, maxSeqNb
<1> QED
  BY <1>1, <1>2

(* A segment in order moves the data on, over what is stored behind it.    *)
LEMMA NextIsAhead ==
  ASSUME CloseInv, NEW s \in Subflows, NEW p, InOrder(s, p)
  PROVE  /\ nextRxSequence' \in nextRxSequence + 1 .. MaxSegments + 2
         /\ nextRxSequence' \notin {e.dsn : e \in unOrdered}
         /\ \A j \in nextRxSequence + 1 .. nextRxSequence' - 1 :
              j \in {e.dsn : e \in unOrdered}
<1> DEFINE dsns == {e.dsn : e \in unOrdered}
           N    == nextRxSequence'
<1>1. MaxSegments + 2 \notin dsns
  <2> SUFFICES ASSUME NEW e \in unOrdered PROVE e.dsn # MaxSegments + 2
    OBVIOUS
  <2> QED
    BY StoredNumbers, Bounds
<1>2. nextRxSequence + 1 \in Nat /\ nextRxSequence + 1 <= MaxSegments + 2
  BY Bounds
<1>3. N = FirstFree(nextRxSequence + 1, dsns)
  BY DEF InOrder
<1> HIDE DEF dsns, N
<1>4. /\ N \in nextRxSequence + 1 .. MaxSegments + 2
      /\ N \notin dsns
      /\ \A j \in nextRxSequence + 1 .. N - 1 : j \in dsns
  BY <1>1, <1>2, <1>3, FirstFreeExists
<1> QED
  BY <1>4 DEF dsns, N

LEMMA InOrderProgress ==
  ASSUME CloseInv, NEW s \in Subflows, NEW p \in DataFits(s), p.kind = "DATA",
         InOrder(s, p), UNCHANGED sent
  PROVE  DataProgress(s, p)
<1> DEFINE dsns == {e.dsn : e \in unOrdered}
           N    == nextRxSequence'
<1>1. /\ p.number \in 1 .. Len(sent[s]) /\ p.number \in Nat
      /\ p.dsn = sent[s][p.number] /\ p.dsn \in 1 .. nextTxSequence - 1
      /\ p.number = RxSeqNumber[s] /\ p.dsn = nextRxSequence
  BY SegmentWasSent DEF InOrder
<1>2. /\ N \in nextRxSequence + 1 .. MaxSegments + 2
      /\ N \notin dsns
      /\ \A j \in nextRxSequence + 1 .. N - 1 : j \in dsns
  BY NextIsAhead
<1>3. \A j \in dsns : j \in Nat /\ j < nextTxSequence /\ j > nextRxSequence
  BY StoredNumbers
<1>4. N \in Nat /\ N > nextRxSequence /\ N <= nextTxSequence /\ N >= 1
  <2> HIDE DEF dsns, N
  <2>1. N \in Nat /\ N > nextRxSequence /\ N >= 1
    BY <1>2, Bounds
  <2>2. ASSUME N > nextTxSequence PROVE FALSE
    <3>1. CASE N = nextRxSequence + 1
      BY <1>1, <2>2, <3>1, Bounds
    <3>2. CASE N # nextRxSequence + 1
      <4>1. N - 1 \in nextRxSequence + 1 .. N - 1
        BY <1>2, <3>2, Bounds
      <4>2. N - 1 < nextTxSequence
        BY <1>2, <1>3, <4>1
      <4> QED
        BY <2>1, <2>2, <4>2, Bounds
    <3> QED
      BY <3>1, <3>2
  <2> QED
    BY <2>1, <2>2, Bounds
<1>5. unOrdered' = {e \in unOrdered : e.dsn >= N}
  BY DEF InOrder
<1>6. StoredWasSent'
  <2> SUFFICES ASSUME NEW e \in unOrdered'
               PROVE  /\ e.ssn \in 1 .. Len(sent[e.sub])
                      /\ e.dsn = sent[e.sub][e.ssn]
                      /\ e.dsn > N
    BY DEF StoredWasSent, maxSeqNb
  <2>1. e \in unOrdered /\ e.dsn >= N /\ e.dsn # N
    BY <1>2, <1>5
  <2> HIDE DEF N
  <2> QED
    BY <1>4, <2>1, StoredNumbers
<1>7. \A t \in Subflows : \A n \in 1 .. Len(sent[t]) : Holds(t, n) => Holds(t, n)'
  <2> SUFFICES ASSUME NEW t \in Subflows, NEW n \in 1 .. Len(sent[t]), Holds(t, n)
               PROVE  Holds(t, n)'
    OBVIOUS
  <2>1. sent[t][n] \in Nat
    BY Counters DEF CloseInv
  <2>2. CASE sent[t][n] < nextRxSequence
    BY <1>4, <2>1, <2>2, Bounds DEF Holds
  <2>3. CASE \E e \in unOrdered : e.dsn = sent[t][n]
    <3>1. PICK e \in unOrdered : e.dsn = sent[t][n]
      BY <2>3
    <3>2. e.dsn >= N \/ sent[t][n] < N
      BY <1>4, <2>1, <3>1
    <3> QED
      BY <1>5, <3>1, <3>2 DEF Holds
  <2> QED
    BY <2>2, <2>3 DEF Holds
<1>8. Holds(s, p.number)'
  BY <1>1, <1>4, Bounds DEF Holds
<1>9. ASSUME NEW t \in Subflows
      PROVE  /\ RxSeqNumber'[t] \in Nat
             /\ RxSeqNumber[t] <= RxSeqNumber'[t]
             /\ RxSeqNumber[t] <= Len(sent[t]) + 1 => RxSeqNumber'[t] <= Len(sent[t]) + 1
             /\ RxSeqNumber[t] = Len(sent[t]) + 2 => RxSeqNumber'[t] = RxSeqNumber[t]
             /\ \A n \in 1 .. Len(sent[t]) :
                  n >= RxSeqNumber[t] /\ n < RxSeqNumber'[t] => Holds(t, n)'
  <2> DEFINE from == IF t = s THEN RxSeqNumber[t] + 1 ELSE RxSeqNumber[t]
             R    == RxSeqNumber'[t]
  <2>1. R = FirstFree(from, StoredOn(t))
    BY DEF InOrder
  <2>2. /\ from \in Nat /\ from <= Len(sent[t]) + 2 /\ from >= RxSeqNumber[t]
        /\ RxSeqNumber[t] <= Len(sent[t]) + 1 => from <= Len(sent[t]) + 1
        /\ RxSeqNumber[t] = Len(sent[t]) + 2 => from = RxSeqNumber[t]
    <3>1. /\ RxSeqNumber[t] \in Nat /\ Len(sent[t]) \in Nat
          /\ RxSeqNumber[t] <= Len(sent[t]) + 2
          /\ t = s => RxSeqNumber[t] <= Len(sent[t])
      BY <1>1, Bounds
    <3>2. CASE t = s
      BY <3>1, <3>2
    <3>3. CASE t # s
      BY <3>1, <3>3
    <3> QED
      BY <3>2, <3>3
  <2>3. \A j \in StoredOn(t) :
          j \in 1 .. Len(sent[t]) /\ j <= MaxSegments /\ Holds(t, j)
    <3> SUFFICES ASSUME NEW e \in unOrdered, e.sub = t
                 PROVE  /\ e.ssn \in 1 .. Len(sent[t]) /\ e.ssn <= MaxSegments
                        /\ Holds(t, e.ssn)
      BY DEF StoredOn
    <3> QED
      BY StoredNumbers DEF Holds
  <2>4. /\ R \in from .. MaxSegments + 2
        /\ \A j \in from .. R - 1 : j \in StoredOn(t)
    <3>1. MaxSegments + 2 \notin StoredOn(t)
      BY <2>3, Bounds
    <3>2. from <= MaxSegments + 2
      <4> HIDE DEF from
      <4> QED
        BY <2>2, Bounds
    <3> HIDE DEF from, R
    <3> QED
      BY <2>1, <2>2, <3>1, <3>2, FirstFreeExists
  <2>5. R = from \/ R <= Len(sent[t]) + 1
    <3> HIDE DEF from, R
    <3>1. ASSUME R # from PROVE R - 1 \in from .. R - 1
      BY <2>2, <2>4, <3>1, Bounds
    <3>2. ASSUME R # from PROVE R - 1 \in 1 .. Len(sent[t])
      BY <2>3, <2>4, <3>1, <3>2
    <3> QED
      BY <2>2, <2>4, <3>2, Bounds
  <2>6. ASSUME RxSeqNumber[t] = Len(sent[t]) + 2, R # from PROVE FALSE
    <3>1. from \in from .. R - 1
      <4> HIDE DEF from, R
      <4> QED
        BY <2>2, <2>4, <2>6, Bounds
    <3>2. from \in 1 .. Len(sent[t])
      BY <2>3, <2>4, <3>1
    <3> HIDE DEF from, R
    <3> QED
      BY <2>2, <2>6, <3>2, Bounds
  <2>7. ASSUME NEW n \in 1 .. Len(sent[t]), n >= RxSeqNumber[t], n < R
        PROVE  Holds(t, n)'
    <3>1. CASE t = s /\ n = RxSeqNumber[s]
      BY <1>1, <1>8, <3>1
    <3>2. CASE ~ (t = s /\ n = RxSeqNumber[s])
      <4>1. n >= from
        BY <2>7, <3>2, Bounds
      <4>2. n \in from .. R - 1
        <5> HIDE DEF from, R
        <5> QED
          BY <2>2, <2>4, <2>7, <4>1, Bounds
      <4> QED
        BY <1>7, <2>3, <2>4, <4>2
    <3> QED
      BY <3>1, <3>2
  <2>8. R \in Nat /\ R >= from
    <3> HIDE DEF from, R
    <3> QED
      BY <2>2, <2>4, Bounds
  <2> HIDE DEF from
  <2>9. RxSeqNumber[t] <= R
    BY <2>2, <2>8, Bounds
  <2> QED
    BY <2>2, <2>5, <2>6, <2>7, <2>8, <2>9, Bounds
<1>10. PassedIsHeld'
  <2> SUFFICES ASSUME NEW t \in Subflows, NEW n \in 1 .. Len(sent[t]), n < RxSeqNumber'[t]
               PROVE  Holds(t, n)'
    BY DEF PassedIsHeld, maxSeqNb
  <2>1. CASE n < RxSeqNumber[t]
    <3>1. Holds(t, n)
      BY <2>1 DEF CloseInv, PassedIsHeld, maxSeqNb
    <3> QED
      BY <1>7, <3>1
  <2>2. CASE ~ n < RxSeqNumber[t]
    BY <1>9, <2>2, Bounds
  <2> QED
    BY <2>1, <2>2
<1>11. ~ finSeq[s] \in 1 .. RxSeqNumber'[s] - 1
  <2>1. finSeq[s] # 0 => finSeq[s] = Len(sent[s]) + 1
    BY DEF CloseInv, Progress, maxSeqNb
  <2>2. RxSeqNumber'[s] <= Len(sent[s]) + 1 /\ RxSeqNumber'[s] \in Nat
    BY <1>1, <1>9, Bounds
  <2> QED
    BY <2>1, <2>2, Bounds
<1>12. RxSeqNumber' \in [Subflows -> Nat]
  <2>1. RxSeqNumber' = [t \in Subflows |-> RxSeqNumber'[t]]
    BY DEF InOrder
  <2> QED
    BY <1>9, <2>1
<1>13. unOrdered' \subseteq [sub : Subflows, dsn : Nat, ssn : Nat]
  BY <1>5 DEF CloseInv, TypeOK
<1>14. N \in 1 .. nextTxSequence
  <2> HIDE DEF N
  <2> QED
    BY <1>4, Bounds
<1>15. \A t \in Subflows :
         /\ RxSeqNumber[t] <= RxSeqNumber'[t]
         /\ RxSeqNumber[t] <= maxSeqNb(t) + 1 => RxSeqNumber'[t] <= maxSeqNb(t) + 1
         /\ RxSeqNumber[t] = maxSeqNb(t) + 2 => RxSeqNumber'[t] = RxSeqNumber[t]
  BY <1>9 DEF maxSeqNb
<1> QED
  BY <1>6, <1>10, <1>11, <1>12, <1>13, <1>14, <1>15 DEF DataProgress

LEMMA OutOfOrderProgress ==
  ASSUME CloseInv, NEW s \in Subflows, NEW p \in DataFits(s), p.kind = "DATA",
         OutOfOrder(s, p), UNCHANGED sent
  PROVE  DataProgress(s, p)
<1>1. /\ p.number \in 1 .. Len(sent[s]) /\ p.number \in Nat
      /\ p.dsn = sent[s][p.number] /\ p.dsn \in Nat
      /\ p.number >= RxSeqNumber[s] /\ p.dsn > nextRxSequence
      /\ UNCHANGED nextRxSequence
  BY SegmentWasSent DEF OutOfOrder
<1>2. /\ Entry(s, p) \in [sub : Subflows, dsn : Nat, ssn : Nat]
      /\ Entry(s, p).sub = s /\ Entry(s, p).dsn = p.dsn /\ Entry(s, p).ssn = p.number
  BY <1>1 DEF Entry
<1>3. /\ unOrdered \subseteq unOrdered'
      /\ \A e \in unOrdered' : e \in unOrdered \/ e = Entry(s, p)
      /\ \E e \in unOrdered' : e.dsn = p.dsn
  <2>1. CASE IsStored(p)
    BY <2>1 DEF OutOfOrder, IsStored
  <2>2. CASE ~ IsStored(p)
    BY <1>2, <2>2 DEF OutOfOrder
  <2> QED
    BY <2>1, <2>2
<1>4. \/ UNCHANGED RxSeqNumber
      \/ /\ p.number = RxSeqNumber[s]
         /\ RxSeqNumber' = [RxSeqNumber EXCEPT ![s] = RxSeqNumber[s] + 1]
  BY DEF OutOfOrder
<1>5. RxSeqNumber \in [Subflows -> Nat] /\ RxSeqNumber[s] + 1 \in Nat
  <2>1. RxSeqNumber[s] + 1 \in Nat
    BY Bounds
  <2> QED
    BY <2>1 DEF CloseInv, TypeOK
<1>6. \A t \in Subflows :
        \/ RxSeqNumber'[t] = RxSeqNumber[t]
        \/ t = s /\ p.number = RxSeqNumber[s] /\ RxSeqNumber'[s] = RxSeqNumber[s] + 1
  BY <1>4, <1>5
<1>7. RxSeqNumber' \in [Subflows -> Nat]
  BY <1>4, <1>5
<1>8. unOrdered' \subseteq [sub : Subflows, dsn : Nat, ssn : Nat]
  BY <1>2, <1>3 DEF CloseInv, TypeOK
<1>9. StoredWasSent'
  <2> SUFFICES ASSUME NEW e \in unOrdered'
               PROVE  /\ e.ssn \in 1 .. Len(sent[e.sub])
                      /\ e.dsn = sent[e.sub][e.ssn]
                      /\ e.dsn > nextRxSequence
    BY <1>1 DEF StoredWasSent, maxSeqNb
  <2>1. CASE e \in unOrdered
    BY <2>1, StoredNumbers
  <2>2. CASE e = Entry(s, p)
    BY <1>1, <1>2, <2>2
  <2> QED
    BY <1>3, <2>1, <2>2
<1>10. \A t \in Subflows : \A n \in 1 .. Len(sent[t]) : Holds(t, n) => Holds(t, n)'
  BY <1>1, <1>3 DEF Holds
<1>11. PassedIsHeld'
  <2> SUFFICES ASSUME NEW t \in Subflows, NEW n \in 1 .. Len(sent[t]), n < RxSeqNumber'[t]
               PROVE  Holds(t, n)'
    BY DEF PassedIsHeld, maxSeqNb
  <2>1. CASE n < RxSeqNumber[t]
    <3>1. Holds(t, n)
      BY <2>1 DEF CloseInv, PassedIsHeld, maxSeqNb
    <3> QED
      BY <1>10, <3>1
  <2>2. CASE ~ n < RxSeqNumber[t]
    <3>1. t = s /\ n = p.number
      BY <1>6, <2>2, Bounds
    <3> QED
      BY <1>1, <1>3, <3>1 DEF Holds
  <2> QED
    BY <2>1, <2>2
<1>12. \A t \in Subflows :
         /\ RxSeqNumber[t] <= RxSeqNumber'[t]
         /\ RxSeqNumber[t] <= maxSeqNb(t) + 1 => RxSeqNumber'[t] <= maxSeqNb(t) + 1
         /\ RxSeqNumber[t] = maxSeqNb(t) + 2 => RxSeqNumber'[t] = RxSeqNumber[t]
  <2> SUFFICES ASSUME NEW t \in Subflows
               PROVE  /\ RxSeqNumber[t] <= RxSeqNumber'[t]
                      /\ RxSeqNumber[t] <= Len(sent[t]) + 1
                           => RxSeqNumber'[t] <= Len(sent[t]) + 1
                      /\ RxSeqNumber[t] = Len(sent[t]) + 2
                           => RxSeqNumber'[t] = RxSeqNumber[t]
    BY DEF maxSeqNb
  <2>1. CASE RxSeqNumber'[t] = RxSeqNumber[t]
    BY <2>1, Bounds
  <2>2. CASE t = s /\ p.number = RxSeqNumber[s] /\ RxSeqNumber'[s] = RxSeqNumber[s] + 1
    BY <1>1, <2>2, Bounds
  <2> QED
    BY <1>6, <2>1, <2>2
<1>13. nextRxSequence' \in 1 .. nextTxSequence /\ p.dsn # nextRxSequence
  BY <1>1, Bounds
<1> QED
  BY <1>7, <1>8, <1>9, <1>11, <1>12, <1>13 DEF DataProgress

LEMMA DuplicateProgress ==
  ASSUME CloseInv, NEW s \in Subflows, NEW p \in DataFits(s), p.kind = "DATA",
         Duplicate(s, p), UNCHANGED sent
  PROVE  DataProgress(s, p)
<1>1. /\ p.number \in 1 .. Len(sent[s]) /\ p.dsn = sent[s][p.number]
      /\ p.number < RxSeqNumber[s] /\ p.dsn \in Nat
      /\ UNCHANGED <<RxSeqNumber, nextRxSequence, unOrdered>>
  BY SegmentWasSent DEF Duplicate
<1>2. Holds(s, p.number)
  BY <1>1 DEF CloseInv, PassedIsHeld, maxSeqNb
<1>3. p.dsn # nextRxSequence
  <2>1. CASE sent[s][p.number] < nextRxSequence
    BY <1>1, <2>1, Bounds
  <2>2. CASE \E e \in unOrdered : e.dsn = sent[s][p.number]
    <3>1. PICK e \in unOrdered : e.dsn = sent[s][p.number]
      BY <2>2
    <3>2. e.dsn > nextRxSequence
      BY StoredNumbers
    <3> QED
      BY <1>1, <3>1, <3>2, Bounds
  <2> QED
    BY <1>2, <2>1, <2>2 DEF Holds
<1>4. StoredWasSent' /\ PassedIsHeld'
  BY <1>1, StoredSame, PassedSame DEF CloseInv
<1>5. /\ nextRxSequence' \in 1 .. nextTxSequence
      /\ unOrdered' \subseteq [sub : Subflows, dsn : Nat, ssn : Nat]
      /\ RxSeqNumber' \in [Subflows -> Nat]
  BY <1>1, Bounds DEF CloseInv, TypeOK
<1>6. \A t \in Subflows : RxSeqNumber[t] <= RxSeqNumber'[t]
  BY <1>1, Bounds
<1> QED
  BY <1>1, <1>3, <1>4, <1>5, <1>6 DEF DataProgress

-----------------------------------------------------------------------------
(* What a packet does to the server. *)

(* The parts of the invariant that a packet to the server can disturb, but *)
(* for its path.                                                           *)
ServerPart ==
  /\ AcksInTransit /\ Progress /\ StoredWasSent /\ PassedIsHeld
  /\ fault = "none"
  /\ ackPath \in [Subflows -> Seq(PacketType)]
  /\ serverState \in [Subflows -> {"ESTABLISHED", "LAST_ACK", "CLOSED"}]
  /\ RxSeqNumber \in [Subflows -> Nat]
  /\ finSeq \in [Subflows -> Nat]
  /\ nextRxSequence \in 1 .. nextTxSequence
  /\ unOrdered \subseteq [sub : Subflows, dsn : Nat, ssn : Nat]
  /\ reset \in BOOLEAN

LEMMA ReceivedDataKeeps ==
  ASSUME CloseInv, NEW s \in Subflows, NEW p \in DataFits(s), ReceivedData(s, p),
         UNCHANGED clientVars
  PROVE  ServerPart' /\ (reset => reset')
<1> USE DEF ReceivedData, clientVars
<1>1. DataProgress(s, p)
  BY InOrderProgress, OutOfOrderProgress, DuplicateProgress
<1>2. /\ TypeOK /\ AcksInTransit
      /\ UNCHANGED <<serverState, finSeq, reset>>
      /\ RxSeqNumber' \in [Subflows -> Nat]
      /\ ackPath' = Send(ackPath, s, Ack(RxSeqNumber'[s]))
  BY <1>1 DEF CloseInv, DataProgress
<1>3. fault' = "none"
  BY <1>1 DEF DataProgress
<1>4. \A t \in Subflows :
        /\ RxSeqNumber[t] <= RxSeqNumber'[t]
        /\ RxSeqNumber[t] <= maxSeqNb(t) + 1 => RxSeqNumber'[t] <= maxSeqNb(t) + 1
        /\ RxSeqNumber[t] = maxSeqNb(t) + 2 => RxSeqNumber'[t] = RxSeqNumber[t]
        /\ RxSeqNumber'[t] \in Nat
  BY <1>1 DEF DataProgress
<1>5. AcksInTransit' /\ ackPath' \in [Subflows -> Seq(PacketType)]
  <2>1. \A t \in Subflows : AckFits(t) \subseteq AckFits(t)'
    <3> SUFFICES ASSUME NEW t \in Subflows PROVE AckFits(t) \subseteq AckFits(t)'
      OBVIOUS
    <3>1. RxSeqNumber[t] \in Nat /\ sent'[t] = sent[t]
      BY Bounds
    <3> QED
      BY <1>4, <3>1 DEF AckFits, maxSeqNb, PacketType
  <2>2. Ack(RxSeqNumber'[s]) \in AckFits(s)'
    <3>1. RxSeqNumber'[s] \in Nat
      BY <1>2
    <3>2. /\ Ack(RxSeqNumber'[s]) \in PacketType
          /\ Ack(RxSeqNumber'[s]).kind = "ACK"
          /\ Ack(RxSeqNumber'[s]).number = RxSeqNumber'[s]
      BY <3>1 DEF Ack, Packet, PacketType
    <3> QED
      BY <3>1, <3>2 DEF AckFits
  <2> QED
    BY <1>2, <2>1, <2>2, AckSent
<1>6. Progress'
  <2> SUFFICES ASSUME NEW t \in Subflows
        PROVE  /\ TxSeqNumber[t] > highestAck[t]
               /\ highestAck[t] < RxSeqNumber'[t]
               /\ RxSeqNumber'[t] <= Len(sent[t]) + 2
               /\ RxSeqNumber'[t] = Len(sent[t]) + 2
                    => clientState[t] # "ESTABLISHED" /\ serverState[t] # "ESTABLISHED"
               /\ (serverState[t] = "LAST_ACK" \/ (serverState[t] = "CLOSED" /\ ~ reset))
                    => RxSeqNumber'[t] = Len(sent[t]) + 2
               /\ finSeq[t] # 0
                    => finSeq[t] = Len(sent[t]) + 1 /\ clientState[t] # "ESTABLISHED"
    BY <1>2 DEF Progress, maxSeqNb
  <2>1. /\ TxSeqNumber[t] > highestAck[t]
        /\ highestAck[t] < RxSeqNumber[t] /\ highestAck[t] \in Nat
        /\ RxSeqNumber[t] <= Len(sent[t]) + 2
        /\ RxSeqNumber[t] = Len(sent[t]) + 2
             => clientState[t] # "ESTABLISHED" /\ serverState[t] # "ESTABLISHED"
        /\ (serverState[t] = "LAST_ACK" \/ (serverState[t] = "CLOSED" /\ ~ reset))
             => RxSeqNumber[t] = Len(sent[t]) + 2
        /\ finSeq[t] # 0
             => finSeq[t] = Len(sent[t]) + 1 /\ clientState[t] # "ESTABLISHED"
    BY Counters DEF CloseInv, Progress, maxSeqNb
  <2>2. /\ RxSeqNumber[t] <= RxSeqNumber'[t]
        /\ RxSeqNumber[t] <= Len(sent[t]) + 1 => RxSeqNumber'[t] <= Len(sent[t]) + 1
        /\ RxSeqNumber[t] = Len(sent[t]) + 2 => RxSeqNumber'[t] = RxSeqNumber[t]
        /\ RxSeqNumber'[t] \in Nat
    BY <1>4 DEF maxSeqNb
  <2>3. RxSeqNumber'[t] = Len(sent[t]) + 2 => RxSeqNumber[t] = Len(sent[t]) + 2
    BY <2>1, <2>2, Bounds
  <2>4. RxSeqNumber'[t] <= Len(sent[t]) + 2 /\ highestAck[t] < RxSeqNumber'[t]
    BY <2>1, <2>2, Bounds
  <2> QED
    BY <2>1, <2>2, <2>3, <2>4
<1>7. /\ nextRxSequence' \in 1 .. nextTxSequence'
      /\ unOrdered' \subseteq [sub : Subflows, dsn : Nat, ssn : Nat]
      /\ StoredWasSent' /\ PassedIsHeld'
  BY <1>1 DEF DataProgress
<1>8. /\ serverState' \in [Subflows -> {"ESTABLISHED", "LAST_ACK", "CLOSED"}]
      /\ finSeq' \in [Subflows -> Nat] /\ reset' \in BOOLEAN
  BY <1>2 DEF TypeOK
<1> HIDE DEF ReceivedData
<1> QED
  BY <1>2, <1>3, <1>5, <1>6, <1>7, <1>8 DEF ServerPart

LEMMA PeerCloseKeeps ==
  ASSUME CloseInv, NEW s \in Subflows, NEW p \in DataFits(s), PeerClose(s, p),
         UNCHANGED clientVars
  PROVE  ServerPart' /\ (reset => reset')
<1> USE DEF PeerClose, clientVars
<1>1. /\ p.number = Len(sent[s]) + 1 /\ clientState[s] # "ESTABLISHED"
      /\ Len(sent[s]) \in Nat /\ p.number \in Nat
  BY Bounds DEF DataFits, maxSeqNb, PacketType
<1>2. /\ RxSeqNumber[s] <= Len(sent[s]) + 1 /\ RxSeqNumber[s] \in Nat
      /\ finSeq[s] \in {0, Len(sent[s]) + 1} /\ highestAck[s] < RxSeqNumber[s]
      /\ highestAck[s] \in Nat
  BY <1>1, Bounds, Counters DEF CloseInv, Progress, maxSeqNb
<1>3. ~ (p.number < RxSeqNumber[s] \/ p.number < finSeq[s])
  BY <1>1, <1>2
<1>4. /\ finSeq' = [finSeq EXCEPT ![s] = p.number]
      /\ UNCHANGED <<fault, nextRxSequence, unOrdered, reset>>
  BY <1>3
<1>5. finSeq' \in [Subflows -> Nat] /\ finSeq'[s] = Len(sent[s]) + 1
      /\ \A t \in Subflows \ {s} : finSeq'[t] = finSeq[t]
  <2>1. finSeq \in [Subflows -> Nat]
    BY DEF CloseInv, TypeOK
  <2> HIDE DEF PeerClose
  <2> QED
    BY <1>1, <1>4, <2>1
<1>6. StoredWasSent'
  BY <1>4, StoredSame DEF CloseInv
<1>7. /\ fault' = "none" /\ reset' = reset /\ reset' \in BOOLEAN
      /\ unOrdered' \subseteq [sub : Subflows, dsn : Nat, ssn : Nat]
      /\ serverState \in [Subflows -> {"ESTABLISHED", "LAST_ACK", "CLOSED"}]
      /\ RxSeqNumber \in [Subflows -> Nat]
      /\ ackPath \in [Subflows -> Seq(PacketType)]
  BY <1>4 DEF CloseInv, TypeOK, ClosedInTime
<1>8. nextRxSequence' \in 1 .. nextTxSequence'
  BY <1>4, Bounds
<1>9. CASE Counts(s, p.number)
  <2>1. /\ RxSeqNumber' = [RxSeqNumber EXCEPT ![s] = Len(sent[s]) + 2]
        /\ serverState' = [serverState EXCEPT ![s] = "LAST_ACK"]
        /\ ackPath' = Send(ackPath, s, FinAck(Len(sent[s]) + 2))
        /\ RxSeqNumber[s] = Len(sent[s]) + 1
    <3>1. p.number + 1 = Len(sent[s]) + 2
      BY <1>1
    <3> QED
      BY <1>1, <1>3, <1>9, <3>1 DEF Counts
  <2>2. /\ RxSeqNumber' \in [Subflows -> Nat] /\ RxSeqNumber'[s] = Len(sent[s]) + 2
        /\ \A t \in Subflows \ {s} : RxSeqNumber'[t] = RxSeqNumber[t]
    <3> HIDE DEF PeerClose
    <3>1. RxSeqNumber \in [Subflows -> Nat] /\ Len(sent[s]) + 2 \in Nat
      BY <1>1, <1>7
    <3> QED
      BY <2>1, <3>1
  <2>3. /\ serverState' \in [Subflows -> {"ESTABLISHED", "LAST_ACK", "CLOSED"}]
        /\ serverState'[s] = "LAST_ACK"
        /\ \A t \in Subflows \ {s} : serverState'[t] = serverState[t]
    BY <2>1 DEF CloseInv, TypeOK
  <2>4. AcksInTransit' /\ ackPath' \in [Subflows -> Seq(PacketType)]
    <3>1. \A t \in Subflows \ {s} : AckFits(t) \subseteq AckFits(t)'
      BY <2>2 DEF AckFits, maxSeqNb
    <3>2. AckFits(s) \subseteq AckFits(s)'
      BY <1>1, <2>1, <2>2 DEF AckFits, maxSeqNb, PacketType
    <3>3. FinAck(Len(sent[s]) + 2) \in AckFits(s)'
      <4>1. Len(sent[s]) + 2 \in Nat
        BY <1>1
      <4>2. /\ FinAck(Len(sent[s]) + 2) \in PacketType
            /\ FinAck(Len(sent[s]) + 2).kind = "FIN_ACK"
            /\ FinAck(Len(sent[s]) + 2).number = Len(sent[s]) + 2
        BY <4>1 DEF FinAck, Packet, PacketType
      <4> QED
        BY <2>2, <4>2 DEF AckFits, maxSeqNb
    <3>4. \A t \in Subflows : AckFits(t) \subseteq AckFits(t)'
      BY <3>1, <3>2
    <3> QED
      BY <2>1, <3>3, <3>4, AckSent DEF CloseInv
  <2>5. PassedIsHeld'
    <3> SUFFICES ASSUME NEW t \in Subflows, NEW n \in 1 .. Len(sent[t]),
                        n < RxSeqNumber'[t]
                 PROVE  Holds(t, n)
      BY <1>4 DEF PassedIsHeld, Holds, maxSeqNb
    <3>1. n < RxSeqNumber[t]
      BY <1>1, <2>1, <2>2
    <3> QED
      BY <3>1 DEF CloseInv, PassedIsHeld, maxSeqNb
  <2>6. Progress'
    <3>1. highestAck[s] < Len(sent[s]) + 2
      BY <1>1, <1>2
    <3> QED
      BY <1>1, <1>4, <1>5, <2>2, <2>3, <3>1 DEF CloseInv, Progress, maxSeqNb
  <2> HIDE DEF PeerClose
  <2> QED
    BY <1>5, <1>6, <1>7, <1>8, <2>2, <2>3, <2>4, <2>5, <2>6 DEF ServerPart
<1>10. CASE ~ Counts(s, p.number)
  <2>1. UNCHANGED <<RxSeqNumber, serverState, ackPath>>
    BY <1>3, <1>10
  <2>2. AcksInTransit' /\ PassedIsHeld'
    BY <1>4, <2>1, AcksSame, PassedSame DEF CloseInv
  <2>3. Progress'
    BY <1>1, <1>4, <1>5, <2>1 DEF CloseInv, Progress, maxSeqNb
  <2> QED
    BY <1>5, <1>6, <1>7, <1>8, <2>1, <2>2, <2>3 DEF ServerPart
<1> QED
  BY <1>9, <1>10

LEMMA RepeatedFinKeeps ==
  ASSUME CloseInv, NEW s \in Subflows, NEW p, RepeatedFin(s, p), UNCHANGED clientVars
  PROVE  ServerPart' /\ (reset => reset')
<1> USE DEF RepeatedFin, clientVars, receiveVars
<1>1. TypeOK /\ RxSeqNumber[s] \in Nat /\ RxSeqNumber[s] = maxSeqNb(s) + 2
  BY Counters DEF CloseInv, Progress
<1>2. AcksInTransit' /\ ackPath' \in [Subflows -> Seq(PacketType)]
  <2>1. \A t \in Subflows : AckFits(t) \subseteq AckFits(t)'
    BY DEF AckFits, maxSeqNb
  <2>2. /\ FinAck(RxSeqNumber[s]) \in PacketType
        /\ FinAck(RxSeqNumber[s]).kind = "FIN_ACK"
        /\ FinAck(RxSeqNumber[s]).number = RxSeqNumber[s]
    BY <1>1 DEF FinAck, Packet, PacketType
  <2>3. FinAck(RxSeqNumber[s]) \in AckFits(s)'
    BY <1>1, <2>2 DEF AckFits, maxSeqNb
  <2> QED
    BY <1>1, <2>1, <2>3, AckSent DEF CloseInv
<1>3. Progress' /\ StoredWasSent' /\ PassedIsHeld'
  BY ProgressSame, StoredSame, PassedSame DEF CloseInv
<1>4. nextRxSequence' \in 1 .. nextTxSequence'
  BY Bounds
<1> QED
  BY <1>1, <1>2, <1>3, <1>4 DEF ServerPart, CloseInv, TypeOK, ClosedInTime

LEMMA LastAckKeeps ==
  ASSUME CloseInv, NEW s \in Subflows, NEW p, LastAck(s, p), UNCHANGED clientVars
  PROVE  ServerPart' /\ (reset => reset')
<1> USE DEF LastAck, clientVars, receiveVars
<1>1. /\ serverState' \in [Subflows -> {"ESTABLISHED", "LAST_ACK", "CLOSED"}]
      /\ serverState'[s] \in {"LAST_ACK", "CLOSED"}
      /\ \A t \in Subflows \ {s} : serverState'[t] = serverState[t]
  BY DEF CloseInv, TypeOK
<1>2. Progress'
  BY <1>1 DEF CloseInv, Progress, maxSeqNb
<1>3. AcksInTransit' /\ StoredWasSent' /\ PassedIsHeld'
  BY AcksSame, StoredSame, PassedSame DEF CloseInv
<1>4. nextRxSequence' \in 1 .. nextTxSequence'
  BY Bounds
<1> QED
  BY <1>1, <1>2, <1>3, <1>4 DEF ServerPart, CloseInv, TypeOK, ClosedInTime

LEMMA ServerResetKeeps ==
  ASSUME CloseInv, NEW s \in Subflows, NEW p, ServerReset(s, p), UNCHANGED clientVars
  PROVE  ServerPart' /\ (reset => reset')
<1> USE DEF ServerReset, clientVars, receiveVars
<1>1. \A t \in Subflows : serverState'[t] = "CLOSED"
  OBVIOUS
<1>2. Progress'
  BY <1>1 DEF CloseInv, Progress, maxSeqNb
<1>3. AcksInTransit' /\ StoredWasSent' /\ PassedIsHeld'
  BY AcksSame, StoredSame, PassedSame DEF CloseInv
<1>4. nextRxSequence' \in 1 .. nextTxSequence'
  BY Bounds
<1> QED
  BY <1>2, <1>3, <1>4 DEF ServerPart, CloseInv, TypeOK, ClosedInTime

LEMMA ServerRefusesKeeps ==
  ASSUME CloseInv, NEW s \in Subflows, NEW p, ServerRefuses(s, p), UNCHANGED clientVars
  PROVE  ServerPart' /\ (reset => reset')
<1> USE DEF ServerRefuses, clientVars, serverVars, receiveVars
<1>1. AcksInTransit' /\ ackPath' \in [Subflows -> Seq(PacketType)]
  <2>1. CASE ackPath' = Send(ackPath, s, Rst)
    <3>1. \A t \in Subflows : AckFits(t) \subseteq AckFits(t)'
      BY DEF AckFits, maxSeqNb
    <3>2. Rst \in AckFits(s)'
      BY DEF Rst, Packet, PacketType, AckFits
    <3> QED
      BY <2>1, <3>1, <3>2, AckSent DEF CloseInv
  <2>2. CASE UNCHANGED ackPath
    BY <2>2, AcksSame DEF CloseInv, TypeOK
  <2> QED
    BY <2>1, <2>2
<1>2. Progress' /\ StoredWasSent' /\ PassedIsHeld'
  BY ProgressSame, StoredSame, PassedSame DEF CloseInv
<1>3. nextRxSequence' \in 1 .. nextTxSequence'
  BY Bounds
<1> QED
  BY <1>1, <1>2, <1>3 DEF ServerPart, CloseInv, TypeOK, ClosedInTime

LEMMA ToServerKeeps ==
  ASSUME CloseInv, NEW s \in Subflows, NEW n, ToServer(s, n) PROVE CloseInv'
<1>1. PICK i \in Leaving(dataPath[s]) :
        /\ dataPath' = Take(dataPath, s, i)
        /\ \/ ReceivedData(s, dataPath[s][i])
           \/ PeerClose(s, dataPath[s][i])
           \/ RepeatedFin(s, dataPath[s][i])
           \/ LastAck(s, dataPath[s][i])
           \/ ServerReset(s, dataPath[s][i])
           \/ ServerRefuses(s, dataPath[s][i])
        /\ UNCHANGED clientVars
  BY DEF ToServer
<1>2. dataPath[s][i] \in DataFits(s)
  BY DataTaken DEF CloseInv
<1>3. ServerPart' /\ (reset => reset')
  BY <1>1, <1>2, ReceivedDataKeeps, PeerCloseKeeps, RepeatedFinKeeps, LastAckKeeps,
     ServerResetKeeps, ServerRefusesKeeps
<1> USE DEF clientVars
<1>4. DataInTransit' /\ dataPath' \in [Subflows -> Seq(PacketType)]
  <2>1. \A t \in Subflows : DataFits(t) \subseteq DataFits(t)'
    BY <1>1, DataFitsStays
  <2> QED
    BY <1>1, <2>1, DataTaken DEF CloseInv
<1>5. TypeOK'
  <2>1. nextRxSequence' \in Nat
    BY <1>3 DEF ServerPart
  <2> QED
    BY <1>1, <1>3, <1>4, <2>1 DEF CloseInv, TypeOK, ServerPart
<1>6. DataNumbers'
  BY <1>1, <1>3 DEF CloseInv, DataNumbers, ServerPart, maxSeqNb
<1>7. ClosedInTime'
  BY <1>1, <1>3 DEF CloseInv, ClosedInTime, ClientOpen, ServerPart
<1>8. CloseIsTimed' /\ FinTimed'
  BY <1>1, TimedSame DEF CloseInv
<1> QED
  BY <1>3, <1>4, <1>5, <1>6, <1>7, <1>8 DEF CloseInv, ServerPart

LEMMA StutterKeeps ==
  ASSUME CloseInv, UNCHANGED vars PROVE CloseInv'
<1> USE DEF vars, clientVars, serverVars, receiveVars, pathVars
<1>1. TypeOK'
  BY DEF CloseInv, TypeOK
<1>2. DataInTransit' /\ AcksInTransit' /\ Progress'
  BY DataSame, AcksSame, ProgressSame DEF CloseInv
<1>3. StoredWasSent' /\ PassedIsHeld' /\ DataNumbers'
  BY StoredSame, PassedSame, NumbersSame DEF CloseInv
<1>4. ClosedInTime' /\ CloseIsTimed' /\ FinTimed'
  BY ClosedSame, TimedSame DEF CloseInv
<1> QED
  BY <1>1, <1>2, <1>3, <1>4 DEF CloseInv

-----------------------------------------------------------------------------
(* What follows from the invariant. *)

(* The inductive invariant holds in every reachable state: what is under   *)
(* way fits, the ends agree on the data and on the place of the FIN.       *)
THEOREM CloseInvariance == Spec => []CloseInv
<1>1. Init => CloseInv
  BY InitHolds
<1>2. CloseInv /\ [Next]_vars => CloseInv'
  <2> SUFFICES ASSUME CloseInv, [Next]_vars PROVE CloseInv'
    OBVIOUS
  <2>1. CASE ClientStep
    BY <2>1, FillBufferKeeps, CloseKeeps, CloseMultipathConnectionKeeps,
       SendDataPacketKeeps, SendAgainKeeps, ScheduledDoCloseKeeps, IdleTimeoutKeeps,
       RetransmitDataKeeps, RetransmitFinKeeps, ToClientKeeps DEF ClientStep
  <2>2. CASE ServerStep
    BY <2>2, ToServerKeeps, LastAckTimeoutKeeps DEF ServerStep
  <2>3. CASE Loss
    BY <2>3, LossKeeps
  <2>4. CASE UNCHANGED vars
    BY <2>4, StutterKeeps
  <2> QED
    BY <2>1, <2>2, <2>3, <2>4 DEF Next, Done
<1> QED
  BY <1>1, <1>2, PTL DEF Spec

(* Every variable of the close keeps its type. *)
THEOREM CloseTypes == Spec => []TypeOK
<1>1. CloseInv => TypeOK
  BY DEF CloseInv
<1> QED
  BY <1>1, CloseInvariance, PTL

(* The server counts a FIN only when it holds all that was sent on the     *)
(* sub-flow, for any losses, reordering and spurious time-outs.            *)
THEOREM FinsFollowData == Spec => []FinFollowsData
<1>1. CloseInv => FinFollowsData
  <2> SUFFICES ASSUME CloseInv, NEW s \in Subflows,
                      serverState[s] # "ESTABLISHED", ~ reset
               PROVE  /\ clientState[s] # "ESTABLISHED"
                      /\ \A n \in 1 .. Len(sent[s]) : Holds(s, n)
    BY DEF FinFollowsData, maxSeqNb
  <2>1. RxSeqNumber[s] = Len(sent[s]) + 2 /\ clientState[s] # "ESTABLISHED"
    BY DEF CloseInv, Progress, TypeOK, maxSeqNb
  <2>2. \A n \in 1 .. Len(sent[s]) : n < RxSeqNumber[s]
    BY <2>1, Bounds
  <2> QED
    BY <2>1, <2>2 DEF CloseInv, PassedIsHeld, maxSeqNb
<1> QED
  BY <1>1, CloseInvariance, PTL

(* A server that is closed, and not by a RST, holds the whole stream.      *)
LEMMA EndIsWhole ==
  ASSUME CloseInv, ~ ServerOpen, ~ reset
  PROVE  /\ nextRxSequence = nextTxSequence
         /\ sendingBuffer = 0 /\ unOrdered = {} /\ closes > 0
<1>1. \A t \in Subflows : RxSeqNumber[t] = Len(sent[t]) + 2 /\ clientState[t] # "ESTABLISHED"
  BY DEF ServerOpen, CloseInv, Progress, maxSeqNb
<1>2. 0 \in Subflows
  BY PathAssumption DEF Subflows
<1>3. sendingBuffer = 0 /\ closes > 0
  BY <1>1, <1>2 DEF CloseInv, ClosedInTime
<1>4. nextRxSequence = nextTxSequence
  <2> SUFFICES ASSUME nextRxSequence # nextTxSequence PROVE FALSE
    OBVIOUS
  <2>1. nextRxSequence \in 1 .. nextTxSequence - 1
    BY <1>2, Bounds
  <2>2. PICK t \in Subflows : \E n \in 1 .. Len(sent[t]) : sent[t][n] = nextRxSequence
    BY <2>1 DEF CloseInv, DataNumbers, maxSeqNb
  <2>3. PICK n \in 1 .. Len(sent[t]) : sent[t][n] = nextRxSequence
    BY <2>2
  <2>4. n < RxSeqNumber[t]
    BY <1>1, Bounds
  <2>5. Holds(t, n)
    BY <2>4 DEF CloseInv, PassedIsHeld, maxSeqNb
  <2>6. PICK e \in unOrdered : e.dsn = nextRxSequence
    BY <2>3, <2>5, Bounds DEF Holds
  <2> QED
    BY <2>6, StoredNumbers, Bounds
<1>5. unOrdered = {}
  <2> SUFFICES ASSUME NEW e \in unOrdered PROVE FALSE
    OBVIOUS
  <2> QED
    BY <1>2, <1>4, StoredNumbers, Bounds
<1> QED
  BY <1>3, <1>4, <1>5

(* When the server is closed, and not by a RST, the sink has everything    *)
(* that the application wrote.                                             *)
THEOREM NothingIsCutOff == Spec => []NothingCutOff
<1>1. CloseInv => NothingCutOff
  BY EndIsWhole DEF NothingCutOff
<1> QED
  BY <1>1, CloseInvariance, PTL

(* No assertion or fatal error of the close is reached. *)
THEOREM AssertionsAreMet == Spec => []CloseMeetsAssertions
<1>1. CloseInv => CloseMeetsAssertions
  <2> SUFFICES ASSUME CloseInv PROVE CloseMeetsAssertions
    OBVIOUS
  <2>1. fault = "none" /\ \A s \in Subflows : clientState[s] # "CLOSING"
    BY DEF CloseInv, ClosedInTime
  <2>2. ASSUME NEW s \in Subflows, clientState[s] = "ESTABLISHED",
               NEW i \in DOMAIN ackPath[s]
        PROVE  ackPath[s][i].kind # "FIN_ACK"
    <3>1. ackPath[s][i] \in AckFits(s)
      BY DEF CloseInv, AcksInTransit
    <3> QED
      BY <2>2, <3>1 DEF AckFits, CloseInv, Progress
  <2> QED
    BY <2>1, <2>2 DEF CloseMeetsAssertions
<1> QED
  BY <1>1, CloseInvariance, PTL

(* Data that is outstanding and a FIN that is not answered have a timer. *)
THEOREM CloseHasTimer == Spec => []CloseIsTimed
<1>1. CloseInv => CloseIsTimed
  BY DEF CloseInv
<1> QED
  BY <1>1, CloseInvariance, PTL

(* The FIN of a sub-flow never changes its place. *)
THEOREM FinPlaceIsKept == Spec => FinKeepsPlace
<1>1. CloseInv /\ [Next]_vars
        => [\A s \in Subflows : finSeq[s] # 0 => finSeq'[s] = finSeq[s]]_vars
  <2> SUFFICES ASSUME CloseInv, [Next]_vars, NEW s \in Subflows, finSeq[s] # 0
               PROVE  finSeq'[s] = finSeq[s]
    OBVIOUS
  <2> USE DEF serverVars, receiveVars
  <2>1. CASE ClientStep
    <3>1. UNCHANGED serverVars
      BY <2>1 DEF ClientStep, FillBuffer, Close, CloseMultipathConnection, SendDataPacket,
                  SendAgain, ScheduledDoClose, IdleTimeout, RetransmitData,
                  RetransmitFin, ToClient
    <3> QED
      BY <3>1
  <2>2. ASSUME NEW t \in Subflows, NEW n, ToServer(t, n) PROVE finSeq'[s] = finSeq[s]
    <3>1. PICK i \in Leaving(dataPath[t]) :
            \/ UNCHANGED finSeq
            \/ PeerClose(t, dataPath[t][i])
      BY <2>2 DEF ToServer, ReceivedData, RepeatedFin, LastAck, ServerReset, ServerRefuses
    <3>2. CASE PeerClose(t, dataPath[t][i])
      <4>1. dataPath[t][i] \in DataFits(t)
        BY DataTaken DEF CloseInv
      <4>2. dataPath[t][i].number = maxSeqNb(t) + 1
        BY <3>2, <4>1 DEF PeerClose, DataFits
      <4>3. UNCHANGED finSeq \/ finSeq' = [finSeq EXCEPT ![t] = maxSeqNb(t) + 1]
        BY <3>2, <4>2 DEF PeerClose
      <4>4. finSeq[s] = maxSeqNb(s) + 1
        BY DEF CloseInv, Progress
      <4>5. finSeq \in [Subflows -> Nat]
        BY DEF CloseInv, TypeOK
      <4> QED
        BY <4>3, <4>4, <4>5
    <3> QED
      BY <3>1, <3>2
  <2>3. CASE Loss \/ UNCHANGED vars
    BY <2>3 DEF Loss, vars
  <2>4. ASSUME NEW t \in Subflows, LastAckTimeout(t) PROVE finSeq'[s] = finSeq[s]
    BY <2>4 DEF LastAckTimeout
  <2> QED
    BY <2>1, <2>2, <2>3, <2>4 DEF Next, ServerStep, Done
<1> QED
  BY <1>1, CloseInvariance, PTL DEF Spec, FinKeepsPlace
-----------------------------------------------------------------------------
(* The close implements MpTcpEndedStream. *)

(* What a step does to the stream. *)
Written == nextTxSequence - 1 + sendingBuffer
Delivered == [d \in 1 .. nextRxSequence - 1 |-> d]

StreamStays == UNCHANGED <<nextRxSequence, closes>> /\ Written' = Written

(* What EndIsWhole says of the stream. *)
WholeAtEnd ==
  ~ ServerOpen /\ ~ reset
    => nextRxSequence = nextTxSequence /\ sendingBuffer = 0 /\ closes > 0

LEMMA StreamNumbers ==
  ASSUME CloseInv
  PROVE  /\ Written \in Nat /\ nextRxSequence \in Nat
         /\ nextTxSequence \in Nat /\ sendingBuffer \in Nat /\ closes \in Nat
         /\ nextRxSequence - 1 \in 0 .. Written
         /\ Written <= MaxSegments /\ MaxSegments \in Nat
<1>1. 0 \in Subflows
  BY PathAssumption DEF Subflows
<1>2. /\ sendingBuffer \in Nat /\ closes \in Nat
      /\ nextTxSequence + sendingBuffer <= MaxSegments + 1
  BY DEF CloseInv, TypeOK, DataNumbers
<1>3. /\ nextTxSequence \in Nat /\ nextRxSequence \in 1 .. nextTxSequence
      /\ nextRxSequence \in Nat /\ MaxSegments \in Nat
  BY <1>1, Bounds
<1> QED
  BY <1>2, <1>3 DEF Written

LEMMA DeliveredLength ==
  ASSUME CloseInv PROVE Len(Delivered) = nextRxSequence - 1
<1>1. nextRxSequence - 1 \in Nat
  BY StreamNumbers
<1> QED
  BY <1>1 DEF Delivered

(* A step that leaves the stream alone may end it at the server, but then  *)
(* either everything was delivered or there was a RST.                     *)
LEMMA StreamEnds ==
  ASSUME CloseInv, CloseInv', WholeAtEnd', StreamStays,
         reset => reset', ServerOpen' => ServerOpen
  PROVE  [EndedStream!EndedNext]_<<EndedStream!streamVars, EndedStream!endVars>>
<1>1. /\ UNCHANGED EndedStream!streamVars /\ (closes > 0)' = (closes > 0)
  BY DEF EndedStream!streamVars, StreamStays, Written
<1>2. CASE reset'
  <2>1. reset' = TRUE
    BY <1>2 DEF CloseInv, TypeOK
  <2>2. (~ ServerOpen)' \in {~ ServerOpen, TRUE}
    BY DEF ServerOpen
  <2> QED
    BY <1>1, <2>1, <2>2 DEF EndedStream!Abort, EndedStream!EndedNext
<1>3. CASE ~ reset'
  <2>1. UNCHANGED reset
    BY <1>3 DEF CloseInv, TypeOK
  <2>2. CASE ServerOpen <=> ServerOpen'
    <3>1. UNCHANGED (~ ServerOpen)
      BY <2>2 DEF ServerOpen
    <3> QED
      BY <1>1, <2>1, <3>1 DEF EndedStream!endVars
  <2>3. CASE ServerOpen /\ ~ ServerOpen'
    <3>1. /\ nextRxSequence' = nextTxSequence' /\ sendingBuffer' = 0
          /\ closes' > 0
      BY <1>3, <2>3 DEF WholeAtEnd
    <3>2. nextRxSequence - 1 = Written /\ closes > 0
      BY <3>1, StreamNumbers DEF StreamStays, Written
    <3>3. Len(Delivered) = Written
      BY <3>2, DeliveredLength
    <3>4. (~ ServerOpen)' = TRUE /\ ~ ~ ServerOpen
      BY <2>3 DEF ServerOpen
    <3>5. EndedStream!End
      BY <1>1, <2>1, <3>2, <3>3, <3>4 DEF EndedStream!End, Written, Delivered
    <3> QED
      BY <3>5 DEF EndedStream!EndedNext
  <2> QED
    BY <2>2, <2>3
<1> QED
  BY <1>2, <1>3

LEMMA WriteOrStays ==
  ASSUME CloseInv, CloseInv', FillBuffer
  PROVE  EndedStream!EndedNext
<1>1. /\ closes = 0 /\ Written' = Written + 1
      /\ UNCHANGED <<nextRxSequence, closes, serverState, reset>>
  BY StreamNumbers DEF FillBuffer, Written, serverVars, receiveVars
<1>2. Written' \in Written + 1 .. MaxSegments
  <2>1. Written' <= MaxSegments
    BY StreamNumbers DEF FillBuffer, Written
  <2> QED
    BY <1>1, <2>1, StreamNumbers
<1>3. UNCHANGED EndedStream!endVars /\ ~ (closes > 0)
  BY <1>1 DEF EndedStream!endVars, ServerOpen
<1>4. EndedStream!WriteMore
  BY <1>1, <1>2, <1>3 DEF EndedStream!WriteMore, EndedStream!Write, Written
<1> QED
  BY <1>4 DEF EndedStream!EndedNext

(* Close is the end of writing when it is called first.                    *)
LEMMA CloseShuts ==
  ASSUME CloseInv, Close
  PROVE  [EndedStream!EndedNext]_<<EndedStream!streamVars, EndedStream!endVars>>
<1>1. /\ closes' = closes + 1 /\ closes \in Nat
      /\ UNCHANGED <<nextTxSequence, sendingBuffer, nextRxSequence, serverState, reset>>
  BY StreamNumbers DEF Close, serverVars, receiveVars
<1>2. UNCHANGED EndedStream!streamVars /\ UNCHANGED <<~ ServerOpen, reset>>
  BY <1>1 DEF EndedStream!streamVars, ServerOpen
<1>3. (closes > 0)' = TRUE
  BY <1>1
<1>4. CASE closes = 0
  <2>1. ~ (closes > 0)
    BY <1>4
  <2>2. EndedStream!Shut
    BY <1>2, <1>3, <2>1 DEF EndedStream!Shut
  <2> QED
    BY <2>2 DEF EndedStream!EndedNext
<1>5. CASE closes # 0
  <2>1. (closes > 0) = TRUE
    BY <1>1, <1>5
  <2> QED
    BY <1>2, <1>3, <2>1 DEF EndedStream!endVars
<1> QED
  BY <1>4, <1>5

(* A segment in order delivers what follows.                               *)
LEMMA InOrderDelivers ==
  ASSUME CloseInv, CloseInv', NEW s \in Subflows, NEW p, InOrder(s, p),
         ServerOpen, UNCHANGED <<clientVars, serverState, reset>>
  PROVE  EndedStream!EndedNext
<1>1. nextRxSequence' \in nextRxSequence + 1 .. MaxSegments + 2
  BY NextIsAhead
<1>2. /\ UNCHANGED <<nextTxSequence, sendingBuffer, closes>>
      /\ Written' = Written
  BY DEF clientVars, Written
<1>3. nextRxSequence' \in 1 .. nextTxSequence
  BY <1>2 DEF CloseInv, DataNumbers
<1>4. nextRxSequence' - 1 \in Len(Delivered) + 1 .. Written
  <2>1. nextRxSequence' - 1 \in (nextRxSequence - 1) + 1 .. Written
    BY <1>1, <1>3, StreamNumbers DEF Written
  <2> QED
    BY <2>1, DeliveredLength
<1>5. UNCHANGED EndedStream!endVars /\ ~ ~ ServerOpen
  BY <1>2 DEF EndedStream!endVars, ServerOpen
<1>6. EndedStream!DeliverMore
  BY <1>2, <1>4, <1>5
     DEF EndedStream!DeliverMore, EndedStream!Deliver, Written, Delivered
<1> QED
  BY <1>6 DEF EndedStream!EndedNext

(* What arrives at the server delivers, closes a sub-flow or does nothing  *)
(* to the stream.                                                          *)
LEMMA ToServerImplements ==
  ASSUME CloseInv, CloseInv', WholeAtEnd',
         NEW s \in Subflows, NEW n, ToServer(s, n)
  PROVE  [EndedStream!EndedNext]_<<EndedStream!streamVars, EndedStream!endVars>>
<1>1. PICK i \in Leaving(dataPath[s]) :
        LET p == dataPath[s][i] IN
        /\ \/ ReceivedData(s, p) \/ PeerClose(s, p) \/ RepeatedFin(s, p)
           \/ LastAck(s, p) \/ ServerReset(s, p) \/ ServerRefuses(s, p)
        /\ UNCHANGED clientVars
  BY DEF ToServer
<1> DEFINE p == dataPath[s][i]
<1>2. Written' = Written /\ UNCHANGED closes
  BY <1>1 DEF clientVars, Written
<1>3. serverState \in [Subflows -> {"ESTABLISHED", "LAST_ACK", "CLOSED"}]
  BY DEF CloseInv, TypeOK
<1>4. CASE ReceivedData(s, p)
  <2>1. UNCHANGED <<serverState, reset>> /\ ServerOpen
    BY <1>4 DEF ReceivedData, ServerOpen
  <2>2. CASE InOrder(s, p)
    BY <1>1, <2>1, <2>2, InOrderDelivers
  <2>3. CASE OutOfOrder(s, p) \/ Duplicate(s, p)
    <3>1. UNCHANGED nextRxSequence
      BY <2>3 DEF OutOfOrder, Duplicate
    <3> QED
      BY <1>2, <2>1, <3>1, StreamEnds DEF StreamStays
  <2> QED
    BY <1>4, <2>2, <2>3 DEF ReceivedData
<1>5. CASE PeerClose(s, p) \/ RepeatedFin(s, p) \/ LastAck(s, p)
  <2>1. serverState[s] # "CLOSED" /\ UNCHANGED <<nextRxSequence, reset>>
    BY <1>5 DEF PeerClose, RepeatedFin, LastAck, receiveVars
  <2>2. ServerOpen
    BY <2>1 DEF ServerOpen
  <2> QED
    BY <1>2, <2>1, <2>2, StreamEnds DEF StreamStays
<1>6. CASE ServerReset(s, p)
  <2>1. reset' /\ ServerOpen /\ UNCHANGED nextRxSequence
    BY <1>6 DEF ServerReset, ServerOpen, receiveVars
  <2> QED
    BY <1>2, <2>1, StreamEnds DEF StreamStays
<1>7. CASE ServerRefuses(s, p)
  <2>1. UNCHANGED <<serverState, nextRxSequence, reset>>
    BY <1>7 DEF ServerRefuses, serverVars, receiveVars
  <2>2. ServerOpen' => ServerOpen
    BY <2>1 DEF ServerOpen
  <2> QED
    BY <1>2, <2>1, <2>2, StreamEnds DEF StreamStays
<1> QED
  BY <1>1, <1>4, <1>5, <1>6, <1>7

(* Every step of the close is one of the stream that ends, or none.        *)
LEMMA StepImplementsEnd ==
  ASSUME CloseInv, CloseInv', WholeAtEnd', [Next]_vars
  PROVE  [EndedStream!EndedNext]_<<EndedStream!streamVars, EndedStream!endVars>>
<1>1. ASSUME UNCHANGED <<nextRxSequence, closes, serverState>>, Written' = Written,
             reset => reset'
      PROVE  [EndedStream!EndedNext]_<<EndedStream!streamVars, EndedStream!endVars>>
  <2>1. ServerOpen' => ServerOpen
    BY <1>1 DEF ServerOpen
  <2> QED
    BY <1>1, <2>1, StreamEnds DEF StreamStays
<1>2. ASSUME NEW s \in Subflows, SendDataPacket(s)
      PROVE  Written' = Written /\ UNCHANGED <<closes, serverVars, reset>>
  <2>1. /\ nextTxSequence' = nextTxSequence + 1 /\ sendingBuffer' = sendingBuffer - 1
        /\ UNCHANGED <<closes, serverVars, reset>>
    BY <1>2 DEF SendDataPacket
  <2> QED
    BY <2>1, StreamNumbers DEF Written
<1>3. ASSUME NEW s \in Subflows,
             \/ SendAgain(s) \/ ScheduledDoClose(s) \/ IdleTimeout(s)
             \/ RetransmitData(s) \/ RetransmitFin(s)
      PROVE  Written' = Written /\ UNCHANGED <<closes, serverVars, reset>>
  BY <1>3 DEF SendAgain, ScheduledDoClose, IdleTimeout, RetransmitData, RetransmitFin,
              Written
<1>4. ASSUME NEW s \in Subflows, ToClient(s)
      PROVE  /\ Written' = Written /\ UNCHANGED <<closes, serverVars>>
             /\ reset => reset'
  BY <1>4 DEF ToClient, ReceivedAck, FastRetransmit, ReceiveFinAck, ReceiveReset,
              ClientRefuses, Written
<1>5. CASE CloseMultipathConnection \/ Loss \/ UNCHANGED vars
  <2>1. Written' = Written /\ UNCHANGED <<closes, serverVars, reset>>
    BY <1>5 DEF CloseMultipathConnection, Loss, vars, clientVars, Written
  <2> QED
    BY <1>1, <2>1 DEF serverVars, receiveVars
<1>6. CASE ClientStep
  BY <1>1, <1>2, <1>3, <1>4, <1>5, <1>6, WriteOrStays, CloseShuts
     DEF ClientStep, serverVars, receiveVars
<1>7. ASSUME NEW s \in Subflows, LastAckTimeout(s)
      PROVE  [EndedStream!EndedNext]_<<EndedStream!streamVars, EndedStream!endVars>>
  <2>1. ServerOpen
    BY <1>7 DEF LastAckTimeout, ServerOpen
  <2>2. StreamStays /\ UNCHANGED reset
    BY <1>7 DEF LastAckTimeout, StreamStays, Written, clientVars, receiveVars
  <2> QED
    BY <2>1, <2>2, StreamEnds
<1>8. CASE ServerStep
  BY <1>7, <1>8, ToServerImplements DEF ServerStep
<1> QED
  BY <1>5, <1>6, <1>8 DEF Next, Done

(* Closing a connection ends one stream: what the writer wrote before its  *)
(* Close is delivered, in order and without a gap, before the server tells *)
(* its application of the end, unless a RST has closed the connection.     *)
THEOREM ImplementsEndedStream == Spec => IsEndedStream
<1>1. Init => EndedStream!EndedInit
  <2> SUFFICES ASSUME Init PROVE EndedStream!EndedInit
    OBVIOUS
  <2>1. 0 \in Subflows
    BY PathAssumption DEF Subflows
  <2>2. ServerOpen /\ reset = FALSE /\ closes = 0
    BY <2>1 DEF Init, ServerOpen
  <2>3. nextTxSequence - 1 + sendingBuffer = 0 /\ Delivered = << >>
    BY DEF Init, Delivered
  <2>4. (~ ServerOpen) = FALSE /\ (closes > 0) = FALSE
    BY <2>2 DEF ServerOpen
  <2> QED
    BY <2>2, <2>3, <2>4 DEF EndedStream!EndedInit, EndedStream!StreamInit, Delivered
<1>2. CloseInv => WholeAtEnd
  BY EndIsWhole DEF WholeAtEnd
<1>3. CloseInv /\ CloseInv' /\ WholeAtEnd' /\ [Next]_vars
        => [EndedStream!EndedNext]_<<EndedStream!streamVars, EndedStream!endVars>>
  BY StepImplementsEnd
<1> QED
  BY <1>1, <1>2, <1>3, CloseInvariance, PTL
     DEF Spec, IsEndedStream, EndedStream!EndedSpec
=============================================================================
