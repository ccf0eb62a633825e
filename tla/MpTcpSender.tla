---------------------------- MODULE MpTcpSender -----------------------------
(***************************************************************************)
(* The sending half of MpTcpSocketBase: the bulk sender fills              *)
(* sendingBuffer, SendPendingData deals its bytes out to the sub-flows in  *)
(* round robin, each sub-flow keeps what it has sent in mapDSN until it is *)
(* acknowledged and recovers from losses with NewReno and with its         *)
(* retransmission timer.                                                   *)
(*                                                                         *)
(* A handler of the simulator runs to completion.  The handlers that end   *)
(* in SendPendingData leave its loop to be run by ResendStep and SendStep, *)
(* one iteration each, and nothing else runs until txPhase is "idle".      *)
(***************************************************************************)
EXTENDS MpTcpPaths

CONSTANTS
  MSS,              \* the segment size of every sub-flow
  SynSent,          \* the sub-flows whose SYN was lost: state SYN_SENT for ever
  MaxBytes,         \* bound: the bytes the application writes
  SendSize,         \* m_sendSize: the bytes of one write
  SndBufSize,       \* bufMaxSize of sendingBuffer
  RemoteRecvWnd,    \* the window the peer advertises in every packet
  InitialSsthresh,  \* ssthresh of a new sub-flow
  AlgoCC,           \* the attribute CongestionControl
  CwndModulus,      \* 2^32, the width of cwnd
  SpuriousTimeouts  \* TRUE if a timer may fire while packets are in transit

ASSUME SenderAssumption ==
  /\ MSS \in Nat \ {0}
  /\ SynSent \subseteq Subflows
  /\ MaxBytes \in Nat
  /\ SendSize \in Nat \ {0}
  /\ SndBufSize \in Nat \ {0}
  /\ RemoteRecvWnd \in Nat
  /\ InitialSsthresh \in Nat
  /\ AlgoCC \in {"Uncoupled_TCPs", "Linked_Increases", "RTT_Compensator",
                 "Fully_Coupled", "COUPLED_SCALABLE_TCP", "UNCOUPLED",
                 "COUPLED_EPSILON", "COUPLED_INC", "COUPLED_FULLY"}
  /\ CwndModulus \in Nat \ {0}
  /\ SpuriousTimeouts \in BOOLEAN

VARIABLES
  sendingBuffer,      \* the number of bytes written and not yet sent
  nextTxSequence,     \* the data sequence number of the next new byte
  lastUsedsFlowIdx,   \* the round robin's next sub-flow
  TxSeqNumber,        \* per sub-flow: the next sequence number to send
  maxSeqNb,           \* per sub-flow: the highest sequence number ever sent
  highestAck,         \* per sub-flow: the highest acknowledged number
  mapDSN,             \* per sub-flow: the segments sent and not acknowledged
  sentDSN,            \* history: every segment AddDSNMapping ever recorded
  dupAckCount,        \* per sub-flow: duplicate acknowledgements in a row
  inFastRec,          \* per sub-flow: in fast recovery
  recover,            \* per sub-flow: where fast recovery ends
  cwnd,               \* per sub-flow: congestion window
  ssthresh,           \* per sub-flow: slow start threshold
  retxEvent,          \* per sub-flow: TRUE while the timer is running
  txPhase,            \* "idle", or the loop of SendPendingData that runs
  txFlow              \* the sub-flow of the loop "resend"

sendState == <<sendingBuffer, nextTxSequence, lastUsedsFlowIdx>>
seqState  == <<TxSeqNumber, maxSeqNb, highestAck, mapDSN, sentDSN>>
ccState   == <<dupAckCount, inFastRec, recover, cwnd, ssthresh>>
txLoop    == <<txPhase, txFlow>>
senderVars == <<sendState, seqState, ccState, retxEvent, txLoop>>

(* A DSNMapping: len bytes from data sequence number dsn, carried on the   *)
(* sub-flow from its sequence number ssn.  It is also the content of a     *)
(* data packet: the packet's option holds the same three numbers.          *)
Mapping == [dsn : Nat, len : Nat, ssn : Nat]

(* The largest count DupAck tells apart from the threshold of three. *)
DupAckCap == 4

SenderInit ==
  /\ sendingBuffer = 0
  /\ nextTxSequence = 1
  /\ lastUsedsFlowIdx = 0
  /\ TxSeqNumber = [s \in Subflows |-> 1]
  /\ maxSeqNb = [s \in Subflows |-> 0]
  /\ highestAck = [s \in Subflows |-> 0]
  /\ mapDSN = [s \in Subflows |-> {}]
  /\ sentDSN = [s \in Subflows |-> {}]
  /\ dupAckCount = [s \in Subflows |-> 0]
  /\ inFastRec = [s \in Subflows |-> FALSE]
  /\ recover = [s \in Subflows |-> 0]
  /\ cwnd = [s \in Subflows |-> MSS]
  /\ ssthresh = [s \in Subflows |-> InitialSsthresh]
  /\ retxEvent = [s \in Subflows |-> FALSE]
  /\ txPhase = "idle"
  /\ txFlow = 0

-----------------------------------------------------------------------------
(* Windows. *)

Larger(a, b)  == IF a >= b THEN a ELSE b
Smaller(a, b) == IF a <= b THEN a ELSE b

(* Unsigned arithmetic: a result out of range wraps around. *)
Unsigned(n) == n % CwndModulus

BytesInFlight(s) == maxSeqNb[s] - highestAck[s]

(* Wrong variant: the peer's window is forgotten. *)
AvailableCwnd(s) ==
  LET unAcked  == TxSeqNumber[s] - (highestAck[s] + 1)
      freeCWND == IF cwnd[s] < unAcked THEN 0 ELSE cwnd[s] - unAcked
  IN  IF freeCWND < MSS /\ sendingBuffer >= MSS THEN 0 ELSE freeCWND

(* The window left on s; nothing if it does not fit a full segment while   *)
(* a full segment is waiting.                                              *)
AvailableWindow(s) ==
  LET window   == Smaller(RemoteRecvWnd, cwnd[s])
      unAcked  == TxSeqNumber[s] - (highestAck[s] + 1)
      freeCWND == IF window < unAcked THEN 0 ELSE window - unAcked
  IN  IF freeCWND < MSS /\ sendingBuffer >= MSS THEN 0 ELSE freeCWND

(* The sub-flow has sent more than it takes for sent: it resends after a   *)
(* timeout.                                                                *)
InTimeoutRecovery(s) == maxSeqNb[s] > TxSeqNumber[s] - 1

Ends(m) == m.ssn + m.len

(* The windows of all sub-flows, if that of s is as given. *)
Counted(t) == IF inFastRec[t] THEN ssthresh[t] ELSE cwnd[t]

TotalCwnd(s, window) == window + MapThenSumSet(Counted, Subflows \ {s})

(* {x / d} and {max(w - x, 0)} in whole numbers. *)
Quotient(x, d) == {n \in 0 .. x : n * d <= x /\ x < (n + 1) * d}
Excess(w, x) == {n \in 0 .. w : n = w - x \/ (n = 0 /\ x > w)}

(* What ReduceCWND takes for half the window. *)
Halved(s) ==
  CASE AlgoCC = "COUPLED_SCALABLE_TCP" ->
         Excess(cwnd[s], TotalCwnd(s, cwnd[s]) \div 8)
    [] AlgoCC \in {"Fully_Coupled", "COUPLED_FULLY"} ->
         Excess(cwnd[s], TotalCwnd(s, cwnd[s]) \div 2)
    [] OTHER -> {BytesInFlight(s) \div 2}

(* Wrong variant: no less than the half. *)
ThresholdOfHalf(half) == half

(* At least two segments. *)
Threshold(half) == Larger(2 * MSS, half)

(* What OpenCWND adds to the given window of s in congestion avoidance,    *)
(* after acked bytes.  The factors alpha and a of four algorithms depend   *)
(* on the round-trip times of all sub-flows, which are left open: they may *)
(* bring any value up to the one the algorithm caps them at, or, with      *)
(* Linked_Increases, up to that of the smallest window.                    *)
AtLeastOne(ns) == {Larger(1, n) : n \in ns}

UpTo(ns) == UNION {0 .. n : n \in ns}

Increases(s, window, acked) ==
  LET square  == MSS * MSS
      tcpInc  == Quotient(Smaller(acked, MSS) * MSS, window)
      total   == TotalCwnd(s, window)
      windows == {window} \cup {cwnd[t] : t \in Subflows \ {s}} IN
  CASE AlgoCC = "Uncoupled_TCPs" -> AtLeastOne(Quotient(square, window))
    [] AlgoCC = "Fully_Coupled" -> AtLeastOne(Quotient(square, total))
    [] AlgoCC = "RTT_Compensator" -> AtLeastOne(UpTo(Quotient(square, window)))
    [] AlgoCC = "Linked_Increases" ->
         AtLeastOne(UNION {UpTo(Quotient(square, w)) : w \in windows})
    [] AlgoCC = "UNCOUPLED" -> tcpInc
    [] AlgoCC \in {"COUPLED_EPSILON", "COUPLED_INC"} -> UpTo(tcpInc)
    [] AlgoCC = "COUPLED_FULLY" -> Quotient(Smaller(acked, MSS) * MSS, total)
    [] AlgoCC = "COUPLED_SCALABLE_TCP" -> Quotient(Smaller(acked, MSS), 100)

(* Wrong variant: the segment of one byte that is asked for next is        *)
(* discarded, too.                                                         *)
UnackedDropsNext(s, ack) == {m \in mapDSN[s] : Ends(m) > ack + 1}

(* The segments that DiscardUpTo(s, ack) keeps. *)
Unacked(s, ack) == {m \in mapDSN[s] : Ends(m) > ack}

-----------------------------------------------------------------------------
(* Sending. *)

Transmit(s, m) ==
  /\ dataPath' = [dataPath EXCEPT ![s] = Enqueue(@, m)]
  /\ UNCHANGED ackPath

(* Wrong variant of ResendSegment: every segment is taken for a full one.  *)
ResendFullSegment(s) ==
  \E m \in mapDSN[s] :
    /\ m.ssn = TxSeqNumber[s]
    /\ Transmit(s, m)
    /\ TxSeqNumber' = [TxSeqNumber EXCEPT ![s] = @ + MSS]
    /\ maxSeqNb' = [maxSeqNb EXCEPT ![s] = Larger(@, Ends(m) - 1)]
    /\ retxEvent' = [retxEvent EXCEPT ![s] = TRUE]
    /\ UNCHANGED <<sendingBuffer, nextTxSequence, highestAck, mapDSN,
                   sentDSN, ccState>>

(* SendDataPacket after a timeout: the recorded segment at TxSeqNumber     *)
(* goes out again.                                                         *)
ResendSegment(s) ==
  \E m \in mapDSN[s] :
    /\ m.ssn = TxSeqNumber[s]
    /\ Transmit(s, m)
    /\ TxSeqNumber' = [TxSeqNumber EXCEPT ![s] = Ends(m)]
    /\ maxSeqNb' = [maxSeqNb EXCEPT ![s] = Larger(@, Ends(m) - 1)]
    /\ retxEvent' = [retxEvent EXCEPT ![s] = TRUE]
    /\ UNCHANGED <<sendingBuffer, nextTxSequence, highestAck, mapDSN,
                   sentDSN, ccState>>

(* SendDataPacket otherwise: a new segment of at most size bytes. *)
SendNewSegment(s, size) ==
  LET m == [dsn |-> nextTxSequence,
            len |-> Smaller(size, sendingBuffer),
            ssn |-> TxSeqNumber[s]]
  IN  /\ Transmit(s, m)
      /\ sendingBuffer' = sendingBuffer - m.len
      /\ nextTxSequence' = nextTxSequence + m.len
      /\ mapDSN' = [mapDSN EXCEPT ![s] = @ \cup {m}]
      /\ sentDSN' = [sentDSN EXCEPT ![s] = @ \cup {m}]
      /\ TxSeqNumber' = [TxSeqNumber EXCEPT ![s] = Ends(m)]
      /\ maxSeqNb' = [maxSeqNb EXCEPT ![s] = Larger(@, Ends(m) - 1)]
      /\ retxEvent' = [retxEvent EXCEPT ![s] = TRUE]
      /\ UNCHANGED <<highestAck, ccState>>

(* DoRetransmit(s, m): m goes out again, and what it covers is sent.       *)
DoRetransmit(s, m) ==
  /\ dataPath' = [dataPath EXCEPT ![s] = Enqueue(@, m)]
  /\ TxSeqNumber' = [TxSeqNumber EXCEPT ![s] = Larger(@, Ends(m))]
  /\ maxSeqNb' = [maxSeqNb EXCEPT ![s] =
                    Larger(@, Larger(TxSeqNumber[s], Ends(m)) - 1)]

(* DoRetransmit(s): the first unacknowledged segment goes out again, once  *)
(* a time-out has set TxSeqNumber back to it.                              *)
DoRetransmitFirst(s) ==
  \E m \in mapDSN[s] :
    /\ m.ssn = highestAck[s] + 1
    /\ Transmit(s, m)
    /\ TxSeqNumber' = [TxSeqNumber EXCEPT ![s] = Ends(m)]
    /\ maxSeqNb' = [maxSeqNb EXCEPT ![s] = Larger(@, Ends(m) - 1)]

(* Wrong variant: a sub-flow with nothing recorded ends the call, whatever *)
(* sendingBuffer holds.                                                    *)
CallSendPendingDataUnlessDone(s) ==
  LET resend == sendingBuffer' = 0 /\ maxSeqNb'[s] > TxSeqNumber'[s] - 1
  IN  /\ txPhase' = IF mapDSN'[s] = {} THEN "idle"
                    ELSE IF sendingBuffer' > 0 THEN "send"
                    ELSE IF resend THEN "resend" ELSE "idle"
      /\ txFlow' = IF mapDSN'[s] # {} /\ resend THEN s ELSE 0

(* The call SendPendingData(s) at the end of a handler: with an empty      *)
(* sendingBuffer only s itself may resend, else the bytes are dealt out.   *)
CallSendPendingData(s) ==
  LET resend == /\ sendingBuffer' = 0
                /\ mapDSN'[s] # {}
                /\ maxSeqNb'[s] > TxSeqNumber'[s] - 1
  IN  /\ txPhase' = IF sendingBuffer' > 0 THEN "send"
                    ELSE IF resend THEN "resend" ELSE "idle"
      /\ txFlow' = IF resend THEN s ELSE 0

LeaveSendPendingData == txPhase' = "idle" /\ txFlow' = 0

(* One iteration of the loop for an empty sendingBuffer. *)
ResendStep ==
  /\ txPhase = "resend"
  /\ LET s == txFlow
         more == /\ AvailableWindow(s) >= MSS
                 /\ InTimeoutRecovery(s)
                 /\ mapDSN[s] # {}
     IN  \/ /\ more
            /\ ResendSegment(s)
            /\ UNCHANGED <<lastUsedsFlowIdx, txLoop>>
         \/ /\ ~more
            /\ LeaveSendPendingData
            /\ UNCHANGED <<sendState, seqState, ccState, retxEvent, pathVars>>

(* Wrong variant: the index does not wrap around. *)
RoundRobinUnwrapped(i, k) == i + k

(* (i + k) % subflows.size() for two indices. *)
RoundRobin(i, k) == IF i + k < MaxSubflows THEN i + k ELSE i + k - MaxSubflows

Window(s) == Smaller(AvailableWindow(s), sendingBuffer)

(* Where the search for a sub-flow stops: at one with a window, and at one *)
(* that is not established, which the loop never steps over.               *)
SearchStops(k) ==
  LET s == RoundRobin(lastUsedsFlowIdx, k) IN s \in SynSent \/ Window(s) > 0

(* The k steps after which the search of the loop stops; subflows.size()   *)
(* of them lead back to the start.                                         *)
SearchEndsAfter(k) ==
  /\ k \in 0 .. MaxSubflows
  /\ \A j \in 0 .. k - 1 : ~SearchStops(j)
  /\ k < MaxSubflows => SearchStops(k)

(* One iteration of the main loop.  In timeout recovery the size is a full *)
(* segment when no more than that is pending.                              *)
SendStep ==
  /\ txPhase = "send"
  /\ \E k \in 0 .. MaxSubflows :
       /\ SearchEndsAfter(k)
       /\ LET s == RoundRobin(lastUsedsFlowIdx, k)
              found == sendingBuffer > 0 /\ k < MaxSubflows /\ s \notin SynSent
          IN  \/ /\ found
                 /\ IF InTimeoutRecovery(s)
                    THEN ResendSegment(s)
                    ELSE SendNewSegment(s, Smaller(Window(s), MSS))
                 /\ lastUsedsFlowIdx' = RoundRobin(s, 1)
                 /\ UNCHANGED txLoop
              \/ /\ ~found
                 /\ lastUsedsFlowIdx' = IF sendingBuffer > 0 THEN s
                                        ELSE lastUsedsFlowIdx
                 /\ LeaveSendPendingData
                 /\ UNCHANGED <<sendingBuffer, nextTxSequence, seqState,
                                ccState, retxEvent, pathVars>>

-----------------------------------------------------------------------------
(* The application. *)

FreeSpace == SndBufSize - sendingBuffer

(* One turn of SendData's loop: fill sendingBuffer, then SendBufferedData. *)
(* The sender is one with m_maxBytes = 0, which writes until it is         *)
(* stopped; MaxBytes bounds how much of that is looked at.                 *)
SendData ==
  LET toSend == Smaller(SendSize, FreeSpace) IN
  /\ txPhase = "idle"
  /\ toSend > 0
  /\ nextTxSequence - 1 + sendingBuffer + toSend <= MaxBytes
  /\ sendingBuffer' = sendingBuffer + toSend
  /\ txPhase' = "send"
  /\ txFlow' = 0
  /\ UNCHANGED <<nextTxSequence, lastUsedsFlowIdx, seqState, ccState,
                 retxEvent, pathVars>>

-----------------------------------------------------------------------------
(* Acknowledgements.  ReceivedAck takes ack number a out of the path of s  *)
(* and turns to the case that holds.                                       *)

TakeAck(s, i) == ackPath' = [ackPath EXCEPT ![s] = RemoveAt(@, i)]

IsNewAck(s, a) == a > highestAck[s] + 1

(* A segment is recorded at the first unacknowledged byte, which a asks    *)
(* for again.                                                              *)
IsDupAck(s, a) ==
  /\ a = highestAck[s] + 1
  /\ a < TxSeqNumber[s]
  /\ \E m \in mapDSN[s] : m.ssn = a

(* Wrong variants: off by one at the end of fast recovery, and an end that *)
(* moves on with the new data sent in fast recovery.                       *)
IsPartialUpToRecover(s, a) == IsNewAck(s, a) /\ inFastRec[s] /\ a <= recover[s]
IsPartialUpToTxSeq(s, a) == IsNewAck(s, a) /\ inFastRec[s] /\ a < TxSeqNumber[s]

IsPartialAck(s, a) == IsNewAck(s, a) /\ inFastRec[s] /\ a < recover[s]

(* An old acknowledgement, or a repeated one with nothing outstanding. *)
IgnoredAck(s, i) ==
  LET a == ackPath[s][i] IN
  /\ ~IsNewAck(s, a)
  /\ ~IsDupAck(s, a)
  /\ TakeAck(s, i)
  /\ UNCHANGED <<senderVars, dataPath>>

(* The third duplicate: ReduceCWND cuts the window, enters fast recovery   *)
(* and retransmits the segment at a.                                       *)
ThirdDupAck(s, i) ==
  LET a == ackPath[s][i] IN
  /\ IsDupAck(s, a)
  /\ dupAckCount[s] = 2 /\ ~inFastRec[s]
  /\ TakeAck(s, i)
  /\ \E m \in mapDSN[s] : m.ssn = a /\ DoRetransmit(s, m)
  /\ dupAckCount' = [dupAckCount EXCEPT ![s] = 3]
  /\ \E half \in Halved(s) : ssthresh' = [ssthresh EXCEPT ![s] = Threshold(half)]
  /\ cwnd' = [cwnd EXCEPT ![s] = ssthresh'[s] + 3 * MSS]
  /\ recover' = [recover EXCEPT ![s] = maxSeqNb[s] + 1]
  /\ inFastRec' = [inFastRec EXCEPT ![s] = TRUE]
  /\ retxEvent' = [retxEvent EXCEPT ![s] = TRUE]
  /\ UNCHANGED <<sendState, highestAck, mapDSN, sentDSN, txLoop>>

(* Any other duplicate is counted; in fast recovery it also inflates the   *)
(* window and lets new data out.                                           *)
CountedDupAck(s, i) ==
  LET a == ackPath[s][i] IN
  /\ IsDupAck(s, a)
  /\ dupAckCount[s] # 2 \/ inFastRec[s]
  /\ TakeAck(s, i)
  /\ dupAckCount' = [dupAckCount EXCEPT ![s] = Smaller(@ + 1, DupAckCap)]
  /\ UNCHANGED <<sendState, seqState, inFastRec, recover, ssthresh,
                 retxEvent, dataPath>>
  /\ IF inFastRec[s]
     THEN /\ cwnd' = [cwnd EXCEPT ![s] = Unsigned(@ + MSS)]
          /\ CallSendPendingData(s)
     ELSE UNCHANGED <<cwnd, txLoop>>

(* Wrong variant: only the send buffer is looked at. *)
BufferIsDrained(s, a) == sendingBuffer = 0

(* Nothing is left to send or to retransmit once a is processed. *)
NothingLeft(s, a) == sendingBuffer = 0 /\ Unacked(s, a) = {}

(* NewACK: restart the timer, or stop it when nothing is left to send,     *)
(* forget what a acknowledges, and send what the window now allows.        *)
NewACK(s, a) ==
  /\ mapDSN' = [mapDSN EXCEPT ![s] = Unacked(s, a)]
  /\ highestAck' = [highestAck EXCEPT ![s] = Larger(@, a - 1)]
  /\ retxEvent' = [retxEvent EXCEPT ![s] = ~NothingLeft(s, a)]
  /\ dupAckCount' = [dupAckCount EXCEPT ![s] = 0]
  /\ UNCHANGED <<sendState, sentDSN, recover, ssthresh>>
  /\ CallSendPendingData(s)

(* A partial acknowledgement in fast recovery deflates the window and      *)
(* retransmits the segment that is missing next.                           *)
PartialAck(s, i) ==
  LET a == ackPath[s][i] IN
  /\ IsPartialAck(s, a)
  /\ TakeAck(s, i)
  /\ cwnd' = [cwnd EXCEPT ![s] =
                Unsigned(@ - (a - (highestAck[s] + 1)) + MSS)]
  /\ \E m \in Unacked(s, a) : m.ssn = a /\ DoRetransmit(s, m)
  /\ UNCHANGED inFastRec
  /\ NewACK(s, a)

(* Wrong variant: TxSeqNumber stays where the timeout put it. *)
KeepTxSeqNumber(s, a) == UNCHANGED TxSeqNumber

(* What is acknowledged is not sent again after a timeout. *)
SkipAcknowledged(s, a) == TxSeqNumber' = [TxSeqNumber EXCEPT ![s] = Larger(@, a)]

(* The window a full acknowledgement leaves fast recovery with. *)
Deflated(s) ==
  IF inFastRec[s] THEN Smaller(ssthresh[s], BytesInFlight(s) + MSS) ELSE cwnd[s]

(* OpenCWND: slow start adds a segment. *)
Added(s, window, acked) ==
  IF window < ssthresh[s] THEN {MSS} ELSE Increases(s, window, acked)

(* Any other new acknowledgement, which ends fast recovery if it was on. *)
FullAck(s, i) ==
  LET a == ackPath[s][i] IN
  /\ IsNewAck(s, a) /\ ~IsPartialAck(s, a)
  /\ TakeAck(s, i)
  /\ \E added \in Added(s, Deflated(s), a - (highestAck[s] + 1)) :
       cwnd' = [cwnd EXCEPT ![s] = Deflated(s) + added]
  /\ inFastRec' = [inFastRec EXCEPT ![s] = FALSE]
  /\ SkipAcknowledged(s, a)
  /\ UNCHANGED <<maxSeqNb, dataPath>>
  /\ NewACK(s, a)

ReceivedAck(s) ==
  /\ txPhase = "idle"
  /\ \E i \in Leaving(ackPath[s]) :
       \/ IgnoredAck(s, i)
       \/ ThirdDupAck(s, i)
       \/ CountedDupAck(s, i)
       \/ PartialAck(s, i)
       \/ FullAck(s, i)

-----------------------------------------------------------------------------
(* The retransmission timer. *)

TimerMayFire(s) ==
  /\ txPhase = "idle"
  /\ retxEvent[s]
  /\ SpuriousTimeouts \/ (dataPath[s] = << >> /\ ackPath[s] = << >>)

(* Nothing is outstanding: the timer just ends. *)
IdleTimeout(s) ==
  /\ TimerMayFire(s)
  /\ mapDSN[s] = {}
  /\ retxEvent' = [retxEvent EXCEPT ![s] = FALSE]
  /\ UNCHANGED <<sendState, seqState, ccState, txLoop, pathVars>>

(* Retransmit: back to slow start and to the first unacknowledged segment. *)
Retransmit(s) ==
  /\ TimerMayFire(s)
  /\ inFastRec' = [inFastRec EXCEPT ![s] = FALSE]
  /\ ssthresh' = [ssthresh EXCEPT ![s] = Threshold(BytesInFlight(s) \div 2)]
  /\ cwnd' = [cwnd EXCEPT ![s] = MSS]
  /\ DoRetransmitFirst(s)
  /\ UNCHANGED <<sendState, highestAck, mapDSN, sentDSN, dupAckCount, recover,
                 retxEvent, txLoop>>

-----------------------------------------------------------------------------
SenderStep ==
  \/ SendData
  \/ ResendStep
  \/ SendStep
  \/ \E s \in Subflows :
       \/ ReceivedAck(s)
       \/ IdleTimeout(s)
       \/ Retransmit(s)

SenderTypeOK ==
  /\ sendingBuffer \in Nat
  /\ nextTxSequence \in Nat \ {0}
  /\ lastUsedsFlowIdx \in Subflows
  /\ TxSeqNumber \in [Subflows -> Nat]
  /\ maxSeqNb \in [Subflows -> Nat]
  /\ highestAck \in [Subflows -> Nat]
  /\ mapDSN \in [Subflows -> SUBSET Mapping]
  /\ sentDSN \in [Subflows -> SUBSET Mapping]
  /\ dupAckCount \in [Subflows -> 0 .. DupAckCap]
  /\ inFastRec \in [Subflows -> BOOLEAN]
  /\ recover \in [Subflows -> Nat]
  /\ cwnd \in [Subflows -> Nat]
  /\ ssthresh \in [Subflows -> Nat]
  /\ retxEvent \in [Subflows -> BOOLEAN]
  /\ txPhase \in {"idle", "send", "resend"}
  /\ txFlow \in Subflows
=============================================================================
