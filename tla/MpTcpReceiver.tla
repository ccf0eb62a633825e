--------------------------- MODULE MpTcpReceiver ----------------------------
(***************************************************************************)
(* The receiving half of MpTcpSocketBase and the packet sink that reads    *)
(* it.  ReceivedData takes a segment off a sub-flow: one that is next in   *)
(* the data sequence goes to recvingBuffer and releases what unOrdered     *)
(* holds behind it, one that is not waits in unOrdered, and every segment  *)
(* is answered with the next number expected on its sub-flow.              *)
(*                                                                         *)
(* ReadUnOrderedData is run by ReadStep, one stored segment each; nothing  *)
(* else runs until rxPhase is "idle" again.                                *)
(***************************************************************************)
EXTENDS MpTcpPaths

CONSTANTS
  RcvBufSize,   \* bufMaxSize of recvingBuffer
  ReadSize      \* size: the bytes the sink reads when it is notified

ASSUME ReceiverAssumption ==
  /\ RcvBufSize \in Nat \ {0}
  /\ ReadSize \in Nat \ {0}

VARIABLES
  RxSeqNumber,      \* per sub-flow: the next sequence number expected
  nextRxSequence,   \* the next data sequence number expected
  unOrdered,        \* the stored segments that wait for earlier data
  recvingBuffer,    \* the bytes waiting for the application, oldest first
  received,         \* history: the bytes HandleRead has read, m_totalRx of them
  rxPhase,          \* "idle", or "reading" in ReadUnOrderedData
  rxFlow,           \* the sub-flow whose segment started the reading
  rxCursor          \* the data sequence number of the last entry visited

rxLoop == <<rxPhase, rxFlow, rxCursor>>
receiverVars == <<RxSeqNumber, nextRxSequence, unOrdered, recvingBuffer,
                  received, rxLoop>>

(* An entry of unOrdered: a segment and the sub-flow it came on.  The list *)
(* is kept in the order of dsn.                                            *)
Stored == [sub : Subflows, dsn : Nat, len : Nat, ssn : Nat]

Entry(s, m) == [sub |-> s, dsn |-> m.dsn, len |-> m.len, ssn |-> m.ssn]

(* The bytes of a segment, each named by its data sequence number. *)
BytesOf(m) == [i \in 1 .. m.len |-> m.dsn + i - 1]

ReceiverInit ==
  /\ RxSeqNumber = [s \in Subflows |-> 1]
  /\ nextRxSequence = 1
  /\ unOrdered = {}
  /\ recvingBuffer = << >>
  /\ received = << >>
  /\ rxPhase = "idle"
  /\ rxFlow = 0
  /\ rxCursor = 0

-----------------------------------------------------------------------------
(* SendEmptyPacket(s, ACK) once the segment at i has left the data path. *)
Answer(s, i) ==
  /\ dataPath' = [dataPath EXCEPT ![s] = RemoveAt(@, i)]
  /\ ackPath' = [ackPath EXCEPT ![s] = Enqueue(@, RxSeqNumber'[s])]

IsStored(m) == \E e \in unOrdered : e.dsn = m.dsn

StoreUnOrderedData(s, m) ==
  unOrdered' = IF IsStored(m) THEN unOrdered ELSE unOrdered \cup {Entry(s, m)}

Advance(s, len) == RxSeqNumber' = [RxSeqNumber EXCEPT ![s] = @ + len]

(* Wrong variant: the data sequence number is not looked at. *)
IsNextOnSubflow(s, m) == m.ssn = RxSeqNumber[s]

IsExpected(s, m) == m.ssn = RxSeqNumber[s] /\ m.dsn = nextRxSequence

(* Next on the sub-flow and next in the data: deliver it, then read what   *)
(* it was holding up.  The answer is sent when that is done.               *)
InOrder(s, i) ==
  LET m == dataPath[s][i] IN
  /\ IsExpected(s, m)
  /\ Len(recvingBuffer) + m.len <= RcvBufSize
  /\ recvingBuffer' = recvingBuffer \o BytesOf(m)
  /\ Advance(s, m.len)
  /\ nextRxSequence' = nextRxSequence + m.len
  /\ rxPhase' = "reading"
  /\ rxFlow' = s
  /\ rxCursor' = 0
  /\ dataPath' = [dataPath EXCEPT ![s] = RemoveAt(@, i)]
  /\ UNCHANGED <<ackPath, unOrdered, received>>

(* Next on the sub-flow but ahead of the data: the sub-flow advances if    *)
(* the segment was not stored before.                                      *)
AheadOfData(s, i) ==
  LET m == dataPath[s][i] IN
  /\ m.ssn = RxSeqNumber[s]
  /\ m.dsn > nextRxSequence
  /\ StoreUnOrderedData(s, m)
  /\ Advance(s, IF IsStored(m) THEN 0 ELSE m.len)
  /\ Answer(s, i)
  /\ UNCHANGED <<nextRxSequence, recvingBuffer, received, rxLoop>>

(* A gap on the sub-flow: store it. *)
OutOfOrder(s, i) ==
  LET m == dataPath[s][i] IN
  /\ m.ssn > RxSeqNumber[s]
  /\ m.dsn > nextRxSequence
  /\ StoreUnOrderedData(s, m)
  /\ UNCHANGED RxSeqNumber
  /\ Answer(s, i)
  /\ UNCHANGED <<nextRxSequence, recvingBuffer, received, rxLoop>>

(* Wrong variant of Duplicate: it is not answered. *)
DuplicateUnanswered(s, i) ==
  /\ dataPath[s][i].ssn < RxSeqNumber[s]
  /\ dataPath' = [dataPath EXCEPT ![s] = RemoveAt(@, i)]
  /\ UNCHANGED <<receiverVars, ackPath>>

(* Received before: only answer. *)
Duplicate(s, i) ==
  /\ dataPath[s][i].ssn < RxSeqNumber[s]
  /\ UNCHANGED RxSeqNumber
  /\ Answer(s, i)
  /\ UNCHANGED <<nextRxSequence, unOrdered, recvingBuffer, received, rxLoop>>

ReceivedData(s) ==
  /\ rxPhase = "idle"
  /\ \E i \in Leaving(dataPath[s]) :
       \/ InOrder(s, i)
       \/ AheadOfData(s, i)
       \/ OutOfOrder(s, i)
       \/ Duplicate(s, i)

-----------------------------------------------------------------------------
(* Wrong variant: the sink waits for ReadSize bytes. *)
HandleFullRead(bytes) ==
  LET amount == IF Len(bytes) < ReadSize THEN 0 ELSE ReadSize IN
  /\ recvingBuffer' = SubSeq(bytes, amount + 1, Len(bytes))
  /\ received' = received \o SubSeq(bytes, 1, amount)

(* NotifyDataRecv: the sink reads up to ReadSize of the bytes there are. *)
HandleRead(bytes) ==
  LET amount == IF Len(bytes) <= ReadSize THEN Len(bytes) ELSE ReadSize IN
  /\ recvingBuffer' = SubSeq(bytes, amount + 1, Len(bytes))
  /\ received' = received \o SubSeq(bytes, 1, amount)

(* The entry the iteration of ReadUnOrderedData visits next. *)
IsNext(e) ==
  /\ e.dsn > rxCursor
  /\ \A f \in unOrdered : f.dsn > rxCursor => e.dsn <= f.dsn

(* Wrong variants of ReadEntry: the sub-flow of the entry is not advanced, *)
(* and the entry is not erased.                                            *)
ReadEntryOnly(e) ==
  /\ e.dsn <= nextRxSequence
  /\ Len(recvingBuffer) + e.len <= RcvBufSize
  /\ HandleRead(recvingBuffer \o BytesOf(e))
  /\ nextRxSequence' = nextRxSequence + e.len
  /\ unOrdered' = unOrdered \ {e}
  /\ UNCHANGED RxSeqNumber

ReadEntryAndKeep(e) ==
  /\ e.dsn <= nextRxSequence
  /\ Len(recvingBuffer) + e.len <= RcvBufSize
  /\ HandleRead(recvingBuffer \o BytesOf(e))
  /\ nextRxSequence' = nextRxSequence + e.len
  /\ Advance(e.sub, IF e.ssn = RxSeqNumber[e.sub] THEN e.len ELSE 0)
  /\ UNCHANGED unOrdered

(* The data has come up to e: deliver it. *)
ReadEntry(e) ==
  /\ e.dsn <= nextRxSequence
  /\ Len(recvingBuffer) + e.len <= RcvBufSize
  /\ HandleRead(recvingBuffer \o BytesOf(e))
  /\ nextRxSequence' = nextRxSequence + e.len
  /\ Advance(e.sub, IF e.ssn = RxSeqNumber[e.sub] THEN e.len ELSE 0)
  /\ unOrdered' = unOrdered \ {e}

(* The data has not, but the sub-flow may have. *)
PassEntry(e) ==
  /\ e.dsn > nextRxSequence
  /\ Advance(e.sub, IF e.ssn = RxSeqNumber[e.sub] THEN e.len ELSE 0)
  /\ UNCHANGED <<nextRxSequence, unOrdered, recvingBuffer, received>>

ReadStep ==
  /\ rxPhase = "reading"
  /\ \E e \in unOrdered :
       /\ IsNext(e)
       /\ ReadEntry(e) \/ PassEntry(e)
       /\ rxCursor' = e.dsn
  /\ UNCHANGED <<rxPhase, rxFlow, pathVars>>

(* The list is read: the sink is notified of the segment that started it,  *)
(* and that segment is answered.                                           *)
ReadDone ==
  /\ rxPhase = "reading"
  /\ \A e \in unOrdered : e.dsn <= rxCursor
  /\ HandleRead(recvingBuffer)
  /\ ackPath' = [ackPath EXCEPT ![rxFlow] = Enqueue(@, RxSeqNumber[rxFlow])]
  /\ rxPhase' = "idle"
  /\ rxFlow' = 0
  /\ rxCursor' = 0
  /\ UNCHANGED <<RxSeqNumber, nextRxSequence, unOrdered, dataPath>>

-----------------------------------------------------------------------------
ReceiverStep ==
  \/ ReadStep
  \/ ReadDone
  \/ \E s \in Subflows : ReceivedData(s)

ReceiverTypeOK ==
  /\ RxSeqNumber \in [Subflows -> Nat]
  /\ nextRxSequence \in Nat
  /\ unOrdered \subseteq Stored
  /\ recvingBuffer \in Seq(Nat)
  /\ received \in Seq(Nat)
  /\ rxPhase \in {"idle", "reading"}
  /\ rxFlow \in Subflows
  /\ rxCursor \in Nat
=============================================================================
