--------------------------- MODULE MpTcpCloseInv ---------------------------
(***************************************************************************)
(* The inductive invariant of MpTcpClose, in named parts.                  *)
(***************************************************************************)
EXTENDS MpTcpClose

(* A data segment under way is one that was sent, a FIN is behind all of   *)
(* them and on a sub-flow that takes no new data.                          *)
DataFits(s) ==
  {p \in PacketType :
     /\ p.kind = "DATA" => p.number \in 1 .. maxSeqNb(s) /\ p.dsn = sent[s][p.number]
     /\ p.kind = "FIN" => p.number = maxSeqNb(s) + 1 /\ clientState[s] # "ESTABLISHED"}

DataInTransit == \A s \in Subflows : dataPath[s] \in Seq(DataFits(s))

(* An acknowledgement under way is of what the server has passed, the      *)
(* server's FIN acknowledges the client's.                                 *)
AckFits(s) ==
  {p \in PacketType :
     /\ p.kind = "ACK" => p.number <= RxSeqNumber[s]
     /\ p.kind = "FIN_ACK" =>
          p.number = maxSeqNb(s) + 2 /\ p.number = RxSeqNumber[s]}

AcksInTransit == \A s \in Subflows : ackPath[s] \in Seq(AckFits(s))

(* How far the ends are.  RxSeqNumber is behind the FIN exactly when the   *)
(* FIN was counted, which ends the sub-flow at the server.                 *)
Progress ==
  \A s \in Subflows :
    /\ TxSeqNumber[s] > highestAck[s]
    /\ highestAck[s] < RxSeqNumber[s]
    /\ RxSeqNumber[s] <= maxSeqNb(s) + 2
    /\ RxSeqNumber[s] = maxSeqNb(s) + 2
         => clientState[s] # "ESTABLISHED" /\ serverState[s] # "ESTABLISHED"
    /\ (serverState[s] = "LAST_ACK" \/ (serverState[s] = "CLOSED" /\ ~ reset))
         => RxSeqNumber[s] = maxSeqNb(s) + 2
    /\ finSeq[s] # 0
         => finSeq[s] = maxSeqNb(s) + 1 /\ clientState[s] # "ESTABLISHED"

(* The data numbers: each below nextTxSequence was sent on some sub-flow.  *)
DataNumbers ==
  /\ nextTxSequence >= 1
  /\ nextTxSequence + sendingBuffer <= MaxSegments + 1
  /\ nextRxSequence \in 1 .. nextTxSequence
  /\ \A s \in Subflows :
       /\ maxSeqNb(s) < nextTxSequence
       /\ \A n \in 1 .. maxSeqNb(s) : sent[s][n] \in 1 .. nextTxSequence - 1
  /\ \A d \in 1 .. nextTxSequence - 1 :
       \E s \in Subflows : \E n \in 1 .. maxSeqNb(s) : sent[s][n] = d

(* What is stored was sent and is ahead of the data.                       *)
StoredWasSent ==
  \A e \in unOrdered :
    /\ e.ssn \in 1 .. maxSeqNb(e.sub)
    /\ e.dsn = sent[e.sub][e.ssn]
    /\ e.dsn > nextRxSequence

(* The server holds what a sub-flow has passed.                            *)
PassedIsHeld ==
  \A s \in Subflows : \A n \in 1 .. maxSeqNb(s) :
    n < RxSeqNumber[s] => Holds(s, n)

(* A sub-flow is closed when the application has closed and all data has   *)
(* gone out, or by a reset, which closes all.                              *)
ClosedInTime ==
  /\ closeOnEmpty => closes > 0
  /\ \A s \in Subflows :
       /\ scheduled[s] > 0 => sendingBuffer = 0 /\ closes > 0
       /\ clientState[s] # "CLOSING"
       /\ clientState[s] # "ESTABLISHED" =>
            \/ sendingBuffer = 0 /\ closes > 0
            \/ reset /\ ~ ClientOpen
  /\ fault = "none"

(* Only a sub-flow that has sent its FIN sends it again.                   *)
FinTimed == \A s \in Subflows : clientState[s] = "ESTABLISHED" => retxEvent[s] # "SendFIN"

CloseInv ==
  /\ TypeOK
  /\ DataInTransit
  /\ AcksInTransit
  /\ Progress
  /\ DataNumbers
  /\ StoredWasSent
  /\ PassedIsHeld
  /\ ClosedInTime
  /\ CloseIsTimed
  /\ FinTimed

-----------------------------------------------------------------------------
(* What a proof of CloseHelps needs in addition.                           *)

(* A data number is sent on one sub-flow, and on each they increase.       *)
SentOnce ==
  \A s, t \in Subflows : \A i \in 1 .. maxSeqNb(s), j \in 1 .. maxSeqNb(t) :
    sent[s][i] = sent[t][j] => s = t /\ i = j

SentInOrder ==
  \A s \in Subflows : \A i, j \in 1 .. maxSeqNb(s) : i < j => sent[s][i] < sent[s][j]

(* A sub-flow has passed what is delivered, although it does not pass what *)
(* is stored when that comes again.                                        *)
DeliveredIsPassed ==
  \A s \in Subflows : \A n \in 1 .. maxSeqNb(s) :
    sent[s][n] < nextRxSequence => n < RxSeqNumber[s]

(* The client has finished with a sub-flow only when its FIN was counted.  *)
AnsweredIsCounted ==
  \A s \in Subflows :
    clientState[s] \in {"TIME_WAIT", "CLOSED"} /\ ~ reset
      => RxSeqNumber[s] = maxSeqNb(s) + 2

OrderInv == SentOnce /\ SentInOrder /\ DeliveredIsPassed /\ AnsweredIsCounted
=============================================================================
