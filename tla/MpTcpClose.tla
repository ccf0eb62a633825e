----------------------------- MODULE MpTcpClose -----------------------------
(***************************************************************************)
(* Closing an MPTCP connection: MpTcpSocketBase at the client, which sends *)
(* data and closes first, and at the server, which answers each FIN with   *)
(* its own.  Each sub-flow is closed for itself, while data is still under *)
(* way on all of them.                                                     *)
(*                                                                         *)
(* Every segment is one unit long, so a sub-flow's numbers count segments. *)
(* How much data goes out when is left open here (MpTcpSender has the      *)
(* windows): a sub-flow may send whenever the code's conditions other than *)
(* the window allow it.  All sub-flows are established at the start.       *)
(***************************************************************************)
EXTENDS MpTcpPaths, FiniteSets

CONSTANTS
  MaxSegments,       \* bound: the segments the application writes
  SpuriousTimeouts   \* TRUE if timers may fire while packets are under way

ASSUME CloseAssumption ==
  /\ MaxSegments \in Nat
  /\ SpuriousTimeouts \in BOOLEAN

VARIABLES
  clientState,      \* state of the client's sub-flows
  sent,             \* sent[s][n]: the data number of segment n of s (mapDSN)
  TxSeqNumber,      \* the next segment of the sub-flow to send
  highestAck,       \* the last segment that is acknowledged
  retxEvent,        \* "none", or what it will call: "ReTxTimeout", "SendFIN"
  nextTxSequence,   \* the next data number
  sendingBuffer,    \* segments written and not sent yet
  closes,           \* calls of Close: by SendData and by StopApplication
  closeOnEmpty,     \* m_closeOnEmpty
  currentSublow,    \* the client's sub-flow used last
  scheduled,        \* how often DoClose of a sub-flow is scheduled
  serverState,      \* state of the server's sub-flows
  RxSeqNumber,      \* the server's: the next segment expected on a sub-flow
  finSeq,           \* the server's m_finSeq, or 0 if not m_gotFin
  nextRxSequence,   \* the server's: the next data number expected
  unOrdered,        \* the server's: segments that wait for earlier data
  reset,            \* history: a RST has closed all sub-flows of an end
  fault             \* the assertion or fatal error that ended the program

clientVars == <<clientState, sent, TxSeqNumber, highestAck, retxEvent,
                nextTxSequence, sendingBuffer, closes, closeOnEmpty,
                currentSublow, scheduled>>
receiveVars == <<RxSeqNumber, finSeq, nextRxSequence, unOrdered>>
serverVars == <<serverState, receiveVars>>
vars == <<clientVars, serverVars, reset, fault, pathVars>>

-----------------------------------------------------------------------------
(* Packets: number is the sub-flow's sequence number or, from the server,  *)
(* the acknowledgement.                                                    *)
Packet(kind, number, dsn) == [kind |-> kind, number |-> number, dsn |-> dsn]

Data(s, n) == Packet("DATA", n, sent'[s][n])
Fin(n) == Packet("FIN", n, 0)
FinAck(n) == Packet("FIN_ACK", n, 0)
Ack(n) == Packet("ACK", n, 0)
Rst == Packet("RST", 0, 0)

Send(path, s, p) == [path EXCEPT ![s] = Enqueue(@, p)]

Take(path, s, i) == [path EXCEPT ![s] = RemoveAt(@, i)]

(* mapDSN holds the segments that are sent and not acknowledged. *)
maxSeqNb(s) == Len(sent[s])
Unacked(s) == highestAck[s] < maxSeqNb(s)

Init ==
  /\ PathInit
  /\ clientState = [s \in Subflows |-> "ESTABLISHED"]
  /\ sent = [s \in Subflows |-> << >>]
  /\ TxSeqNumber = [s \in Subflows |-> 1]
  /\ highestAck = [s \in Subflows |-> 0]
  /\ retxEvent = [s \in Subflows |-> "none"]
  /\ nextTxSequence = 1
  /\ sendingBuffer = 0
  /\ closes = 0
  /\ closeOnEmpty = FALSE
  /\ currentSublow \in Subflows
  /\ scheduled = [s \in Subflows |-> 0]
  /\ serverState = [s \in Subflows |-> "ESTABLISHED"]
  /\ RxSeqNumber = [s \in Subflows |-> 1]
  /\ finSeq = [s \in Subflows |-> 0]
  /\ nextRxSequence = 1
  /\ unOrdered = {}
  /\ reset = FALSE
  /\ fault = "none"

-----------------------------------------------------------------------------
(* The client: sending. *)

Open(s) == clientState[s] \in {"ESTABLISHED", "FIN_WAIT_1", "CLOSING"}
ClientOpen == \E s \in Subflows : clientState[s] # "CLOSED"

(* FillBuffer; the application writes until it or the peer has closed. *)
FillBuffer ==
  /\ closes = 0 /\ ClientOpen
  /\ nextTxSequence + sendingBuffer <= MaxSegments
  /\ sendingBuffer' = sendingBuffer + 1
  /\ UNCHANGED <<clientState, sent, TxSeqNumber, highestAck, retxEvent,
                 nextTxSequence, closes, closeOnEmpty, currentSublow, scheduled,
                 serverVars, reset, fault, pathVars>>

(* Wrong variant: TxSeqNumber, which a time-out sets back. *)
FinAtTx(tx, max) == tx

(* The number of a FIN: behind all data that was ever sent. *)
FinAt(tx, max) == IF max # tx - 1 THEN max + 1 ELSE tx

(* retxEvent is set if it has expired. *)
Start(event, call) == IF event = "none" THEN call ELSE event

Established == {s \in Subflows : clientState[s] = "ESTABLISHED"}

FirstEstablished(s) == s \in Established /\ \A t \in Established : s <= t

(* Wrong variant: what is still in the send buffer is forgotten. *)
ClosesNowAnyway == closeOnEmpty

(* The send buffer has become empty after Close was called. *)
ClosesNow == closeOnEmpty /\ sendingBuffer' = 0

(* Wrong variant: only the first sub-flow is closed. *)
ScheduleNone(f) == scheduled

(* SendAllSubflowsFIN schedules DoClose for all but the first, f. *)
ScheduleOthers(f) ==
  [t \in Subflows |-> IF t \in Established \ {f} THEN scheduled[t] + 1
                                                 ELSE scheduled[t]]

(* The end of SendDataPacket: the segment n of s goes out.  With           *)
(* closeOnEmpty and an empty buffer SendAllSubflowsFIN follows: the first  *)
(* established sub-flow sends its FIN, DoClose of the others is scheduled. *)
SendAndClose(s, n) ==
  LET path   == Send(dataPath, s, Data(s, n))
      timers == [retxEvent EXCEPT ![s] = Start(@, "ReTxTimeout")] IN
  \/ /\ ClosesNow
     /\ \E f \in Subflows :
          /\ FirstEstablished(f)
          /\ clientState' = [clientState EXCEPT ![f] = "FIN_WAIT_1"]
          /\ scheduled' = ScheduleOthers(f)
          /\ dataPath' = Send(path, f, Fin(FinAt(TxSeqNumber'[f], Len(sent'[f]))))
          /\ retxEvent' = [timers EXCEPT ![f] = Start(@, "SendFIN")]
  \/ /\ ~ ClosesNow \/ Established = {}
     /\ dataPath' = path
     /\ retxEvent' = timers
     /\ UNCHANGED <<clientState, scheduled>>

(* A sub-flow whose TxSeqNumber a time-out has set back sends again what   *)
(* it sent before: in ESTABLISHED from the main loop of SendPendingData,   *)
(* in any state from the one for an empty buffer.                          *)
SendAgain(s) ==
  /\ Open(s)
  /\ TxSeqNumber[s] <= maxSeqNb(s)
  /\ sendingBuffer = 0 \/ clientState[s] = "ESTABLISHED"
  /\ TxSeqNumber' = [TxSeqNumber EXCEPT ![s] = @ + 1]
  /\ currentSublow' = s
  /\ UNCHANGED <<sent, sendingBuffer>>
  /\ SendAndClose(s, TxSeqNumber[s])
  /\ UNCHANGED <<highestAck, nextTxSequence, closes, closeOnEmpty, serverVars,
                 reset, fault, ackPath>>

(* Wrong variant: the send buffer is not looked at. *)
MaySendNothing(s) == clientState[s] = "ESTABLISHED"

(* New data goes to established sub-flows only. *)
MaySend(s) == clientState[s] = "ESTABLISHED" /\ sendingBuffer > 0

SendDataPacket(s) ==
  /\ MaySend(s)
  /\ TxSeqNumber[s] = maxSeqNb(s) + 1
  /\ sent' = [sent EXCEPT ![s] = Append(@, nextTxSequence)]
  /\ TxSeqNumber' = [TxSeqNumber EXCEPT ![s] = @ + 1]
  /\ nextTxSequence' = nextTxSequence + 1
  /\ sendingBuffer' = sendingBuffer - 1
  /\ currentSublow' = s
  /\ SendAndClose(s, TxSeqNumber[s])
  /\ UNCHANGED <<highestAck, closes, closeOnEmpty, serverVars, reset, fault,
                 ackPath>>

-----------------------------------------------------------------------------
(* The client: closing. *)

(* DoClose sends a FIN on an established sub-flow.  In CLOSING it would    *)
(* reset the connection; in every other state it does nothing.             *)
DoClose(s) ==
  IF clientState[s] = "ESTABLISHED"
  THEN /\ clientState' = [clientState EXCEPT ![s] = "FIN_WAIT_1"]
       /\ dataPath' = Send(dataPath, s, Fin(FinAt(TxSeqNumber[s], maxSeqNb(s))))
       /\ retxEvent' = [retxEvent EXCEPT ![s] = Start(@, "SendFIN")]
       /\ UNCHANGED fault
  ELSE /\ fault' = IF clientState[s] = "CLOSING" THEN "reset_by_close" ELSE "none"
       /\ UNCHANGED <<clientState, dataPath, retxEvent>>

(* Close() closes the sub-flow used last, or waits for an empty buffer.    *)
(* SendData calls it at most once and StopApplication once.                *)
Close ==
  /\ closes < 2
  /\ closes' = closes + 1
  /\ IF sendingBuffer > 0
     THEN /\ closeOnEmpty' = TRUE
          /\ UNCHANGED <<clientState, dataPath, retxEvent, fault>>
     ELSE /\ DoClose(currentSublow)
          /\ UNCHANGED closeOnEmpty
  /\ UNCHANGED <<sent, TxSeqNumber, highestAck, nextTxSequence, sendingBuffer,
                 currentSublow, scheduled, serverVars, reset, ackPath>>

ScheduledDoClose(s) ==
  /\ scheduled[s] > 0
  /\ scheduled' = [scheduled EXCEPT ![s] = @ - 1]
  /\ DoClose(s)
  /\ UNCHANGED <<sent, TxSeqNumber, highestAck, nextTxSequence, sendingBuffer,
                 closes, closeOnEmpty, currentSublow, serverVars, reset, ackPath>>

(* Without spurious time-outs a timer waits for what is under way. *)
MayFire(s) == SpuriousTimeouts \/ (dataPath[s] = << >> /\ ackPath[s] = << >>)

(* ReTxTimeout: with nothing outstanding in ESTABLISHED the timer ends.    *)
IdleTimeout(s) ==
  /\ retxEvent[s] = "ReTxTimeout" /\ MayFire(s)
  /\ clientState[s] = "ESTABLISHED" /\ ~ Unacked(s)
  /\ retxEvent' = [retxEvent EXCEPT ![s] = "none"]
  /\ UNCHANGED <<clientState, sent, TxSeqNumber, highestAck, nextTxSequence,
                 sendingBuffer, closes, closeOnEmpty, currentSublow, scheduled,
                 serverVars, reset, fault, pathVars>>

(* Retransmit and DoRetransmit: the first segment outstanding. *)
RetransmitData(s) ==
  /\ retxEvent[s] = "ReTxTimeout" /\ MayFire(s)
  /\ Unacked(s)
  /\ TxSeqNumber' = [TxSeqNumber EXCEPT ![s] = highestAck[s] + 2]
  /\ UNCHANGED sent
  /\ dataPath' = Send(dataPath, s, Data(s, highestAck[s] + 1))
  /\ UNCHANGED <<clientState, highestAck, retxEvent, nextTxSequence,
                 sendingBuffer, closes, closeOnEmpty, currentSublow, scheduled,
                 serverVars, reset, fault, ackPath>>

(* The FIN again, from ReTxTimeout or from the event SendEmptyPacket set.  *)
(* The former expects the send buffer to be empty (an assertion).          *)
RetransmitFin(s) ==
  /\ retxEvent[s] # "none" /\ MayFire(s)
  /\ clientState[s] \in {"FIN_WAIT_1", "CLOSING"}
  /\ retxEvent[s] = "ReTxTimeout" => ~ Unacked(s)
  /\ TxSeqNumber' = IF retxEvent[s] = "ReTxTimeout"
                    THEN [TxSeqNumber EXCEPT ![s] = highestAck[s] + 1]
                    ELSE TxSeqNumber
  /\ fault' = IF retxEvent[s] = "ReTxTimeout" /\ sendingBuffer > 0
              THEN "no_segment" ELSE "none"
  /\ dataPath' = Send(dataPath, s, Fin(FinAt(TxSeqNumber'[s], maxSeqNb(s))))
  /\ retxEvent' = [retxEvent EXCEPT ![s] = "SendFIN"]
  /\ UNCHANGED <<clientState, sent, highestAck, nextTxSequence, sendingBuffer,
                 closes, closeOnEmpty, currentSublow, scheduled, serverVars,
                 reset, ackPath>>

-----------------------------------------------------------------------------
(* The client: receiving. *)

(* Wrong variant: the timer is kept for data only, as without FINs. *)
NeedsTimerForData(s, ack) == sendingBuffer > 0 \/ ack <= maxSeqNb(s)

(* NewACK cancels the timer if nothing is left to retransmit, a FIN        *)
(* included.                                                               *)
NeedsTimer(s, ack) ==
  \/ sendingBuffer > 0 \/ ack <= maxSeqNb(s)
  \/ clientState[s] \in {"FIN_WAIT_1", "CLOSING"}

(* ReceivedAck for a new acknowledgement (NewAckNewReno and NewACK).       *)
NewACK(s, ack) ==
  /\ highestAck' = [highestAck EXCEPT ![s] = ack - 1]
  /\ TxSeqNumber' = [TxSeqNumber EXCEPT ![s] = IF ack > @ THEN ack ELSE @]

(* An acknowledgement, old or new.  A third duplicate and a partial one in *)
(* fast recovery retransmit the first segment outstanding: MpTcpSender     *)
(* counts them, here any one may.                                          *)
ReceivedAck(s, p) ==
  /\ p.kind = "ACK"
  /\ clientState[s] \in {"ESTABLISHED", "FIN_WAIT_1"}
  /\ \/ /\ p.number > highestAck[s] + 1
        /\ NewACK(s, p.number)
        /\ retxEvent' = [retxEvent EXCEPT ![s] =
                           IF NeedsTimer(s, p.number) THEN "ReTxTimeout" ELSE "none"]
     \/ /\ p.number <= highestAck[s] + 1
        /\ UNCHANGED <<highestAck, TxSeqNumber, retxEvent>>
  /\ UNCHANGED <<sent, clientState, dataPath, reset>>

FastRetransmit(s, p) ==
  /\ p.kind = "ACK"
  /\ clientState[s] \in {"ESTABLISHED", "FIN_WAIT_1"}
  /\ p.number > highestAck[s] /\ p.number <= maxSeqNb(s)
  /\ highestAck' = [highestAck EXCEPT ![s] = p.number - 1]
  /\ TxSeqNumber' = [TxSeqNumber EXCEPT ![s] =
                       IF p.number + 1 > @ THEN p.number + 1 ELSE @]
  /\ retxEvent' = [retxEvent EXCEPT ![s] = "ReTxTimeout"]
  /\ UNCHANGED <<sent, clientState, reset>>
  /\ dataPath' = Send(dataPath, s, Data(s, p.number))

(* The server's FIN with the acknowledgement of the client's.              *)
ReceiveFinAck(s, p) ==
  /\ p.kind = "FIN_ACK"
  /\ clientState[s] = "FIN_WAIT_1"
  /\ IF p.number > highestAck[s] + 1
     THEN NewACK(s, p.number) ELSE UNCHANGED <<highestAck, TxSeqNumber>>
  /\ IF sendingBuffer = 0 /\ highestAck'[s] >= maxSeqNb(s) /\ p.number = highestAck'[s] + 1
     THEN /\ clientState' = [clientState EXCEPT ![s] = "TIME_WAIT"]
          /\ retxEvent' = [retxEvent EXCEPT ![s] = "none"]
     ELSE /\ clientState' = [clientState EXCEPT ![s] = "CLOSING"]
          /\ retxEvent' = [retxEvent EXCEPT ![s] = "ReTxTimeout"]
  /\ dataPath' = Send(dataPath, s, Ack(TxSeqNumber'[s]))
  /\ UNCHANGED <<sent, reset>>

(* CloseAndNotifyAllSubflows. *)
ReceiveReset(s, p) ==
  /\ p.kind = "RST"
  /\ clientState[s] \in {"ESTABLISHED", "FIN_WAIT_1"}
  /\ clientState' = [t \in Subflows |-> "CLOSED"]
  /\ retxEvent' = [t \in Subflows |-> "none"]
  /\ reset' = TRUE
  /\ UNCHANGED <<sent, TxSeqNumber, highestAck, dataPath>>

(* Nothing is done in TIME_WAIT and CLOSING.  A closed sub-flow answers    *)
(* with RST, unless it has kept its endpoint from TIME_WAIT on and the     *)
(* connection is closed.                                                   *)
ClientRefuses(s, p) ==
  /\ clientState[s] \in {"TIME_WAIT", "CLOSING", "CLOSED"}
  /\ \/ /\ clientState[s] = "CLOSED" /\ p.kind # "RST"
        /\ dataPath' = Send(dataPath, s, Rst)
     \/ /\ clientState[s] = "CLOSED" => p.kind = "RST" \/ ~ ClientOpen
        /\ UNCHANGED dataPath
  /\ UNCHANGED <<sent, clientState, TxSeqNumber, highestAck, retxEvent, reset>>

ToClient(s) ==
  \E i \in Leaving(ackPath[s]) :
    LET p == ackPath[s][i] IN
    /\ ackPath' = Take(ackPath, s, i)
    /\ \/ ReceivedAck(s, p)
       \/ FastRetransmit(s, p)
       \/ ReceiveFinAck(s, p)
       \/ ReceiveReset(s, p)
       \/ ClientRefuses(s, p)
    /\ currentSublow' = IF ClientOpen THEN s ELSE currentSublow
    /\ UNCHANGED <<nextTxSequence, sendingBuffer, closes, closeOnEmpty, scheduled,
                   serverVars, fault>>

(* CloseMultipathConnection, which the end of TIME_WAIT has called.        *)
CloseMultipathConnection ==
  /\ \E s \in Subflows : clientState[s] = "TIME_WAIT"
  /\ clientState' = [s \in Subflows |->
                       IF clientState[s] = "TIME_WAIT" THEN "CLOSED"
                                                       ELSE clientState[s]]
  /\ UNCHANGED <<sent, TxSeqNumber, highestAck, retxEvent, nextTxSequence,
                 sendingBuffer, closes, closeOnEmpty, currentSublow, scheduled,
                 serverVars, reset, fault, pathVars>>

-----------------------------------------------------------------------------
(* The server: data. *)

(* The first number from n on that is not taken. *)
FirstFree(n, taken) ==
  CHOOSE k \in n .. MaxSegments + 2 :
    k \notin taken /\ \A j \in n .. k - 1 : j \in taken

Entry(s, p) == [sub |-> s, dsn |-> p.dsn, ssn |-> p.number]

StoredOn(s) == {e.ssn : e \in {x \in unOrdered : x.sub = s}}

IsStored(p) == \E e \in unOrdered : e.dsn = p.dsn

(* Next on the sub-flow and in the data: ReadUnOrderedData goes through    *)
(* the list once, delivers what follows, and lets every sub-flow pass what *)
(* it has stored.                                                          *)
InOrder(s, p) ==
  /\ p.number = RxSeqNumber[s] /\ p.dsn = nextRxSequence
  /\ nextRxSequence' =
       FirstFree(nextRxSequence + 1, {e.dsn : e \in unOrdered})
  /\ unOrdered' = {e \in unOrdered : e.dsn >= nextRxSequence'}
  /\ RxSeqNumber' =
       [t \in Subflows |->
          FirstFree(IF t = s THEN RxSeqNumber[t] + 1 ELSE RxSeqNumber[t],
                    StoredOn(t))]

(* Ahead of the data: stored; the sub-flow passes it if it is next there   *)
(* and was not stored before.                                              *)
OutOfOrder(s, p) ==
  /\ p.number >= RxSeqNumber[s] /\ p.dsn > nextRxSequence
  /\ unOrdered' = IF IsStored(p) THEN unOrdered ELSE unOrdered \cup {Entry(s, p)}
  /\ RxSeqNumber' = IF p.number = RxSeqNumber[s] /\ ~ IsStored(p)
                    THEN [RxSeqNumber EXCEPT ![s] = @ + 1] ELSE RxSeqNumber
  /\ UNCHANGED nextRxSequence

Duplicate(s, p) ==
  /\ p.number < RxSeqNumber[s]
  /\ UNCHANGED <<RxSeqNumber, nextRxSequence, unOrdered>>

(* Every segment is answered.  m_finSeq < RxSeqNumber after one in order   *)
(* would close the sub-flow (line 912); it never is, because only a FIN    *)
(* takes RxSeqNumber past m_finSeq.                                        *)
ReceivedData(s, p) ==
  /\ p.kind = "DATA"
  /\ serverState[s] \in {"ESTABLISHED", "LAST_ACK"}
  /\ InOrder(s, p) \/ OutOfOrder(s, p) \/ Duplicate(s, p)
  /\ fault' = IF p.dsn = nextRxSequence /\ finSeq[s] \in 1 .. RxSeqNumber'[s] - 1
              THEN "data_after_fin" ELSE "none"
  /\ ackPath' = Send(ackPath, s, Ack(RxSeqNumber'[s]))
  /\ UNCHANGED <<serverState, finSeq, reset>>

-----------------------------------------------------------------------------
(* The server: closing. *)

(* Wrong variant: the FIN is taken wherever it is. *)
CountsAnywhere(s, n) == n >= RxSeqNumber[s]

(* SetFinSequence counts the FIN if it is the next that is expected. *)
Counts(s, n) == n = RxSeqNumber[s]

(* PeerClose: remember where the FIN is.  One that counts ends the         *)
(* sub-flow: DoPeerClose sends the server's own FIN and waits for the last *)
(* ACK.  One that does not is not answered, it has to come again.          *)
PeerClose(s, p) ==
  /\ p.kind = "FIN"
  /\ serverState[s] = "ESTABLISHED"
  /\ IF p.number < RxSeqNumber[s] \/ p.number < finSeq[s]
     THEN /\ fault' = "fin_out_of_range"
          /\ UNCHANGED <<finSeq, RxSeqNumber, serverState, ackPath>>
     ELSE /\ finSeq' = [finSeq EXCEPT ![s] = p.number]
          /\ UNCHANGED fault
          /\ IF Counts(s, p.number)
             THEN /\ RxSeqNumber' = [RxSeqNumber EXCEPT ![s] = p.number + 1]
                  /\ serverState' = [serverState EXCEPT ![s] = "LAST_ACK"]
                  /\ ackPath' = Send(ackPath, s, FinAck(p.number + 1))
             ELSE UNCHANGED <<RxSeqNumber, serverState, ackPath>>
  /\ UNCHANGED <<nextRxSequence, unOrdered, reset>>

(* Received FIN again, the peer probably lost the FIN+ACK. *)
RepeatedFin(s, p) ==
  /\ p.kind = "FIN"
  /\ serverState[s] = "LAST_ACK"
  /\ ackPath' = Send(ackPath, s, FinAck(RxSeqNumber[s]))
  /\ UNCHANGED <<serverState, receiveVars, reset, fault>>

(* ProcessLastAck: the acknowledgement of the server's FIN, or a RST. *)
LastAck(s, p) ==
  /\ p.kind \in {"ACK", "RST"}
  /\ serverState[s] = "LAST_ACK"
  /\ serverState' = [serverState EXCEPT ![s] =
                       IF p.kind = "RST" \/ p.number = RxSeqNumber[s]
                       THEN "CLOSED" ELSE @]
  /\ UNCHANGED <<receiveVars, reset, fault, ackPath>>

(* A RST in ESTABLISHED. *)
ServerReset(s, p) ==
  /\ p.kind = "RST"
  /\ serverState[s] = "ESTABLISHED"
  /\ serverState' = [t \in Subflows |-> "CLOSED"]
  /\ reset' = TRUE
  /\ UNCHANGED <<receiveVars, fault, ackPath>>

ServerOpen == \E s \in Subflows : serverState[s] # "CLOSED"

(* The endpoint of sub-flow 0 is the connection's: as long as another      *)
(* sub-flow is open, sub-flow 0 answers with RST when it is closed.  Any   *)
(* other packet of a closed sub-flow goes to the listening socket, which   *)
(* takes no notice of it.                                                  *)
ServerRefuses(s, p) ==
  /\ serverState[s] = "CLOSED"
  /\ ackPath' = IF s = 0 /\ ServerOpen /\ p.kind # "RST"
                THEN Send(ackPath, s, Rst) ELSE ackPath
  /\ UNCHANGED <<serverVars, reset, fault>>

(* A packet with the number n arrives. *)
ToServer(s, n) ==
  \E i \in Leaving(dataPath[s]) :
    LET p == dataPath[s][i] IN
    /\ p.number = n
    /\ dataPath' = Take(dataPath, s, i)
    /\ \/ ReceivedData(s, p)
       \/ PeerClose(s, p)
       \/ RepeatedFin(s, p)
       \/ LastAck(s, p)
       \/ ServerReset(s, p)
       \/ ServerRefuses(s, p)
    /\ UNCHANGED clientVars

(* The FIN+ACK is sent again after one RTO, and LastAckTimeout, which was  *)
(* scheduled for the same time behind it, closes the sub-flow.             *)
LastAckTimeout(s) ==
  /\ serverState[s] = "LAST_ACK" /\ MayFire(s)
  /\ ackPath' = Send(ackPath, s, FinAck(RxSeqNumber[s]))
  /\ serverState' = [serverState EXCEPT ![s] = "CLOSED"]
  /\ UNCHANGED <<clientVars, receiveVars, reset, fault, dataPath>>

-----------------------------------------------------------------------------
Loss ==
  /\ \E s \in Subflows : LoseData(s) \/ LoseAck(s)
  /\ UNCHANGED <<clientVars, serverVars, reset, fault>>

(* Nothing is under way, and no timer or event will change that. *)
AtRest ==
  /\ \A s \in Subflows :
       /\ dataPath[s] = << >> /\ ackPath[s] = << >>
       /\ retxEvent[s] = "none" /\ scheduled[s] = 0
       /\ clientState[s] # "TIME_WAIT" /\ serverState[s] # "LAST_ACK"
  /\ closes = 2 /\ (sendingBuffer = 0 \/ ~ ClientOpen)

Done == (AtRest \/ fault # "none") /\ UNCHANGED vars

ClientStep ==
  \/ FillBuffer \/ Close \/ CloseMultipathConnection
  \/ \E s \in Subflows :
       \/ SendDataPacket(s) \/ SendAgain(s) \/ ScheduledDoClose(s)
       \/ IdleTimeout(s) \/ RetransmitData(s) \/ RetransmitFin(s)
       \/ ToClient(s)

Numbers == 0 .. MaxSegments + 2

ServerStep ==
  \E s \in Subflows :
    \/ \E n \in Numbers : ToServer(s, n)
    \/ LastAckTimeout(s)

Next ==
  \/ fault = "none" /\ (ClientStep \/ ServerStep \/ Loss)
  \/ Done

Spec == Init /\ [][Next]_vars

-----------------------------------------------------------------------------
(* What makes the close correct. *)

PacketType ==
  [kind : {"DATA", "FIN", "FIN_ACK", "ACK", "RST"}, number : Nat, dsn : Nat]

TypeOK ==
  /\ dataPath \in [Subflows -> Seq(PacketType)]
  /\ ackPath \in [Subflows -> Seq(PacketType)]
  /\ clientState \in [Subflows -> {"ESTABLISHED", "FIN_WAIT_1", "CLOSING",
                                   "TIME_WAIT", "CLOSED"}]
  /\ sent \in [Subflows -> Seq(Nat)]
  /\ TxSeqNumber \in [Subflows -> Nat]
  /\ highestAck \in [Subflows -> Nat]
  /\ retxEvent \in [Subflows -> {"none", "ReTxTimeout", "SendFIN"}]
  /\ nextTxSequence \in Nat
  /\ sendingBuffer \in Nat
  /\ closes \in 0 .. 2
  /\ closeOnEmpty \in BOOLEAN
  /\ currentSublow \in Subflows
  /\ scheduled \in [Subflows -> Nat]
  /\ serverState \in [Subflows -> {"ESTABLISHED", "LAST_ACK", "CLOSED"}]
  /\ RxSeqNumber \in [Subflows -> Nat]
  /\ finSeq \in [Subflows -> Nat]
  /\ nextRxSequence \in Nat
  /\ unOrdered \subseteq [sub : Subflows, dsn : Nat, ssn : Nat]
  /\ reset \in BOOLEAN
  /\ fault \in {"none", "reset_by_close", "no_segment", "data_after_fin",
                "fin_out_of_range"}

(* The server counts the FIN of a sub-flow only when it holds every        *)
(* segment that was or will be sent on it, whatever is lost or overtaken:  *)
(* the FIN's number behind maxSeqNb (lines 2132 to 2139), SetFinSequence   *)
(* and Finished make that so together with SendPendingData.                *)
Holds(s, n) ==
  sent[s][n] < nextRxSequence \/ \E e \in unOrdered : e.dsn = sent[s][n]

FinFollowsData ==
  \A s \in Subflows :
    serverState[s] # "ESTABLISHED" /\ ~ reset
      => /\ clientState[s] # "ESTABLISHED"
         /\ \A n \in 1 .. maxSeqNb(s) : Holds(s, n)

(* When the server's connection is closed and nobody has reset it, the     *)
(* sink has got all that the application wrote: no sub-flow's close cuts   *)
(* off data that is stored for another, or still in the send buffer.       *)
NothingCutOff ==
  ~ ServerOpen /\ ~ reset
    => nextRxSequence = nextTxSequence /\ sendingBuffer = 0 /\ unOrdered = {}

(* To its applications the close is the end of one stream of segments: the *)
(* writer ends it with Close, the server closes its last sub-flow when all *)
(* was delivered, or because of a RST, and nothing is written after Close  *)
(* or delivered after the end.                                             *)
EndedStream == INSTANCE MpTcpEndedStream WITH
  StreamLength <- MaxSegments,
  written <- nextTxSequence - 1 + sendingBuffer,
  delivered <- [d \in 1 .. nextRxSequence - 1 |-> d],
  shut <- closes > 0,
  ended <- ~ ServerOpen,
  aborted <- reset

IsEndedStream == EndedStream!EndedSpec

(* The assertions and fatal errors of the close are not reached: DoClose   *)
(* never resets the connection (line 3408), a FIN is never out of range    *)
(* (3169), data never completes a FIN (912, 3210), a FIN in flight leaves  *)
(* no data in the send buffer (1333), and the server's FIN never meets an  *)
(* established sub-flow (3196).                                            *)
CloseMeetsAssertions ==
  /\ fault = "none"
  /\ \A s \in Subflows :
       /\ clientState[s] # "CLOSING"
       /\ clientState[s] = "ESTABLISHED" =>
            \A i \in DOMAIN ackPath[s] : ackPath[s][i].kind # "FIN_ACK"

(* One timer serves data and FIN: outstanding data is always under         *)
(* ReTxTimeout, and a FIN that is not acknowledged is under one of the two *)
(* (lines 1975, 2088, 2102 and 2223).                                      *)
CloseIsTimed ==
  \A s \in Subflows :
    /\ Open(s) /\ Unacked(s) => retxEvent[s] = "ReTxTimeout"
    /\ clientState[s] = "FIN_WAIT_1" => retxEvent[s] # "none"

(* Sending sub-flow t's first segment again, or its FIN, is answered with  *)
(* what takes the client on, or is what the server waits for.              *)
ResendHelps(t) ==
  /\ Open(t) /\ serverState[t] # "CLOSED"
  /\ IF Unacked(t)
     THEN /\ retxEvent[t] = "ReTxTimeout"
          /\ \/ highestAck[t] + 1 < RxSeqNumber[t]
             \/ sent[t][highestAck[t] + 1] = nextRxSequence
     ELSE /\ retxEvent[t] # "none" /\ clientState[t] = "FIN_WAIT_1"
          /\ RxSeqNumber[t] > maxSeqNb(t)

(* A FIN that is not answered, and data that is not delivered, wait for no *)
(* more than a timer.  A FIN that does not count is thrown away, as is the *)
(* data behind a gap that was stored before (lines 912 and 924), so it may *)
(* be the timer of another sub-flow; but that one is not closed before it  *)
(* has done its part, neither at the client nor at the server.             *)
CloseHelps ==
  /\ ~ reset
  /\ \/ nextRxSequence < nextTxSequence
     \/ \E s \in Subflows : clientState[s] = "FIN_WAIT_1" /\ serverState[s] # "CLOSED"
  => \E t \in Subflows : ResendHelps(t)

(* The FIN of a sub-flow has one place: once the server has seen one, no   *)
(* other ends elsewhere, although each resend computes its number anew.    *)
FinKeepsPlace ==
  [][\A s \in Subflows : finSeq[s] # 0 => finSeq'[s] = finSeq[s]]_vars

(* A sub-flow that sends a FIN is closed, at the client or at least at the *)
(* server: a FIN that does not count is not answered, and only the FIN     *)
(* that is sent again is (line 912).                                       *)
FinIsAnswered ==
  \A s \in Subflows :
    clientState[s] = "FIN_WAIT_1"
      ~> (clientState[s] \in {"TIME_WAIT", "CLOSED"} \/ serverState[s] = "CLOSED")

(* When Close finds data in the send buffer, every sub-flow is closed once *)
(* the data has gone out.                                                  *)
CloseOnEmpty ==
  \A s \in Subflows : closeOnEmpty ~> clientState[s] # "ESTABLISHED"

(* A FIN and a FIN+ACK are sent again "to guard against lost" (line 2223), *)
(* so losing them does not cut off data: a sub-flow that the client has    *)
(* closed has delivered all that was sent on it.                           *)
LossCutsNothingOff ==
  \A s \in Subflows :
    clientState[s] = "CLOSED" => \A n \in 1 .. maxSeqNb(s) : Holds(s, n)

-----------------------------------------------------------------------------
(* The simulator runs what is scheduled.  SendPendingData is run again     *)
(* after each acknowledgement.  A segment or FIN that is sent again and    *)
(* again is not lost each time, RateErrorModel is random.                  *)
Fairness ==
  \A s \in Subflows :
    /\ WF_vars(fault = "none" /\ SendDataPacket(s))
    /\ WF_vars(fault = "none" /\ ScheduledDoClose(s))
    /\ WF_vars(fault = "none" /\ (RetransmitData(s) \/ RetransmitFin(s)))
    /\ SF_vars(fault = "none" /\ ToClient(s))
    /\ \A n \in 1 .. MaxSegments + 1 : SF_vars(fault = "none" /\ ToServer(s, n))

FairSpec == Spec /\ Fairness
=============================================================================
