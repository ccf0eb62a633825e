---------------------- MODULE MpTcpHandshakeAgreement ----------------------
(***************************************************************************)
(* The hand-shake implements MpTcpAgreement, for every number of           *)
(* sub-flows, queue places, retries and path managers.                     *)
(***************************************************************************)
EXTENDS MpTcpHandshakeProofs

-----------------------------------------------------------------------------
(* The client remembers no socket but the last one. *)

(* The packets that acknowledge a SYN+ACK. *)
Confirms(p) == p.kind \in {"ACK", "ADDR", "DATA"}

(* What a step may add to the data paths without a word on numbers. *)
NoNewConfirmation ==
  \A s \in Subflows : \A p \in Range(dataPath'[s]) :
    Confirms(p) => p \in Range(dataPath[s])

LEMMA NumbersStay ==
  ASSUME NumbersAgree, UNCHANGED <<rxNumber, forks, remoteToken>>,
         Opening' => Opening, NoNewConfirmation
  PROVE  NumbersAgree'
BY DEF NumbersAgree, NoNewConfirmation, Confirms, ToServerOn

LEMMA SendsNoConfirmation ==
  ASSUME HandshakeInv, NEW s \in Subflows, NEW e \in PacketType, ~ Confirms(e),
         dataPath' = Send(dataPath, s, e)
  PROVE  NoNewConfirmation
<1>1. Adds(dataPath, dataPath', s, e)
  BY PathFacts, SendAdds
<1> QED
  BY <1>1 DEF Adds, NoNewConfirmation

LEMMA TakesNoConfirmation ==
  ASSUME HandshakeInv, NEW s \in Subflows, NEW i \in Leaving(dataPath[s]),
         dataPath' = Take(dataPath, s, i)
  PROVE  /\ NoNewConfirmation
         /\ dataPath[s][i] \in ToServerOn(s) /\ dataPath[s][i] \in PacketType
<1>1. Removes(dataPath, dataPath', s, dataPath[s][i])
  BY PathFacts, TakeRemoves
<1> QED
  BY <1>1 DEF Removes, NoNewConfirmation, ToServerOn

LEMMA KeptPathAddsNone ==
  ASSUME dataPath' = dataPath PROVE NoNewConfirmation
BY DEF NoNewConfirmation

(* A packet that leaves the path to the client was on it. *)
LEMMA ClientGets ==
  ASSUME HandshakeInv, NEW s \in Subflows, NEW i \in Leaving(ackPath[s])
  PROVE  ackPath[s][i] \in ToClientOn(s) /\ ackPath[s][i] \in PacketType
<1>1. Removes(ackPath, Take(ackPath, s, i), s, ackPath[s][i])
  BY PathFacts, TakeRemoves
<1> QED
  BY <1>1 DEF Removes, ToClientOn

LEMMA InitAgrees == Init => NumbersAgree
BY SubflowZero DEF Init, PathInit, NumbersAgree, ToServerOn, Range

LEMMA SynSteps ==
  ASSUME HandshakeInv, NumbersAgree, Connect \/ ClientRetry \/ RetriesCross
  PROVE  NumbersAgree'
<1>1. dataPath' = Send(dataPath, 0, Syn)
  BY DEF Connect, ClientRetry, RetriesCross
<1>2. NoNewConfirmation
  <2>1. Syn \in PacketType /\ ~ Confirms(Syn)
    BY PacketTypes DEF Syn, Packet, Confirms
  <2> QED
    BY <1>1, <2>1, SubflowZero, SendsNoConfirmation
<1>3. UNCHANGED <<rxNumber, forks, remoteToken>> /\ (Opening' => Opening)
  BY DEF Connect, ClientRetry, RetriesCross, serverVars, Opening, HandshakeInv, TypeOK
<1> QED
  BY <1>2, <1>3, NumbersStay

LEMMA InitiateSteps ==
  ASSUME HandshakeInv, NumbersAgree, NEW t \in Subflows, InitiateSingleSubflows(t)
  PROVE  NumbersAgree'
<1>1. UNCHANGED <<rxNumber, forks, remoteToken>> /\ (Opening' => Opening)
  BY SubflowZero DEF InitiateSingleSubflows, serverVars, Opening, HandshakeInv,
     ToCome, TypeOK
<1>2. CASE dataPath' = dataPath
  BY <1>1, <1>2, KeptPathAddsNone, NumbersStay
<1>3. CASE dataPath' = Send(dataPath, t, Join(remoteToken))
  <2>1. Join(remoteToken) \in PacketType /\ ~ Confirms(Join(remoteToken))
    BY PathFacts, PacketTypes DEF Join, Packet, Confirms
  <2> QED
    BY <1>1, <1>3, <2>1, SendsNoConfirmation, NumbersStay
<1> QED
  BY <1>2, <1>3 DEF InitiateSingleSubflows

(* Data on an established sub-flow acknowledges the last socket's SYN+ACK. *)
LEMMA SendDataAgrees ==
  ASSUME HandshakeInv, NumbersAgree, NEW s \in Subflows, SendData(s)
  PROVE  NumbersAgree'
<1>1. /\ UNCHANGED <<rxNumber, forks, remoteToken, clientState>>
      /\ dataPath' = Send(dataPath, s, Data(rxNumber[s]))
      /\ rxNumber[s] = forks
  BY DEF SendData, clientVars, serverVars, HandshakeInv, EndsAgree
<1>2. Adds(dataPath, dataPath', s, Data(rxNumber[s]))
  BY <1>1, PathFacts, PacketTypes, SendAdds
<1> QED
  BY <1>1, <1>2 DEF Adds, NumbersAgree, ToServerOn, Opening

(* The client takes the number of the SYN+ACK, which is the last socket's. *)
LEMMA EstablishedAgrees ==
  ASSUME HandshakeInv, NumbersAgree, NEW s \in Subflows, NEW p \in ToClientOn(s),
         p \in PacketType, p.kind = "SYN_ACK", clientState[s] = "SYN_SENT",
         UNCHANGED forks,
         EstablishedPlain(s, p) \/ EstablishedPorts(s, p) \/ EstablishedMesh(s, p)
  PROVE  NumbersAgree'
<1>1. /\ p.number = forks /\ (p.token # 0 => s = 0)
      /\ rxNumber' = [rxNumber EXCEPT ![s] = forks]
      /\ clientState' = [clientState EXCEPT ![s] = "ESTABLISHED"]
      /\ remoteToken' = remoteToken \/ (remoteToken' = p.token /\ p.token # 0)
  BY DEF HandshakeInv, ServerPackets, EstablishedPlain, EstablishedPorts,
     EstablishedMesh, CompleteSender, ReadCapable, BringsCapable
<1>2. \A t \in Subflows : \A q \in Range(dataPath'[t]) :
        q \in Range(dataPath[t]) \/ t = s
  <2>1. Ack(p.number) \in PacketType /\ Addr(p.number) \in PacketType
    BY <1>1, PathFacts, PacketTypes
  <2>2. Adds(dataPath, Send(dataPath, s, Ack(p.number)), s, Ack(p.number))
    BY <2>1, PathFacts, SendAdds
  <2>3. CASE dataPath' = Send(dataPath, s, Ack(p.number))
    BY <2>2, <2>3 DEF Adds
  <2>4. CASE dataPath' = Send(Send(dataPath, s, Ack(p.number)), s, Addr(p.number))
    <3>1. PICK path \in [Subflows -> Seq(PacketType)] :
            path = Send(dataPath, s, Ack(p.number))
      BY <2>2 DEF Adds
    <3>2. Adds(path, dataPath', s, Addr(p.number))
      BY <2>1, <2>4, <3>1, SendAdds
    <3> QED
      BY <2>2, <3>1, <3>2 DEF Adds
  <2> QED
    BY <2>3, <2>4 DEF EstablishedPlain, EstablishedPorts, EstablishedMesh
<1>3. rxNumber' \in [Subflows -> Nat] /\ rxNumber \in [Subflows -> Nat]
  BY <1>1, PathFacts
<1>4. rxNumber'[s] = forks /\ \A t \in Subflows \ {s} : rxNumber'[t] = rxNumber[t]
  BY <1>1, <1>3
<1>5. ~ Opening'
  BY <1>1, SubflowZero DEF Opening, HandshakeInv, OpeningIsFresh, TypeOK
<1>6. remoteToken' # 0 => rxNumber'[0] = forks
  BY <1>1, <1>4, SubflowZero DEF NumbersAgree
<1> QED
  BY <1>2, <1>4, <1>5, <1>6 DEF NumbersAgree, ToServerOn

LEMMA ToClientAgrees ==
  ASSUME HandshakeInv, NumbersAgree, NEW s \in Subflows, ToClient(s)
  PROVE  NumbersAgree'
<1>1. PICK i \in Leaving(ackPath[s]) :
        LET p == ackPath[s][i] IN
        /\ \/ ReceiveSynAck(s, p) \/ ReceiveAddresses(s, p) \/ ReceiveReset(s, p)
           \/ ClientRefuses(s, p) \/ ClientIgnores(s, p)
        /\ UNCHANGED serverVars
  BY DEF ToClient
<1>2. PICK p \in ToClientOn(s) :
        /\ p \in PacketType
        /\ \/ ReceiveSynAck(s, p) \/ ReceiveAddresses(s, p) \/ ReceiveReset(s, p)
           \/ ClientRefuses(s, p) \/ ClientIgnores(s, p)
  BY <1>1, ClientGets
<1>3. UNCHANGED forks
  BY <1>1 DEF serverVars
<1>4. clientState \in [Subflows -> {"NONE", "SYN_SENT", "ESTABLISHED", "CLOSED"}]
  BY DEF HandshakeInv, TypeOK
<1>5. CASE ReceiveSynAck(s, p)
  <2>1. CASE NotEnabled(s, p)
    BY <1>3, <2>1, KeptPathAddsNone, NumbersStay DEF NotEnabled, Opening
  <2> QED
    BY <1>2, <1>3, <1>5, <2>1, EstablishedAgrees DEF ReceiveSynAck
<1>6. CASE ReceiveAddresses(s, p)
  <2>1. UNCHANGED <<rxNumber, remoteToken>> /\ (Opening' => Opening)
    BY <1>6, <1>4, SubflowZero DEF ReceiveAddresses, Opening
  <2>2. Join(remoteToken) \in PacketType /\ ~ Confirms(Join(remoteToken))
    BY PathFacts, PacketTypes DEF Join, Packet, Confirms
  <2>3. ASSUME NEW t \in Subflows, NEW q \in Range(dataPath'[t]), Confirms(q)
        PROVE  q \in Range(dataPath[t])
    <3>1. \/ dataPath'[t] = dataPath[t]
          \/ dataPath'[t] = Enqueue(dataPath[t], Join(remoteToken))
      BY <1>6 DEF ReceiveAddresses
    <3>2. /\ dataPath[t] \in Seq(PacketType)
          /\ q # Join(remoteToken)
      BY <2>2, <2>3, PathFacts
    <3>3. Range(Enqueue(dataPath[t], Join(remoteToken)))
            \subseteq Range(dataPath[t]) \cup {Join(remoteToken)}
      BY <2>2, <3>2, EnqueueAdds
    <3> QED
      BY <3>1, <3>2, <3>3
  <2>4. NoNewConfirmation
    BY <2>3 DEF NoNewConfirmation
  <2> QED
    BY <1>3, <2>1, <2>4, NumbersStay
<1>7. CASE ReceiveReset(s, p) \/ ClientRefuses(s, p)
  <2>1. UNCHANGED <<rxNumber, remoteToken>> /\ (Opening' => Opening)
    BY <1>7, <1>4, SubflowZero
       DEF ReceiveReset, ClientRefuses, CloseAndNotifyAllSubflows, Opening
  <2>2. Rst \in PacketType /\ ~ Confirms(Rst)
    BY PacketTypes DEF Rst, Packet, Confirms
  <2>3. dataPath' = dataPath \/ dataPath' = Send(dataPath, s, Rst)
    BY <1>7 DEF ReceiveReset, ClientRefuses
  <2>4. NoNewConfirmation
    BY <2>2, <2>3, KeptPathAddsNone, SendsNoConfirmation
  <2> QED
    BY <1>3, <2>1, <2>4, NumbersStay
<1>8. CASE ClientIgnores(s, p)
  BY <1>3, <1>8, KeptPathAddsNone, NumbersStay DEF ClientIgnores, Opening
<1> QED
  BY <1>2, <1>5, <1>6, <1>7, <1>8

(* A socket is accepted for a client that has agreed to none. *)
LEMMA ForkIsFirst ==
  ASSUME HandshakeInv, NEW p \in ToServerOn(0), Fork(0, p)
  PROVE  clientState[0] = "SYN_SENT"
<1>1. SynUnderWay
  BY DEF Fork, SynUnderWay
<1>2. ~ (serverState[0] \in {"SYN_RCVD", "ESTABLISHED"})
  BY SubflowZero DEF Fork, HasEndPoint, ServerOpen
<1> QED
  BY <1>1, <1>2 DEF HandshakeInv, SynMeetsSocket

LEMMA ToServerAgrees ==
  ASSUME HandshakeInv, NumbersAgree, NEW s \in Subflows, ToServer(s)
  PROVE  NumbersAgree'
<1>1. PICK i \in Leaving(dataPath[s]) :
        /\ dataPath' = Take(dataPath, s, i)
        /\ Fork(s, dataPath[s][i]) \/ UNCHANGED forks
        /\ UNCHANGED clientVars
  BY DEF ToServer, ReceiveJoin, RepeatedSyn, ReceiveConfirmation, ReceiveData,
     AnswerAddresses, RefuseClosed, ServerReset, RefuseUnbound, ListenerIgnores,
     ServerIgnores
<1>2. NoNewConfirmation /\ dataPath[s][i] \in ToServerOn(s)
  BY <1>1, TakesNoConfirmation
<1>3. UNCHANGED <<rxNumber, remoteToken, clientState>>
  BY <1>1 DEF clientVars
<1>4. CASE UNCHANGED forks
  BY <1>2, <1>3, <1>4, NumbersStay DEF Opening
<1>5. CASE Fork(s, dataPath[s][i])
  <2>1. s = 0
    BY <1>5 DEF Fork
  <2>2. Opening /\ Opening'
    BY <1>2, <1>3, <1>5, <2>1, ForkIsFirst DEF Opening
  <2>3. /\ remoteToken = 0
        /\ \A t \in Subflows : rxNumber[t] = 0 /\ ~ Answered(t)
    BY <2>2, SubflowZero
       DEF HandshakeInv, OpeningIsFresh, NumbersAgree, Answered, Opening
  <2>4. \A t \in Subflows : \A q \in Range(dataPath'[t]) : ~ Confirms(q)
    BY <1>2, <2>3
       DEF NoNewConfirmation, HandshakeInv, ClientPackets, ToServerOn, Confirms
  <2> QED
    BY <1>3, <2>2, <2>3, <2>4 DEF NumbersAgree, ToServerOn, Confirms
<1> QED
  BY <1>1, <1>4, <1>5

LEMMA LossAgrees ==
  ASSUME HandshakeInv, NumbersAgree, Loss
  PROVE  NumbersAgree'
<1>1. UNCHANGED <<rxNumber, forks, remoteToken, clientState>>
  BY DEF Loss, clientVars, serverVars
<1>2. NoNewConfirmation
  <2>1. PICK s \in Subflows : LoseData(s) \/ LoseAck(s)
    BY DEF Loss
  <2>2. CASE LoseData(s)
    BY <2>2, TakesNoConfirmation DEF LoseData, Take
  <2>3. CASE LoseAck(s)
    BY <2>3, KeptPathAddsNone DEF LoseAck
  <2> QED
    BY <2>1, <2>2, <2>3
<1> QED
  BY <1>1, <1>2, NumbersStay DEF Opening

LEMMA NumbersStep ==
  ASSUME HandshakeInv, NumbersAgree, [Next]_vars
  PROVE  NumbersAgree'
<1>1. CASE ClientGiveUp \/ Listen \/ UNCHANGED vars
  <2>1. UNCHANGED <<rxNumber, forks, remoteToken, dataPath>> /\ (Opening' => Opening)
    BY <1>1, SubflowZero DEF ClientGiveUp, Listen, vars, clientVars, serverVars,
       pathVars, Opening
  <2> QED
    BY <2>1, KeptPathAddsNone, NumbersStay
<1>2. ASSUME NEW s \in Subflows, ServerTimeout(s) PROVE NumbersAgree'
  <2>1. UNCHANGED <<rxNumber, forks, remoteToken, dataPath, clientState>>
    BY <1>2 DEF ServerTimeout, clientVars
  <2> QED
    BY <2>1, KeptPathAddsNone, NumbersStay DEF Opening
<1>3. CASE Running
  BY <1>1, <1>2, <1>3, SynSteps, LossAgrees, ToClientAgrees, ToServerAgrees,
     InitiateSteps, SendDataAgrees DEF Running
<1> QED
  BY <1>1, <1>3 DEF Next, Done

(* The client's RxSeqNumber on a sub-flow, once it has one, is that of the *)
(* server's last socket, and so is what its packets acknowledge.           *)
THEOREM NumbersAreAgreed == Spec => []NumbersAgree
<1>1. HandshakeInv /\ NumbersAgree /\ [Next]_vars => NumbersAgree'
  BY NumbersStep
<1> QED
  BY <1>1, InitAgrees, HandshakeInvariance, PTL DEF Spec

-----------------------------------------------------------------------------
(* The steps of the agreement. *)

LEMMA StatesType ==
  ASSUME HandshakeInv
  PROVE  /\ clientState \in [Subflows -> {"NONE", "SYN_SENT", "ESTABLISHED", "CLOSED"}]
         /\ serverState \in [Subflows -> {"NONE", "SYN_RCVD", "ESTABLISHED", "CLOSED"}]
         /\ rxNumber \in [Subflows -> Nat] /\ forks \in Nat
BY DEF HandshakeInv, TypeOK

LEMMA ConnectAsks ==
  ASSUME HandshakeInv, Connect
  PROVE  Agreement!AgreementNext
<1>1. clientState' = [t \in Subflows |-> IF t \in {0} THEN "SYN_SENT" ELSE clientState[t]]
  BY StatesType DEF Connect
<1>2. Agreement!Ask({0})
  BY <1>1 DEF Connect, serverVars, Agreement!Ask
<1> QED
  BY <1>2, SubflowZero DEF Agreement!AgreementNext

LEMMA GiveUpCloses ==
  ASSUME HandshakeInv, ClientGiveUp
  PROVE  Agreement!AgreementNext
<1>1. \A t \in Subflows \ {0} : clientState[t] = "NONE"
  BY DEF ClientGiveUp, HandshakeInv, OpeningIsFresh, Opening
<1>2. clientState' = Agreement!Closed(clientState)
  BY <1>1, StatesType, SubflowZero DEF ClientGiveUp, Agreement!Closed
<1>3. Agreement!CloseClient
  BY <1>2 DEF ClientGiveUp, serverVars, Agreement!CloseClient
<1> QED
  BY <1>3 DEF Agreement!AgreementNext

LEMMA InitiateAsks ==
  ASSUME HandshakeInv, NEW t \in Subflows, InitiateSingleSubflows(t)
  PROVE  [Agreement!AgreementNext]_Agreement!agreementVars
<1>1. UNCHANGED <<serverState, forks, rxNumber>>
  BY DEF InitiateSingleSubflows, serverVars
<1>2. t # 0 /\ clientState[t] = "NONE" /\ ~ Opening
  BY DEF InitiateSingleSubflows, HandshakeInv, ToCome, OpeningIsFresh
<1>3. CASE clientState[0] = "CLOSED"
  BY <1>1, <1>3 DEF InitiateSingleSubflows, Agreement!agreementVars
<1>4. CASE clientState[0] # "CLOSED"
  <2>1. clientState[0] = "ESTABLISHED"
    BY <1>2, <1>4, StatesType, SubflowZero DEF Opening
  <2>2. clientState' = [u \in Subflows |-> IF u \in {t} THEN "SYN_SENT" ELSE clientState[u]]
    BY <1>4, StatesType DEF InitiateSingleSubflows
  <2>3. Agreement!Ask({t})
    BY <1>1, <1>2, <2>1, <2>2 DEF Agreement!Ask
  <2> QED
    BY <2>3 DEF Agreement!AgreementNext
<1> QED
  BY <1>3, <1>4

LEMMA SynAckAgrees ==
  ASSUME HandshakeInv, NEW s \in Subflows, NEW p \in ToClientOn(s),
         ReceiveSynAck(s, p), UNCHANGED serverVars
  PROVE  [Agreement!AgreementNext]_Agreement!agreementVars
<1>1. CASE NotEnabled(s, p)
  BY <1>1 DEF NotEnabled, serverVars, Agreement!agreementVars
<1>2. CASE EstablishedPlain(s, p) \/ EstablishedPorts(s, p) \/ EstablishedMesh(s, p)
  <2>1. CompleteSender(s, p)
    BY <1>2 DEF EstablishedPlain, EstablishedPorts, EstablishedMesh
  <2>2. p.number = forks /\ serverState[s] # "NONE"
    BY DEF ReceiveSynAck, HandshakeInv, ServerPackets
  <2>3. Agreement!Agree(s)
    BY <2>1, <2>2 DEF CompleteSender, ReceiveSynAck, serverVars, Agreement!Agree
  <2> QED
    BY <2>3 DEF Agreement!AgreementNext
<1> QED
  BY <1>1, <1>2 DEF ReceiveSynAck

LEMMA AddressesAsk ==
  ASSUME HandshakeInv, NEW s \in Subflows, NEW p \in ToClientOn(s),
         ReceiveAddresses(s, p), UNCHANGED serverVars
  PROVE  Agreement!AgreementNext
<1> DEFINE S == Subflows \ {0}
<1>1. s = 0 /\ pathManager = "FullMesh"
  BY DEF ReceiveAddresses, HandshakeInv, ServerPackets
<1>2. \A t \in S : clientState[t] = "NONE"
  BY <1>1 DEF ReceiveAddresses, HandshakeInv, ToCome
<1>3. clientState[0] = "ESTABLISHED"
  BY <1>1 DEF ReceiveAddresses, HandshakeInv, OpeningIsFresh, Opening
<1>4. clientState' = [t \in Subflows |-> IF t \in S THEN "SYN_SENT" ELSE clientState[t]]
  BY DEF ReceiveAddresses
<1> HIDE DEF S
<1>5. Agreement!Ask(S)
  BY <1>2, <1>3, <1>4 DEF ReceiveAddresses, serverVars, Agreement!Ask
<1>6. S \in SUBSET Subflows
  BY DEF S
<1> QED
  BY <1>5, <1>6 DEF Agreement!AgreementNext

LEMMA ResetCloses ==
  ASSUME HandshakeInv, NEW s \in Subflows, NEW p \in ToClientOn(s),
         ReceiveReset(s, p), UNCHANGED serverVars
  PROVE  Agreement!AgreementNext
<1>1. clientState[0] = "SYN_SENT" \/ serverState[0] = "CLOSED"
  BY DEF ReceiveReset, IsReset, HandshakeInv, ServerPackets
<1>2. Agreement!CloseClient
  BY <1>1 DEF ReceiveReset, CloseAndNotifyAllSubflows, serverVars,
     Agreement!CloseClient, Agreement!Closed
<1> QED
  BY <1>2 DEF Agreement!AgreementNext

LEMMA ToClientImplements ==
  ASSUME HandshakeInv, NEW s \in Subflows, ToClient(s)
  PROVE  [Agreement!AgreementNext]_Agreement!agreementVars
<1>1. PICK i \in Leaving(ackPath[s]) :
        LET p == ackPath[s][i] IN
        /\ \/ ReceiveSynAck(s, p) \/ ReceiveAddresses(s, p) \/ ReceiveReset(s, p)
           \/ ClientRefuses(s, p) \/ ClientIgnores(s, p)
        /\ UNCHANGED serverVars
  BY DEF ToClient
<1>2. PICK p \in ToClientOn(s) :
        \/ ReceiveSynAck(s, p) \/ ReceiveAddresses(s, p) \/ ReceiveReset(s, p)
        \/ ClientRefuses(s, p) \/ ClientIgnores(s, p)
  BY <1>1, ClientGets
<1>3. CASE ClientRefuses(s, p) \/ ClientIgnores(s, p)
  BY <1>1, <1>3 DEF ClientRefuses, ClientIgnores, serverVars, Agreement!agreementVars
<1> QED
  BY <1>1, <1>2, <1>3, SynAckAgrees, AddressesAsk, ResetCloses

(* A SYN+ACK sent again, or the end of the sub-flow.                       *)
LEMMA AnswerGivesUp ==
  ASSUME HandshakeInv, NEW s \in Subflows, serverState[s] = "SYN_RCVD", AnswerSyn(s),
         UNCHANGED <<clientState, forks, rxNumber>>
  PROVE  [Agreement!AgreementNext]_Agreement!agreementVars
<1>1. CASE serverTries[s] = 0
  <2>1. Agreement!GiveUp(s)
    BY <1>1 DEF AnswerSyn, Agreement!GiveUp
  <2> QED
    BY <2>1 DEF Agreement!AgreementNext
<1>2. CASE serverTries[s] # 0
  BY <1>2 DEF AnswerSyn, Agreement!agreementVars
<1> QED
  BY <1>1, <1>2

LEMMA ForkAccepts ==
  ASSUME HandshakeInv, NEW s \in Subflows, NEW p \in ToServerOn(s), Fork(s, p),
         UNCHANGED clientVars
  PROVE  Agreement!AgreementNext
<1>1. s = 0
  BY DEF Fork
<1>2. clientState[0] = "SYN_SENT"
  BY <1>1, ForkIsFirst
<1>3. ~ Agreement!SocketIsOpen
  BY DEF Fork, HasEndPoint, ServerOpen, Agreement!SocketIsOpen
<1>4. Agreement!Accept
  BY <1>2, <1>3 DEF Fork, clientVars, Agreement!Accept
<1> QED
  BY <1>4 DEF Agreement!AgreementNext

LEMMA JoinIsAccepted ==
  ASSUME HandshakeInv, NumbersAgree, NEW s \in Subflows, NEW p \in ToServerOn(s),
         ReceiveJoin(s, p), UNCHANGED clientVars
  PROVE  [Agreement!AgreementNext]_Agreement!agreementVars
<1>1. CASE ~ IsCurrent(p)
  BY <1>1 DEF ReceiveJoin, clientVars, Agreement!agreementVars
<1>2. CASE IsCurrent(p)
  <2>1. /\ p.kind = "JOIN" /\ p.token # 0
        /\ s # 0 /\ clientState[s] # "NONE" /\ p.token \in {0, remoteToken}
    BY DEF ReceiveJoin, HasToken, HandshakeInv, ClientPackets, TypeOK
  <2>2. rxNumber[0] = forks
    BY <2>1 DEF NumbersAgree
  <2>3. Agreement!SocketIsOpen
    BY <1>2 DEF IsCurrent, ServerOpen, Agreement!SocketIsOpen
  <2>4. Agreement!AcceptJoin(s)
    BY <1>2, <2>1, <2>2, <2>3 DEF ReceiveJoin, clientVars, Agreement!AcceptJoin
  <2> QED
    BY <2>4 DEF Agreement!AgreementNext
<1> QED
  BY <1>1, <1>2

LEMMA ConfirmationConfirms ==
  ASSUME HandshakeInv, NumbersAgree, NEW s \in Subflows, NEW p \in ToServerOn(s),
         ReceiveConfirmation(s, p), UNCHANGED clientVars
  PROVE  [Agreement!AgreementNext]_Agreement!agreementVars
<1>1. CASE p.number = forks
  <2>1. rxNumber[s] = forks
    BY DEF ReceiveConfirmation, IsAck, NumbersAgree
  <2>2. Agreement!Confirm(s)
    BY <1>1, <2>1 DEF ReceiveConfirmation, clientVars, Agreement!Confirm
  <2> QED
    BY <2>2 DEF Agreement!AgreementNext
<1>2. CASE p.number # forks
  BY <1>2 DEF ReceiveConfirmation, clientVars, Agreement!agreementVars
<1> QED
  BY <1>1, <1>2

LEMMA ServerResetCloses ==
  ASSUME HandshakeInv, NEW s \in Subflows, NEW p \in ToServerOn(s),
         ServerReset(s, p), UNCHANGED clientVars
  PROVE  Agreement!AgreementNext
<1>1. clientState[0] = "CLOSED"
  BY DEF ServerReset, IsReset, HandshakeInv, ClientPackets
<1>2. Agreement!CloseServer
  BY <1>1 DEF ServerReset, CloseAndNotifyAllSubflows, clientVars,
     Agreement!CloseServer, Agreement!Closed
<1> QED
  BY <1>2 DEF Agreement!AgreementNext

LEMMA ToServerImplements ==
  ASSUME HandshakeInv, NumbersAgree, NEW s \in Subflows, ToServer(s)
  PROVE  [Agreement!AgreementNext]_Agreement!agreementVars
<1>1. PICK i \in Leaving(dataPath[s]) :
        LET p == dataPath[s][i] IN
        /\ dataPath' = Take(dataPath, s, i)
        /\ \/ Fork(s, p) \/ ReceiveJoin(s, p) \/ RepeatedSyn(s, p)
           \/ ReceiveConfirmation(s, p) \/ ReceiveData(s, p)
           \/ AnswerAddresses(s, p) \/ RefuseClosed(s, p) \/ ServerReset(s, p)
           \/ RefuseUnbound(s, p) \/ ListenerIgnores(s, p) \/ ServerIgnores(s, p)
        /\ UNCHANGED clientVars
  BY DEF ToServer
<1>2. PICK p \in ToServerOn(s) :
        \/ Fork(s, p) \/ ReceiveJoin(s, p) \/ RepeatedSyn(s, p)
        \/ ReceiveConfirmation(s, p) \/ ReceiveData(s, p)
        \/ AnswerAddresses(s, p) \/ RefuseClosed(s, p) \/ ServerReset(s, p)
        \/ RefuseUnbound(s, p) \/ ListenerIgnores(s, p) \/ ServerIgnores(s, p)
  BY <1>1, TakesNoConfirmation
<1>3. UNCHANGED <<clientState, rxNumber>>
  BY <1>1 DEF clientVars
<1>4. CASE RepeatedSyn(s, p)
  BY <1>3, <1>4, AnswerGivesUp DEF RepeatedSyn
<1>5. CASE \/ ReceiveData(s, p) \/ AnswerAddresses(s, p) \/ RefuseClosed(s, p)
           \/ RefuseUnbound(s, p) \/ ListenerIgnores(s, p) \/ ServerIgnores(s, p)
  <2>1. UNCHANGED <<serverState, forks>>
    BY <1>5 DEF ReceiveData, AnswerAddresses, RefuseClosed, RefuseUnbound,
       ListenerIgnores, ServerIgnores
  <2> QED
    BY <1>3, <2>1 DEF Agreement!agreementVars
<1> QED
  BY <1>1, <1>2, <1>4, <1>5, ForkAccepts, JoinIsAccepted, ConfirmationConfirms,
     ServerResetCloses

LEMMA StepImplementsAgreement ==
  ASSUME HandshakeInv, NumbersAgree, [Next]_vars
  PROVE  [Agreement!AgreementNext]_Agreement!agreementVars
<1>1. CASE ClientRetry \/ Listen \/ Loss \/ UNCHANGED vars
  BY <1>1 DEF ClientRetry, Listen, Loss, vars, clientVars, serverVars,
     Agreement!agreementVars
<1>2. ASSUME NEW s \in Subflows, SendData(s)
      PROVE  UNCHANGED Agreement!agreementVars
  BY <1>2 DEF SendData, clientVars, serverVars, Agreement!agreementVars
<1>3. ASSUME NEW s \in Subflows, ServerTimeout(s)
      PROVE  [Agreement!AgreementNext]_Agreement!agreementVars
  BY <1>3, AnswerGivesUp DEF ServerTimeout, clientVars
<1>4. CASE RetriesCross
  BY <1>4, SubflowZero, AnswerGivesUp DEF RetriesCross
<1>5. CASE Running
  BY <1>1, <1>2, <1>3, <1>4, <1>5, ConnectAsks, GiveUpCloses, InitiateAsks,
     ToClientImplements, ToServerImplements DEF Running
<1> QED
  BY <1>1, <1>5 DEF Next, Done

(* The hand-shake is an agreement of the two ends on one connection and on *)
(* its sub-flows, whatever is lost, repeated, given up or late.            *)
THEOREM ImplementsAgreement == Spec => IsAgreement
<1>1. Init => Agreement!AgreementInit
  BY DEF Init, Agreement!AgreementInit
<1>2. HandshakeInv /\ NumbersAgree /\ [Next]_vars
        => [Agreement!AgreementNext]_Agreement!agreementVars
  BY StepImplementsAgreement
<1> QED
  BY <1>1, <1>2, HandshakeInvariance, NumbersAreAgreed, PTL
     DEF Spec, IsAgreement, Agreement!AgreementSpec
=============================================================================
