--------------------------- MODULE MpTcpHandshake ---------------------------
(***************************************************************************)
(* Opening an MPTCP connection: MpTcpSocketBase at the client (Connect)    *)
(* and at the server (Listen, the accepted sockets it forks), from the     *)
(* first SYN until every sub-flow of the path manager is established or    *)
(* given up.  The client's packets travel on dataPath, the server's on     *)
(* ackPath.                                                                *)
(*                                                                         *)
(* Each action is one event of the simulator: a call of the application, a *)
(* timer, or the arrival of a packet with all that DoForwardUp does of it. *)
(***************************************************************************)
EXTENDS MpTcpPaths

CONSTANTS
  ConnRetries,    \* m_cnRetries: SYNs or SYN+ACKs sent for a sub-flow
  PathManagers    \* the values the attribute PathManagement may have

ASSUME HandshakeAssumption ==
  /\ ConnRetries \in Nat \ {0}
  /\ PathManagers \subseteq {"Default", "FullMesh", "NdiffPorts"}

VARIABLES
  pathManager,    \* the client's attribute
  clientState,    \* state of the client's sub-flows; "NONE": not in subflows
  clientTries,    \* cnCount of the client's sub-flow 0
  rxNumber,       \* the client's RxSeqNumber: which socket answered, or 0
  remoteToken,    \* the client's: the token of the server, or 0
  scheduled,      \* sub-flows InitiateMultipleSubflows has scheduled
  listening,      \* the sink has called Listen
  forks,          \* the number of accepted sockets; the last one counts
  serverState,    \* state of the last accepted socket's sub-flows
  serverTries,    \* cnCount of its sub-flows
  localToken,     \* its localToken
  tokenMap,       \* m_TokenMap of the server: the socket for each token
  mpSendState,    \* of the client and of the last accepted socket
  mpRecvState,    \* likewise
  fault           \* the assertion or fatal error that ended the program

clientVars == <<pathManager, clientState, clientTries, rxNumber, remoteToken,
                scheduled>>
serverVars == <<listening, forks, serverState, serverTries, localToken,
                tokenMap>>
mpVars == <<mpSendState, mpRecvState>>
vars == <<clientVars, serverVars, mpVars, fault, pathVars>>

-----------------------------------------------------------------------------
(* Packets.  "SYN" has the option MP_CAPABLE and "JOIN" is a SYN with      *)
(* MP_JOIN.  A SYN+ACK with a token has MP_CAPABLE.  The number says whose *)
(* sequence number a SYN+ACK brings or the client acknowledges.            *)
Packet(kind, token, number) ==
  [kind |-> kind, token |-> token, number |-> number]

Syn == Packet("SYN", 0, 0)

(* Wrong variant: the client's own token, 1, instead of the server's. *)
JoinOwnToken(token) == Packet("JOIN", 1, 0)

Join(token) == Packet("JOIN", token, 0)

SynAck(token, number) == Packet("SYN_ACK", token, number)
Ack(number) == Packet("ACK", 0, number)
Addr(number) == Packet("ADDR", 0, number)
Data(number) == Packet("DATA", 0, number)
Rst == Packet("RST", 0, 0)
RstAck == Packet("RST_ACK", 0, 0)

IsReset(p) == p.kind \in {"RST", "RST_ACK"}

(* What ReadOptions leaves to the state machine as an ACK. *)
IsAck(p, recvState) ==
  p.kind = "ACK" \/ (p.kind = "ADDR" /\ recvState # "MP_MPC")

Send(path, s, p) == [path EXCEPT ![s] = Enqueue(@, p)]

(* A packet leaves a path for the end it goes to. *)
Take(path, s, i) == [path EXCEPT ![s] = RemoveAt(@, i)]

Init ==
  /\ PathInit
  /\ pathManager \in PathManagers
  /\ clientState = [s \in Subflows |-> "NONE"]
  /\ clientTries = ConnRetries
  /\ rxNumber = [s \in Subflows |-> 0]
  /\ remoteToken = 0
  /\ scheduled = {}
  /\ listening = FALSE
  /\ forks = 0
  /\ serverState = [s \in Subflows |-> "NONE"]
  /\ serverTries = [s \in Subflows |-> ConnRetries]
  /\ localToken = 0
  /\ tokenMap = << >>
  /\ mpSendState = [client |-> "MP_NONE", server |-> "MP_NONE"]
  /\ mpRecvState = [client |-> "MP_NONE", server |-> "MP_NONE"]
  /\ fault = "none"

-----------------------------------------------------------------------------
(* The client. *)

(* mpEnabled and remoteToken are set together, a token is never 0. *)
mpEnabled == remoteToken # 0

Connect ==
  /\ clientState[0] = "NONE"
  /\ clientState' = [clientState EXCEPT ![0] = "SYN_SENT"]
  /\ clientTries' = clientTries - 1
  /\ mpSendState' = [mpSendState EXCEPT !.client = "MP_MPC"]
  /\ dataPath' = Send(dataPath, 0, Syn)
  /\ UNCHANGED <<pathManager, rxNumber, remoteToken, scheduled, serverVars,
                 mpRecvState, fault, ackPath>>

(* ConnTimeout is seconds and doubles each time, so a SYN timer fires only *)
(* when what its sub-flow has sent has arrived or is lost, and the packets *)
(* that follow a SYN+ACK have been exchanged.                              *)
Silent(s) == dataPath[s] = << >> /\ ackPath[s] = << >>

Unhurried(s) ==
  /\ Silent(s)
  /\ scheduled = {}
  /\ \A t \in Subflows : \A i \in DOMAIN dataPath[t] : dataPath[t][i].kind # "JOIN"

(* SendEmptyPacket(0, SYN) again. *)
ClientRetry ==
  /\ clientState[0] = "SYN_SENT"
  /\ clientTries > 0
  /\ Unhurried(0)
  /\ clientTries' = clientTries - 1
  /\ dataPath' = Send(dataPath, 0, Syn)
  /\ UNCHANGED <<pathManager, clientState, rxNumber, remoteToken, scheduled,
                 serverVars, mpVars, fault, ackPath>>

(* No more connection retries: the connection has one sub-flow so far. *)
ClientGiveUp ==
  /\ clientState[0] = "SYN_SENT"
  /\ clientTries = 0
  /\ Unhurried(0)
  /\ clientState' = [clientState EXCEPT ![0] = "CLOSED"]
  /\ UNCHANGED <<pathManager, clientTries, rxNumber, remoteToken, scheduled,
                 serverVars, mpVars, fault, pathVars>>

(* MP_CAPABLE is read from the first SYN+ACK that has it. *)
BringsCapable(p) == p.token # 0 /\ mpRecvState.client = "MP_NONE"

ReadCapable(p) ==
  IF BringsCapable(p)
  THEN /\ remoteToken' = p.token
       /\ mpRecvState' = [mpRecvState EXCEPT !.client = "MP_MPC"]
  ELSE UNCHANGED <<remoteToken, mpRecvState>>

(* ProcessSynSent on a SYN+ACK.  addrAdvertised is false on the first one, *)
(* which is the one of sub-flow 0.                                         *)
CompleteSender(s, p) ==
  /\ clientState' = [clientState EXCEPT ![s] = "ESTABLISHED"]
  /\ rxNumber' = [rxNumber EXCEPT ![s] = p.number]

EstablishedPlain(s, p) ==
  /\ s # 0 \/ pathManager = "Default"
  /\ CompleteSender(s, p)
  /\ ReadCapable(p)
  /\ dataPath' = Send(dataPath, s, Ack(p.number))
  /\ UNCHANGED <<scheduled, mpSendState, fault>>

EstablishedPorts(s, p) ==
  /\ s = 0 /\ pathManager = "NdiffPorts"
  /\ CompleteSender(s, p)
  /\ ReadCapable(p)
  /\ scheduled' = Subflows \ {0}
  /\ dataPath' = Send(dataPath, s, Ack(p.number))
  /\ UNCHANGED <<mpSendState, fault>>

(* AdvertiseAvailableAddresses sends the addresses behind the ACK. *)
EstablishedMesh(s, p) ==
  /\ s = 0 /\ pathManager = "FullMesh"
  /\ BringsCapable(p) \/ mpEnabled
  /\ CompleteSender(s, p)
  /\ ReadCapable(p)
  /\ mpSendState' = [mpSendState EXCEPT !.client = "MP_ADDR"]
  /\ dataPath' = Send(Send(dataPath, s, Ack(p.number)), s, Addr(p.number))
  /\ UNCHANGED <<scheduled, fault>>

(* NS_FATAL_ERROR("Need to be Looked..."). *)
NotEnabled(s, p) ==
  /\ s = 0 /\ pathManager = "FullMesh"
  /\ ~ BringsCapable(p) /\ ~ mpEnabled
  /\ fault' = "not_enabled"
  /\ UNCHANGED <<clientState, rxNumber, remoteToken, scheduled, mpVars,
                 dataPath>>

ReceiveSynAck(s, p) ==
  /\ p.kind = "SYN_ACK"
  /\ clientState[s] = "SYN_SENT"
  /\ \/ EstablishedPlain(s, p)
     \/ EstablishedPorts(s, p)
     \/ EstablishedMesh(s, p)
     \/ NotEnabled(s, p)

(* ReadOptions on the server's addresses: InitiateSubflows sends a JOIN on *)
(* each other pair of addresses and sets no timer.                         *)
ReceiveAddresses(s, p) ==
  /\ p.kind = "ADDR"
  /\ clientState[s] \in {"SYN_SENT", "ESTABLISHED"}
  /\ mpRecvState.client = "MP_MPC"
  /\ mpRecvState' = [mpRecvState EXCEPT !.client = "MP_ADDR"]
  /\ clientState' = [t \in Subflows |->
                       IF t = 0 THEN clientState[t] ELSE "SYN_SENT"]
  /\ dataPath' = [t \in Subflows |->
                    IF t = 0 THEN dataPath[t]
                             ELSE Enqueue(dataPath[t], Join(remoteToken))]
  /\ UNCHANGED <<rxNumber, remoteToken, scheduled, mpSendState, fault>>

(* A RST closes every sub-flow; one with ACK is itself answered by RST. *)
CloseAndNotifyAllSubflows(state) ==
  [t \in Subflows |-> IF state[t] = "NONE" THEN "NONE" ELSE "CLOSED"]

ReceiveReset(s, p) ==
  /\ IsReset(p)
  /\ clientState[s] \in {"SYN_SENT", "ESTABLISHED"}
  /\ clientState' = CloseAndNotifyAllSubflows(clientState)
  /\ dataPath' = IF p.kind = "RST" THEN dataPath ELSE Send(dataPath, s, Rst)
  /\ UNCHANGED <<rxNumber, remoteToken, scheduled, mpVars, fault>>

(* No endpoint any more: TcpL4Protocol answers. *)
ClientRefuses(s, p) ==
  /\ clientState[s] \in {"NONE", "CLOSED"}
  /\ dataPath' = IF IsReset(p) THEN dataPath ELSE Send(dataPath, s, Rst)
  /\ UNCHANGED <<clientState, rxNumber, remoteToken, scheduled, mpVars, fault>>

(* What an open sub-flow takes no notice of. *)
ClientIgnores(s, p) ==
  /\ clientState[s] \in {"SYN_SENT", "ESTABLISHED"}
  /\ p.kind = "SYN_ACK" => clientState[s] = "ESTABLISHED"
  /\ p.kind = "SYN_ACK" \/ IsAck(p, mpRecvState.client)
  /\ UNCHANGED <<clientState, rxNumber, remoteToken, scheduled, mpVars, fault,
                 dataPath>>

ToClient(s) ==
  \E i \in Leaving(ackPath[s]) :
    LET p == ackPath[s][i] IN
    /\ ackPath' = Take(ackPath, s, i)
    /\ \/ ReceiveSynAck(s, p)
       \/ ReceiveAddresses(s, p)
       \/ ReceiveReset(s, p)
       \/ ClientRefuses(s, p)
       \/ ClientIgnores(s, p)
    /\ UNCHANGED <<pathManager, clientTries, serverVars>>

(* InitiateSingleSubflows, an event that nobody cancels. *)
InitiateSingleSubflows(t) ==
  /\ t \in scheduled
  /\ scheduled' = scheduled \ {t}
  /\ IF clientState[0] = "CLOSED"
     THEN /\ fault' = "null_endpoint"
          /\ UNCHANGED <<clientState, dataPath>>
     ELSE /\ clientState' = [clientState EXCEPT ![t] = "SYN_SENT"]
          /\ dataPath' = Send(dataPath, t, Join(remoteToken))
          /\ UNCHANGED fault
  /\ UNCHANGED <<pathManager, clientTries, rxNumber, remoteToken, serverVars,
                 mpVars, ackPath>>

(* SendPendingData uses a sub-flow that is established. *)
SendData(s) ==
  /\ clientState[s] = "ESTABLISHED"
  /\ dataPath' = Send(dataPath, s, Data(rxNumber[s]))
  /\ UNCHANGED <<clientVars, serverVars, mpVars, fault, ackPath>>

-----------------------------------------------------------------------------
(* The server. *)

Listen ==
  /\ ~ listening
  /\ listening' = TRUE
  /\ UNCHANGED <<clientVars, forks, serverState, serverTries, localToken,
                 tokenMap, mpVars, fault, pathVars>>

ServerOpen == \E t \in Subflows : serverState[t] \in {"SYN_RCVD", "ESTABLISHED"}

(* The endpoint of sub-flow 0 is the connection's and lives until all      *)
(* sub-flows are closed.                                                   *)
HasEndPoint(s) ==
  IF s = 0 THEN ServerOpen ELSE serverState[s] \in {"SYN_RCVD", "ESTABLISHED"}

(* Wrong variant: the number of retries is not tested. *)
AnswerSynUntested(s) ==
  /\ serverTries' = [serverTries EXCEPT ![s] = @ - 1]
  /\ ackPath' = Send(ackPath, s, SynAck(0, forks))
  /\ UNCHANGED serverState

(* Wrong variant: cnCount is not decremented. *)
AnswerSynForever(s) ==
  /\ ackPath' = Send(ackPath, s, SynAck(0, forks))
  /\ UNCHANGED <<serverState, serverTries>>

(* SendEmptyPacket(SYN|ACK) in SYN_RCVD, or the end of the sub-flow when   *)
(* its retries are used up.  Only the first one, that of CompleteFork,     *)
(* carries MP_CAPABLE.                                                     *)
AnswerSyn(s) ==
  IF serverTries[s] = 0
  THEN /\ serverState' = [serverState EXCEPT ![s] = "CLOSED"]
       /\ UNCHANGED <<serverTries, ackPath>>
  ELSE /\ serverTries' = [serverTries EXCEPT ![s] = @ - 1]
       /\ ackPath' = Send(ackPath, s, SynAck(0, forks))
       /\ UNCHANGED serverState

ServerTimeout(s) ==
  /\ serverState[s] = "SYN_RCVD"
  /\ Unhurried(s)
  /\ AnswerSyn(s)
  /\ UNCHANGED <<clientVars, listening, forks, localToken, tokenMap, mpVars,
                 fault, dataPath>>

(* Both ends have the same ConnTimeout, so a SYN and a SYN+ACK may cross.  *)
RetriesCross ==
  /\ clientState[0] = "SYN_SENT" /\ clientTries > 0
  /\ serverState[0] = "SYN_RCVD" /\ serverTries[0] > 0
  /\ Unhurried(0)
  /\ clientTries' = clientTries - 1
  /\ dataPath' = Send(dataPath, 0, Syn)
  /\ AnswerSyn(0)
  /\ UNCHANGED <<pathManager, clientState, rxNumber, remoteToken, scheduled,
                 listening, forks, localToken, tokenMap, mpVars, fault>>

(* ProcessListen and CompleteFork: a SYN with MP_CAPABLE finds the         *)
(* listening socket only when no accepted socket has the 4-tuple.          *)
Fork(s, p) ==
  /\ s = 0 /\ p.kind = "SYN"
  /\ listening /\ ~ HasEndPoint(0)
  /\ forks' = forks + 1
  /\ localToken' = Len(tokenMap) + 1
  /\ tokenMap' = Append(tokenMap, forks + 1)
  /\ serverState' = [t \in Subflows |-> IF t = 0 THEN "SYN_RCVD" ELSE "NONE"]
  /\ serverTries' = [t \in Subflows |->
                       IF t = 0 THEN ConnRetries - 1 ELSE ConnRetries]
  /\ mpSendState' = [mpSendState EXCEPT !.server = "MP_MPC"]
  /\ mpRecvState' = [mpRecvState EXCEPT !.server = "MP_MPC"]
  /\ ackPath' = Send(ackPath, 0, SynAck(Len(tokenMap) + 1, forks + 1))
  /\ UNCHANGED fault

(* TcpL4Protocol finds the socket of a JOIN by its token, that of any      *)
(* other packet by the endpoint of its sub-flow.                           *)
HasToken(p) == p.kind = "JOIN" /\ p.token \in DOMAIN tokenMap

IsCurrent(p) == tokenMap[p.token] = forks /\ ServerOpen

Finds(s, p) ==
  IF p.kind = "JOIN" THEN HasToken(p) /\ IsCurrent(p) /\ serverState[s] # "NONE"
                     ELSE HasEndPoint(s)

(* LookupSubflow makes the sub-flow and ProcessListen answers.  m_TokenMap *)
(* keeps the freed endpoint of a socket that is closed.                    *)
ReceiveJoin(s, p) ==
  /\ HasToken(p)
  /\ IsCurrent(p) => serverState[s] = "NONE"
  /\ IF IsCurrent(p)
     THEN /\ serverState' = [serverState EXCEPT ![s] = "SYN_RCVD"]
          /\ serverTries' = [serverTries EXCEPT ![s] = ConnRetries - 1]
          /\ ackPath' = Send(ackPath, s, SynAck(0, forks))
          /\ UNCHANGED fault
     ELSE /\ fault' = "stale_token"
          /\ UNCHANGED <<serverState, serverTries, ackPath>>
  /\ UNCHANGED <<forks, localToken, tokenMap, mpVars>>

(* SYN+ACK might be lost, it is sent again. *)
RepeatedSyn(s, p) ==
  /\ Finds(s, p) /\ p.kind \in {"SYN", "JOIN"}
  /\ serverState[s] = "SYN_RCVD"
  /\ AnswerSyn(s)
  /\ UNCHANGED <<forks, localToken, tokenMap, mpVars, fault>>

(* Wrong variant: the flags are not looked at, a repeated SYN will do. *)
ReceiveAnything(s, p) ==
  /\ Finds(s, p) /\ ~ IsReset(p)
  /\ serverState[s] = "SYN_RCVD"
  /\ serverState' = [serverState EXCEPT ![s] = "ESTABLISHED"]
  /\ UNCHANGED <<forks, serverTries, localToken, tokenMap, mpVars, fault,
                 ackPath>>

(* ProcessSynRcvd: an ACK or data ends the hand-shake, if it acknowledges  *)
(* the SYN+ACK of this socket (an assertion).  Data is acknowledged.       *)
ReceiveConfirmation(s, p) ==
  /\ Finds(s, p)
  /\ p.kind = "DATA" \/ IsAck(p, mpRecvState.server)
  /\ serverState[s] = "SYN_RCVD"
  /\ IF p.number = forks
     THEN /\ serverState' = [serverState EXCEPT ![s] = "ESTABLISHED"]
          /\ UNCHANGED fault
     ELSE /\ fault' = "wrong_ack"
          /\ UNCHANGED serverState
  /\ ackPath' = IF p.kind = "DATA" THEN Send(ackPath, s, Ack(0)) ELSE ackPath
  /\ UNCHANGED <<forks, serverTries, localToken, tokenMap, mpVars>>

ReceiveData(s, p) ==
  /\ Finds(s, p) /\ p.kind = "DATA"
  /\ serverState[s] = "ESTABLISHED"
  /\ ackPath' = Send(ackPath, s, Ack(0))
  /\ UNCHANGED <<forks, serverState, serverTries, localToken, tokenMap,
                 mpVars, fault>>

(* ReadOptions on the client's addresses, in any state of the sub-flow:    *)
(* the server advertises its own, and the packet is not an ACK as well.    *)
AnswerAddresses(s, p) ==
  /\ Finds(s, p) /\ p.kind = "ADDR"
  /\ mpRecvState.server = "MP_MPC"
  /\ mpRecvState' = [mpRecvState EXCEPT !.server = "MP_ADDR"]
  /\ mpSendState' = [mpSendState EXCEPT !.server = "MP_ADDR"]
  /\ ackPath' = Send(ackPath, s, Addr(0))
  /\ UNCHANGED <<forks, serverState, serverTries, localToken, tokenMap, fault>>

(* Sub-flow 0 is closed, others are not: any packet is answered by RST. *)
RefuseClosed(s, p) ==
  /\ Finds(s, p) /\ serverState[s] = "CLOSED"
  /\ ~ (p.kind = "ADDR" /\ mpRecvState.server = "MP_MPC")
  /\ ackPath' = IF IsReset(p) THEN ackPath ELSE Send(ackPath, s, Rst)
  /\ UNCHANGED <<forks, serverState, serverTries, localToken, tokenMap,
                 mpVars, fault>>

ServerReset(s, p) ==
  /\ Finds(s, p) /\ IsReset(p)
  /\ serverState[s] # "CLOSED"
  /\ serverState' = CloseAndNotifyAllSubflows(serverState)
  /\ UNCHANGED <<forks, serverTries, localToken, tokenMap, mpVars, fault,
                 ackPath>>

(* Before Listen there is no endpoint at all. *)
RefuseUnbound(s, p) ==
  /\ ~ listening
  /\ ackPath' = IF IsReset(p) THEN ackPath ELSE Send(ackPath, s, RstAck)
  /\ UNCHANGED <<forks, serverState, serverTries, localToken, tokenMap,
                 mpVars, fault>>

(* What the listening socket gets without MP_CAPABLE, which includes a     *)
(* JOIN whose token is unknown.                                            *)
ListenerIgnores(s, p) ==
  /\ listening /\ p.kind # "SYN"
  /\ ~ HasToken(p) /\ ~ Finds(s, p)
  /\ UNCHANGED <<forks, serverState, serverTries, localToken, tokenMap,
                 mpVars, fault, ackPath>>

(* A SYN or an ACK in ESTABLISHED. *)
ServerIgnores(s, p) ==
  /\ Finds(s, p) /\ serverState[s] = "ESTABLISHED"
  /\ p.kind \in {"SYN", "JOIN"} \/ IsAck(p, mpRecvState.server)
  /\ UNCHANGED <<forks, serverState, serverTries, localToken, tokenMap,
                 mpVars, fault, ackPath>>

ToServer(s) ==
  \E i \in Leaving(dataPath[s]) :
    LET p == dataPath[s][i] IN
    /\ dataPath' = Take(dataPath, s, i)
    /\ \/ Fork(s, p)
       \/ ReceiveJoin(s, p)
       \/ RepeatedSyn(s, p)
       \/ ReceiveConfirmation(s, p)
       \/ ReceiveData(s, p)
       \/ AnswerAddresses(s, p)
       \/ RefuseClosed(s, p)
       \/ ServerReset(s, p)
       \/ RefuseUnbound(s, p)
       \/ ListenerIgnores(s, p)
       \/ ServerIgnores(s, p)
    /\ UNCHANGED <<clientVars, listening>>

-----------------------------------------------------------------------------
Loss ==
  /\ \E s \in Subflows : LoseData(s) \/ LoseAck(s)
  /\ UNCHANGED <<clientVars, serverVars, mpVars, fault>>

(* Nothing is left to happen: the program has ended, or the connection is  *)
(* closed at the client and at the server.                                 *)
Done ==
  /\ \/ fault # "none"
     \/ /\ \A s \in Subflows : Silent(s) /\ serverState[s] # "SYN_RCVD"
        /\ clientState[0] = "CLOSED"
        /\ listening
  /\ UNCHANGED vars

Running ==
  /\ fault = "none"
  /\ \/ Connect \/ ClientRetry \/ ClientGiveUp \/ Listen \/ RetriesCross \/ Loss
     \/ \E s \in Subflows :
          \/ ToClient(s) \/ ToServer(s)
          \/ InitiateSingleSubflows(s) \/ SendData(s) \/ ServerTimeout(s)

Next == Running \/ Done

Spec == Init /\ [][Next]_vars

-----------------------------------------------------------------------------
(* What makes the hand-shake correct. *)

Kinds == {"SYN", "JOIN", "SYN_ACK", "ACK", "ADDR", "DATA", "RST", "RST_ACK"}

PacketType == [kind : Kinds, token : Nat, number : Nat]

MpStates == [{"client", "server"} -> {"MP_NONE", "MP_MPC", "MP_ADDR"}]

TypeOK ==
  /\ dataPath \in [Subflows -> Seq(PacketType)]
  /\ ackPath \in [Subflows -> Seq(PacketType)]
  /\ pathManager \in PathManagers
  /\ clientState \in [Subflows -> {"NONE", "SYN_SENT", "ESTABLISHED", "CLOSED"}]
  /\ clientTries \in 0 .. ConnRetries
  /\ rxNumber \in [Subflows -> Nat]
  /\ remoteToken \in Nat
  /\ scheduled \subseteq Subflows
  /\ listening \in BOOLEAN
  /\ forks \in Nat
  /\ serverState \in [Subflows -> {"NONE", "SYN_RCVD", "ESTABLISHED", "CLOSED"}]
  /\ serverTries \in [Subflows -> 0 .. ConnRetries]
  /\ localToken \in Nat
  /\ tokenMap \in Seq(Nat)
  /\ mpSendState \in MpStates
  /\ mpRecvState \in MpStates
  /\ fault \in {"none", "not_enabled", "null_endpoint", "stale_token", "wrong_ack"}

(* While the connection is open at the server, the token the client has    *)
(* learned and the token of every JOIN under way are the server's own, if  *)
(* they are known at all: whichever of its SYN+ACKs was lost, and however  *)
(* many sockets the server has forked and given up before.                 *)
TokensAgree ==
  ServerOpen =>
    /\ clientState[0] = "ESTABLISHED" => remoteToken \in {0, localToken}
    /\ \A s \in Subflows : \A i \in DOMAIN dataPath[s] :
         LET p == dataPath[s][i] IN
         (p.kind = "JOIN" /\ clientState[0] = "ESTABLISHED")
           => p.token \in {0, localToken}

(* Each end's view of a sub-flow fits the other's.  A sub-flow the server  *)
(* has established is past SYN_SENT at the client, and one the client has  *)
(* established the server knows, under the number the client expects, as   *)
(* long as the connection is open there: data on it does not fall to the   *)
(* listening socket, and no ACK reaches a sub-flow in LISTEN (line 541).   *)
ViewsFit ==
  \A s \in Subflows :
    /\ serverState[s] = "ESTABLISHED" => clientState[s] \in {"ESTABLISHED", "CLOSED"}
    /\ (clientState[s] = "ESTABLISHED" /\ ServerOpen)
         => (serverState[s] # "NONE" /\ rxNumber[s] = forks)

(* Together the two ends agree on one connection: no socket is accepted    *)
(* for a client that has agreed to an earlier one, a sub-flow is           *)
(* established at the server only when the client has agreed to it on that *)
(* very socket, a JOIN is accepted only by the socket the client is        *)
(* connected to, and an end closes only when the other one has.            *)
Agreement == INSTANCE MpTcpAgreement WITH
  Ways <- Subflows,
  client <- clientState,
  server <- serverState,
  socket <- forks,
  agreed <- rxNumber

IsAgreement == Agreement!AgreementSpec

(* The hand-shake never comes to acknowledge the SYN+ACK of another socket *)
(* (the assertion of line 676), to look up the token of a closed           *)
(* connection, which m_TokenMap maps to a freed endpoint, or to initiate a *)
(* sub-flow from a closed connection without endpoint.  The fatal error    *)
(* that it does come to is the finding of the run synack_lost.             *)
OtherFaultsNever == fault \in {"none", "not_enabled"}

(* SendEmptyPacket sends SYN and SYN+ACK again "to guard against lost"     *)
(* (line 2223), so losing one does not end the program.                    *)
LossIsSurvived == fault # "not_enabled"

(* No sub-flow is left half open: a SYN_SENT of sub-flow 0 and a SYN_RCVD  *)
(* of any sub-flow end, established or given up, whatever is lost.         *)
HandshakesEnd ==
  /\ (clientState[0] = "SYN_SENT") ~> (clientState[0] # "SYN_SENT" \/ fault # "none")
  /\ \A s \in Subflows :
       (serverState[s] = "SYN_RCVD") ~> (serverState[s] # "SYN_RCVD" \/ fault # "none")

-----------------------------------------------------------------------------
(* A SYN timer that is not cancelled fires.  A packet that is sent again   *)
(* and again is not lost each time, RateErrorModel is random.              *)
Fairness ==
  /\ SF_vars(fault = "none" /\ (ClientRetry \/ ClientGiveUp))
  /\ \A s \in Subflows :
       /\ SF_vars(fault = "none" /\ ServerTimeout(s))
       /\ SF_vars(fault = "none" /\ ToClient(s))
       /\ SF_vars(fault = "none" /\ ToServer(s))
       /\ WF_vars(fault = "none" /\ InitiateSingleSubflows(s))

FairSpec == Spec /\ Fairness
=============================================================================
