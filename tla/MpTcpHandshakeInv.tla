-------------------------- MODULE MpTcpHandshakeInv --------------------------
(***************************************************************************)
(* The inductive invariant of MpTcpHandshake, in named parts.              *)
(***************************************************************************)
EXTENDS MpTcpHandshake

ToServerOn(s) == Range(dataPath[s])
ToClientOn(s) == Range(ackPath[s])

SynUnderWay == \E p \in ToServerOn(0) : p.kind = "SYN"

(* The client has not got a SYN+ACK yet. *)
Opening == clientState[0] \in {"NONE", "SYN_SENT"}

Answered(s) == clientState[s] \in {"ESTABLISHED", "CLOSED"}

(* What the client sends.  Whatever acknowledges a SYN+ACK acknowledges    *)
(* that of the last socket.                                                *)
ClientPackets ==
  \A s \in Subflows : \A p \in ToServerOn(s) :
    /\ p.kind \in {"SYN", "JOIN", "ACK", "ADDR", "DATA", "RST"}
    /\ p.kind = "SYN" => s = 0 /\ remoteToken = 0
    /\ p.kind = "JOIN" =>
         /\ s # 0 /\ forks # 0
         /\ clientState[s] # "NONE" /\ serverState[s] = "NONE"
         /\ p.token \in {0, remoteToken}
    /\ p.kind \in {"ACK", "ADDR", "DATA"} =>
         p.number = forks /\ forks # 0 /\ Answered(s)
    /\ p.kind = "ADDR" => s = 0 /\ pathManager = "FullMesh" /\ remoteToken # 0
    /\ p.kind = "RST" => clientState[0] = "CLOSED"

(* A SYN is repeated only when the last one has arrived or is lost, a JOIN *)
(* is sent once.                                                           *)
OneOf(path, kind) ==
  \A i, j \in DOMAIN path : path[i].kind = kind /\ path[j].kind = kind => i = j

SentOnce ==
  \A s \in Subflows : OneOf(dataPath[s], "SYN") /\ OneOf(dataPath[s], "JOIN")

(* What the server sends. *)
ServerPackets ==
  \A s \in Subflows : \A p \in ToClientOn(s) :
    /\ p.kind \in {"SYN_ACK", "ACK", "ADDR", "RST", "RST_ACK"}
    /\ p.kind = "SYN_ACK" =>
         /\ p.number = forks
         /\ clientState[s] # "NONE" /\ serverState[s] # "NONE"
         /\ p.token # 0 => s = 0
    /\ p.kind = "ACK" => Answered(s)
    /\ p.kind = "ADDR" => s = 0 /\ pathManager = "FullMesh" /\ remoteToken # 0
    /\ p.kind = "RST" => s = 0 /\ serverState[0] = "CLOSED" /\ remoteToken # 0
    /\ p.kind = "RST_ACK" =>
         /\ s = 0 /\ Len(ackPath[0]) = 1
         /\ clientState[0] = "SYN_SENT" /\ forks = 0 /\ ~ SynUnderWay

(* The SYN+ACK with MP_CAPABLE travels alone. *)
CapableIsAlone ==
  \A p \in ToClientOn(0) :
    p.kind = "SYN_ACK" /\ p.token # 0 =>
      /\ p.token = localToken
      /\ Len(ackPath[0]) = 1
      /\ clientState[0] = "SYN_SENT" /\ serverState[0] = "SYN_RCVD"
      /\ ~ SynUnderWay

(* A SYN under way finds the socket that has answered an earlier one.      *)
SynMeetsSocket ==
  SynUnderWay =>
    /\ clientState[0] \in {"SYN_SENT", "ESTABLISHED"}
    /\ clientState[0] = "ESTABLISHED" => serverState[0] \in {"SYN_RCVD", "ESTABLISHED"}
    /\ clientState[0] = "SYN_SENT" /\ ackPath[0] # << >> => serverState[0] = "SYN_RCVD"

(* The client until it has got a SYN+ACK. *)
OpeningIsFresh ==
  Opening =>
    /\ remoteToken = 0 /\ mpRecvState.client = "MP_NONE" /\ scheduled = {}
    /\ \A s \in Subflows \ {0} : clientState[s] = "NONE"
    /\ clientState[0] = "NONE" =>
         clientTries = ConnRetries /\ forks = 0 /\ dataPath[0] = << >> /\ ackPath[0] = << >>

(* The server's sockets are numbered, and so are their tokens.             *)
SocketsCount ==
  /\ localToken = forks /\ Len(tokenMap) = forks
  /\ \A n \in 1 .. forks : tokenMap[n] = n
  /\ ~ listening => forks = 0
  /\ (forks = 0) <=> (serverState[0] = "NONE")

(* The ends know of each other what they have told.                        *)
EndsAgree ==
  /\ remoteToken \in {0, localToken}
  /\ \A s \in Subflows :
       /\ clientState[s] = "ESTABLISHED" => rxNumber[s] = forks /\ serverState[s] # "NONE"
       /\ serverState[s] = "ESTABLISHED" => Answered(s)
       /\ s # 0 /\ serverState[s] # "NONE" => remoteToken # 0 /\ clientState[s] # "NONE"

(* Sub-flows to come: scheduled, or for the server's addresses to bring.   *)
ToCome ==
  /\ \A s \in scheduled : s # 0 /\ clientState[s] = "NONE"
  /\ scheduled # {} => pathManager = "NdiffPorts"
  /\ pathManager = "FullMesh" /\ mpRecvState.client # "MP_ADDR" =>
       \A s \in Subflows \ {0} : clientState[s] = "NONE"

(* When the first sub-flow is closed no other is to come. *)
ClosedIsLast ==
  /\ clientState[0] = "CLOSED" =>
       /\ scheduled = {}
       /\ \A s \in Subflows : clientState[s] \in {"NONE", "CLOSED"}
       /\ remoteToken # 0 => serverState[0] = "CLOSED"
  /\ \A s \in Subflows : clientState[s] = "CLOSED" => clientState[0] = "CLOSED"
  /\ serverState[0] = "CLOSED" /\ remoteToken # 0 =>
       /\ scheduled = {}
       /\ \A s \in Subflows : \A p \in ToServerOn(s) : p.kind \notin {"JOIN", "ADDR"}
       /\ \A s \in Subflows : \A p \in ToClientOn(s) : p.kind # "ADDR"

HandshakeInv ==
  /\ TypeOK
  /\ ClientPackets
  /\ SentOnce
  /\ ServerPackets
  /\ CapableIsAlone
  /\ SynMeetsSocket
  /\ OpeningIsFresh
  /\ SocketsCount
  /\ EndsAgree
  /\ ToCome
  /\ ClosedIsLast
  /\ OtherFaultsNever

(* The client remembers no socket but the last one.  It is invariant in    *)
(* states in which HandshakeInv holds, and needed for the refinement.      *)
NumbersAgree ==
  /\ \A s \in Subflows :
       /\ rxNumber[s] \in {0, forks}
       /\ Opening => rxNumber[s] = 0
       /\ \A p \in ToServerOn(s) :
            p.kind \in {"ACK", "ADDR", "DATA"} => rxNumber[s] = forks
  /\ remoteToken # 0 => rxNumber[0] = forks
=============================================================================
