--------------------------- MODULE MpTcpAgreement ---------------------------
(***************************************************************************)
(* What the hand-shake of an MPTCP connection promises, whatever packets   *)
(* it takes: the two ends agree on one connection, called by the number of *)
(* the server's socket, and on its sub-flows.  The server may give a       *)
(* socket up and accept another one, but not once the client has agreed;   *)
(* and it establishes a sub-flow only if the client has agreed to that     *)
(* sub-flow of that socket.  Nobody closes without a reason.               *)
(***************************************************************************)
EXTENDS Integers

CONSTANT Ways   \* the sub-flows; the first one, 0, opens the connection

VARIABLES
  client,    \* the client's state of each sub-flow
  server,    \* the state of each sub-flow of the server's last socket
  socket,    \* the number of that socket, 0 if there was none
  agreed     \* the socket to which the client has agreed on each sub-flow

agreementVars == <<client, server, socket, agreed>>

AgreementInit ==
  /\ client = [s \in Ways |-> "NONE"]
  /\ server = [s \in Ways |-> "NONE"]
  /\ socket = 0
  /\ agreed = [s \in Ways |-> 0]

(* The client asks for new sub-flows, for others than 0 on a connection.   *)
Ask(S) ==
  /\ \A s \in S : client[s] = "NONE" /\ (s # 0 => client[0] = "ESTABLISHED")
  /\ client' = [s \in Ways |-> IF s \in S THEN "SYN_SENT" ELSE client[s]]
  /\ UNCHANGED <<server, socket, agreed>>

SocketIsOpen == \E s \in Ways : server[s] \in {"SYN_RCVD", "ESTABLISHED"}

(* The server accepts a connection with a new socket. *)
Accept ==
  /\ client[0] = "SYN_SENT"
  /\ ~ SocketIsOpen
  /\ socket' = socket + 1
  /\ server' = [s \in Ways |-> IF s = 0 THEN "SYN_RCVD" ELSE "NONE"]
  /\ UNCHANGED <<client, agreed>>

(* The server accepts another sub-flow of the connection. *)
AcceptJoin(s) ==
  /\ s # 0 /\ server[s] = "NONE" /\ client[s] # "NONE"
  /\ SocketIsOpen /\ agreed[0] = socket
  /\ server' = [server EXCEPT ![s] = "SYN_RCVD"]
  /\ UNCHANGED <<client, socket, agreed>>

Agree(s) ==
  /\ client[s] = "SYN_SENT" /\ server[s] # "NONE"
  /\ client' = [client EXCEPT ![s] = "ESTABLISHED"]
  /\ agreed' = [agreed EXCEPT ![s] = socket]
  /\ UNCHANGED <<server, socket>>

Confirm(s) ==
  /\ server[s] = "SYN_RCVD" /\ agreed[s] = socket
  /\ server' = [server EXCEPT ![s] = "ESTABLISHED"]
  /\ UNCHANGED <<client, socket, agreed>>

(* The server gives a sub-flow up that the client has not confirmed. *)
GiveUp(s) ==
  /\ server[s] = "SYN_RCVD"
  /\ server' = [server EXCEPT ![s] = "CLOSED"]
  /\ UNCHANGED <<client, socket, agreed>>

Closed(state) ==
  [s \in Ways |-> IF state[s] = "NONE" THEN "NONE" ELSE "CLOSED"]

(* The client closes when it has got no answer, or when the server has     *)
(* given the first sub-flow up, and the server when the client has closed. *)
CloseClient ==
  /\ client[0] = "SYN_SENT" \/ server[0] = "CLOSED"
  /\ client' = Closed(client)
  /\ UNCHANGED <<server, socket, agreed>>

CloseServer ==
  /\ client[0] = "CLOSED"
  /\ server' = Closed(server)
  /\ UNCHANGED <<client, socket, agreed>>

AgreementNext ==
  \/ \E S \in SUBSET Ways : Ask(S)
  \/ Accept \/ CloseClient \/ CloseServer
  \/ \E s \in Ways : AcceptJoin(s) \/ Agree(s) \/ Confirm(s) \/ GiveUp(s)

AgreementSpec == AgreementInit /\ [][AgreementNext]_agreementVars
=============================================================================
