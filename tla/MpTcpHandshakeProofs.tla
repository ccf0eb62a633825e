------------------------ MODULE MpTcpHandshakeProofs ------------------------
(***************************************************************************)
(* HandshakeInv is an invariant of MpTcpHandshake for every number of      *)
(* sub-flows, queue places, retries and path managers, and the safety      *)
(* properties follow from it.                                              *)
(***************************************************************************)
EXTENDS MpTcpHandshakeInv, SequenceTheorems, TLAPS

-----------------------------------------------------------------------------
(* Sequences. *)

(* A packet that enters a queue is put behind the others, or dropped. *)
LEMMA EnqueueAdds ==
  ASSUME NEW S, NEW q \in Seq(S), NEW e \in S
  PROVE  /\ Enqueue(q, e) \in Seq(S)
         /\ Range(Enqueue(q, e)) \subseteq Range(q) \cup {e}
         /\ q = << >> => Len(Enqueue(q, e)) = 1
<1>1. Enqueue(q, e) \in Seq(S)
  BY DEF Enqueue
<1>2. Range(Enqueue(q, e)) \subseteq Range(q) \cup {e}
  BY DEF Enqueue, Range
<1>3. q = << >> => Len(Enqueue(q, e)) = 1
  BY PathAssumption DEF Enqueue
<1> QED
  BY <1>1, <1>2, <1>3

(* What is left of a queue, position by position. *)
LEMMA RemoveAtSeq ==
  ASSUME NEW S, NEW q \in Seq(S), NEW i \in 1 .. Len(q)
  PROVE  /\ RemoveAt(q, i) \in Seq(S)
         /\ Len(RemoveAt(q, i)) = Len(q) - 1
         /\ \A j \in 1 .. Len(q) - 1 :
              RemoveAt(q, i)[j] = IF j < i THEN q[j] ELSE q[j + 1]
<1> DEFINE a == SubSeq(q, 1, i - 1)
<1> DEFINE b == SubSeq(q, i + 1, Len(q))
<1>1. a \in Seq(S) /\ Len(a) = i - 1 /\ \A j \in 1 .. i - 1 : a[j] = q[j]
  OBVIOUS
<1>2. b \in Seq(S) /\ Len(b) = Len(q) - i /\ \A j \in 1 .. Len(q) - i : b[j] = q[i + j]
  OBVIOUS
<1>3. RemoveAt(q, i) = a \o b
  BY DEF RemoveAt
<1> HIDE DEF a, b
<1>4. /\ a \o b \in Seq(S) /\ Len(a \o b) = Len(q) - 1
      /\ \A j \in 1 .. Len(q) - 1 :
           (a \o b)[j] = IF j <= i - 1 THEN a[j] ELSE b[j - (i - 1)]
  <2>1. a \in Seq(S) /\ b \in Seq(S)
    BY <1>1, <1>2
  <2>2. /\ a \o b \in Seq(S) /\ Len(a \o b) = Len(a) + Len(b)
        /\ \A j \in 1 .. Len(a) + Len(b) :
             (a \o b)[j] = IF j <= Len(a) THEN a[j] ELSE b[j - Len(a)]
    BY <2>1, ConcatProperties
  <2>3. Len(a) = i - 1 /\ Len(b) = Len(q) - i
    BY <1>1, <1>2
  <2> QED
    BY <2>2, <2>3
<1>5. ASSUME NEW j \in 1 .. Len(q) - 1
      PROVE  (a \o b)[j] = IF j < i THEN q[j] ELSE q[j + 1]
  <2>1. CASE j < i
    BY <2>1, <1>1, <1>4
  <2>2. CASE ~ (j < i)
    <3>1. j - (i - 1) \in 1 .. Len(q) - i /\ i + (j - (i - 1)) = j + 1
      BY <2>2
    <3>2. (a \o b)[j] = b[j - (i - 1)]
      BY <2>2, <1>4
    <3> QED
      BY <2>2, <3>1, <3>2, <1>2
  <2> QED
    BY <2>1, <2>2
<1> QED
  BY <1>3, <1>4, <1>5

(* The packet that leaves was there, and nothing is added. *)
LEMMA RemoveTakes ==
  ASSUME NEW S, NEW q \in Seq(S), NEW i \in Leaving(q)
  PROVE  /\ RemoveAt(q, i) \in Seq(S)
         /\ Range(RemoveAt(q, i)) \subseteq Range(q)
         /\ q[i] \in Range(q) /\ q[i] \in S
         /\ Len(RemoveAt(q, i)) = Len(q) - 1
         /\ Len(q) = 1 => RemoveAt(q, i) = << >>
<1> DEFINE r == RemoveAt(q, i)
<1>1. i \in 1 .. Len(q)
  BY DEF Leaving
<1>2. /\ r \in Seq(S) /\ Len(r) = Len(q) - 1
      /\ \A j \in 1 .. Len(q) - 1 : r[j] = IF j < i THEN q[j] ELSE q[j + 1]
  BY <1>1, RemoveAtSeq
<1> HIDE DEF r
<1>3. Range(r) \subseteq Range(q)
  BY <1>1, <1>2 DEF Range
<1>4. q[i] \in Range(q) /\ q[i] \in S
  BY <1>1 DEF Range
<1>5. Len(q) = 1 => r = << >>
  BY <1>1, <1>2
<1> QED
  BY <1>2, <1>3, <1>4, <1>5 DEF r

(* One packet of a kind at most: a second one is not sent ... *)
LEMMA EnqueueOneOf ==
  ASSUME NEW q \in Seq(PacketType), NEW e \in PacketType, NEW k, OneOf(q, k),
         e.kind = k => \A p \in Range(q) : p.kind # k
  PROVE  OneOf(Enqueue(q, e), k)
BY DEF OneOf, Enqueue, Range

(* ... and none is left when it is taken. *)
LEMMA RemoveOneOf ==
  ASSUME NEW q \in Seq(PacketType), NEW i \in Leaving(q), NEW k, OneOf(q, k)
  PROVE  /\ OneOf(RemoveAt(q, i), k)
         /\ q[i].kind = k => \A p \in Range(RemoveAt(q, i)) : p.kind # k
<1> DEFINE r == RemoveAt(q, i)
<1>1. i \in 1 .. Len(q)
  BY DEF Leaving
<1>2. r \in Seq(PacketType) /\ DOMAIN r = 1 .. Len(q) - 1
  BY <1>1, RemoveAtSeq
<1>3. \A j \in DOMAIN r : r[j] = IF j < i THEN q[j] ELSE q[j + 1]
  BY <1>1, <1>2, RemoveAtSeq
<1> HIDE DEF r
<1>4. OneOf(r, k)
  <2>1. SUFFICES ASSUME NEW a \in DOMAIN r, NEW b \in DOMAIN r,
                        r[a].kind = k, r[b].kind = k
                 PROVE  a = b
    BY DEF OneOf
  <2> DEFINE at(j) == IF j < i THEN j ELSE j + 1
  <2>2. /\ at(a) \in DOMAIN q /\ at(b) \in DOMAIN q
        /\ q[at(a)] = r[a] /\ q[at(b)] = r[b]
    BY <1>1, <1>2, <1>3
  <2>3. at(a) = at(b)
    BY <2>1, <2>2 DEF OneOf
  <2> QED
    BY <2>3, <1>1, <1>2
<1>5. ASSUME q[i].kind = k, NEW p \in Range(r) PROVE p.kind # k
  <2>1. PICK a \in DOMAIN r : p = r[a]
    BY DEF Range
  <2>2. PICK b \in DOMAIN q : b # i /\ q[b] = p
    BY <2>1, <1>1, <1>2, <1>3
  <2> QED
    BY <2>2, <1>1, <1>5 DEF OneOf
<1> QED
  BY <1>4, <1>5 DEF r

-----------------------------------------------------------------------------
(* Paths. *)

(* What is sent on a sub-flow is added to it, or dropped. *)
Adds(path, new, s, e) ==
  /\ new \in [Subflows -> Seq(PacketType)]
  /\ \A t \in Subflows \ {s} : new[t] = path[t]
  /\ \A t \in Subflows : \A p \in Range(new[t]) :
       p \in Range(path[t]) \/ (t = s /\ p = e)
  /\ path[s] = << >> => Len(new[s]) = 1

LEMMA SendAdds ==
  ASSUME NEW path \in [Subflows -> Seq(PacketType)], NEW s \in Subflows,
         NEW e \in PacketType
  PROVE  Adds(path, Send(path, s, e), s, e)
<1>1. Send(path, s, e) = [path EXCEPT ![s] = Enqueue(path[s], e)]
  BY DEF Send
<1>2. /\ Enqueue(path[s], e) \in Seq(PacketType)
      /\ Range(Enqueue(path[s], e)) \subseteq Range(path[s]) \cup {e}
      /\ path[s] = << >> => Len(Enqueue(path[s], e)) = 1
  BY EnqueueAdds
<1> QED
  BY <1>1, <1>2 DEF Adds

(* What is taken from a sub-flow was there. *)
Removes(path, new, s, p) ==
  /\ new \in [Subflows -> Seq(PacketType)]
  /\ \A t \in Subflows \ {s} : new[t] = path[t]
  /\ \A t \in Subflows : Range(new[t]) \subseteq Range(path[t])
  /\ p \in Range(path[s]) /\ p \in PacketType
  /\ path[s] # << >>
  /\ Len(path[s]) = 1 => Range(new[s]) = {}

LEMMA TakeRemoves ==
  ASSUME NEW path \in [Subflows -> Seq(PacketType)], NEW s \in Subflows,
         NEW i \in Leaving(path[s])
  PROVE  Removes(path, Take(path, s, i), s, path[s][i])
<1>1. Take(path, s, i) = [path EXCEPT ![s] = RemoveAt(path[s], i)]
  BY DEF Take
<1>2. /\ RemoveAt(path[s], i) \in Seq(PacketType)
      /\ Range(RemoveAt(path[s], i)) \subseteq Range(path[s])
      /\ path[s][i] \in Range(path[s]) /\ path[s][i] \in PacketType
      /\ Len(path[s]) = 1 => RemoveAt(path[s], i) = << >>
  BY RemoveTakes
<1>3. path[s] # << >>
  BY DEF Leaving
<1>4. Len(path[s]) = 1 => Range(RemoveAt(path[s], i)) = {}
  BY <1>2 DEF Range
<1> QED
  BY <1>1, <1>2, <1>3, <1>4 DEF Removes

(* A SYN or a JOIN is alone of its kind if it is sent when there is none, *)
(* and none is left when it is taken.                                     *)
NoneOf(path, s, k) == \A p \in Range(path[s]) : p.kind # k

LEMMA SendOneOf ==
  ASSUME NEW path \in [Subflows -> Seq(PacketType)], NEW s \in Subflows,
         NEW e \in PacketType, NEW k,
         \A t \in Subflows : OneOf(path[t], k),
         e.kind = k => NoneOf(path, s, k)
  PROVE  \A t \in Subflows : OneOf(Send(path, s, e)[t], k)
<1>1. OneOf(Enqueue(path[s], e), k)
  BY EnqueueOneOf DEF NoneOf
<1> QED
  BY <1>1 DEF Send

LEMMA TakeOneOf ==
  ASSUME NEW path \in [Subflows -> Seq(PacketType)], NEW s \in Subflows,
         NEW i \in Leaving(path[s]), NEW k,
         \A t \in Subflows : OneOf(path[t], k)
  PROVE  /\ \A t \in Subflows : OneOf(Take(path, s, i)[t], k)
         /\ path[s][i].kind = k => NoneOf(Take(path, s, i), s, k)
<1>1. /\ OneOf(RemoveAt(path[s], i), k)
      /\ path[s][i].kind = k => \A p \in Range(RemoveAt(path[s], i)) : p.kind # k
  BY RemoveOneOf
<1> QED
  BY <1>1 DEF Take, NoneOf

(* The packets of the two ends. *)
LEMMA PacketTypes ==
  ASSUME NEW token \in Nat, NEW number \in Nat
  PROVE  /\ Syn \in PacketType /\ Rst \in PacketType /\ RstAck \in PacketType
         /\ Join(token) \in PacketType /\ SynAck(token, number) \in PacketType
         /\ Ack(number) \in PacketType /\ Addr(number) \in PacketType
         /\ Data(number) \in PacketType
BY DEF Syn, Rst, RstAck, Join, SynAck, Ack, Addr, Data, Packet, PacketType, Kinds

LEMMA SubflowZero == 0 \in Subflows
BY PathAssumption DEF Subflows

LEMMA TriesType ==
  ASSUME HandshakeInv, NEW s \in Subflows, serverTries[s] # 0,
         serverTries' = [serverTries EXCEPT ![s] = @ - 1]
  PROVE  serverTries' \in [Subflows -> 0 .. ConnRetries]
<1>1. ConnRetries \in Nat /\ serverTries \in [Subflows -> 0 .. ConnRetries]
  BY HandshakeAssumption DEF HandshakeInv, TypeOK
<1>2. serverTries[s] - 1 \in 0 .. ConnRetries
  BY <1>1
<1>3. QED
  BY <1>1, <1>2

(* Paths of the two ends are typed, and a packet of the data path is one   *)
(* of its kind.                                                            *)
LEMMA PathFacts ==
  ASSUME HandshakeInv
  PROVE  /\ dataPath \in [Subflows -> Seq(PacketType)]
         /\ ackPath \in [Subflows -> Seq(PacketType)]
         /\ \A t \in Subflows : OneOf(dataPath[t], "SYN")
         /\ \A t \in Subflows : OneOf(dataPath[t], "JOIN")
         /\ remoteToken \in Nat /\ forks \in Nat /\ localToken \in Nat
         /\ rxNumber \in [Subflows -> Nat]
BY DEF HandshakeInv, TypeOK, SentOnce

-----------------------------------------------------------------------------
(* The client's SYN. *)

LEMMA ConnectStep ==
  ASSUME HandshakeInv,
         Connect
  PROVE  HandshakeInv'
<1> USE SubflowZero, PathFacts DEF HandshakeInv, clientVars, serverVars, mpVars, pathVars
<1>1. Adds(dataPath, dataPath', 0, Syn)
  BY PacketTypes, SendAdds DEF Connect
<1>2. /\ dataPath[0] = << >> /\ Range(dataPath[0]) = {} /\ forks = 0
      /\ clientTries = ConnRetries /\ clientState[0] = "NONE"
      /\ remoteToken = 0 /\ ackPath[0] = << >> /\ Range(ackPath[0]) = {}
      /\ serverState[0] = "NONE"
  BY DEF Connect, OpeningIsFresh, Opening, SocketsCount, Range
<1>3. SentOnce'
  BY <1>2, PacketTypes, SendOneOf DEF SentOnce, NoneOf, Connect
<1>4. TypeOK'
  <2>1. clientTries' \in 0 .. ConnRetries
    BY <1>2, HandshakeAssumption DEF Connect
  <2>2. mpSendState' \in MpStates
    BY DEF Connect, MpStates, TypeOK
  <2> QED
    BY <1>1, <2>1, <2>2 DEF TypeOK, Connect, Adds
<1>5. ClientPackets'
  BY <1>1, <1>2 DEF ClientPackets, ToServerOn, Answered, TypeOK, Connect, Adds, Syn, Packet
<1>6. ServerPackets'
  BY <1>1, <1>2 DEF ServerPackets, ToClientOn, ToServerOn, SynUnderWay, Answered, TypeOK, Connect, Adds
<1>7. CapableIsAlone'
  BY <1>1, <1>2 DEF CapableIsAlone, ToClientOn, ToServerOn, SynUnderWay, TypeOK, Connect, Adds
<1>8. SynMeetsSocket'
  BY <1>1, <1>2 DEF SynMeetsSocket, ToServerOn, SynUnderWay, TypeOK, Connect, Adds
<1>9. OpeningIsFresh'
  BY <1>1, <1>2 DEF OpeningIsFresh, Opening, TypeOK, Connect, Adds
<1>10. SocketsCount'
  BY <1>1, <1>2 DEF SocketsCount, TypeOK, Connect, Adds
<1>11. EndsAgree'
  BY <1>1, <1>2 DEF EndsAgree, Answered, TypeOK, Connect, Adds
<1>12. ToCome'
  BY <1>1, <1>2 DEF ToCome, TypeOK, Connect, Adds
<1>13. ClosedIsLast'
  BY <1>1, <1>2 DEF ClosedIsLast, ToServerOn, ToClientOn, TypeOK, Connect, Adds
<1>14. OtherFaultsNever'
  BY <1>1, <1>2 DEF OtherFaultsNever, Connect, Adds
<1> QED
  BY <1>3, <1>4, <1>5, <1>6, <1>7, <1>8, <1>9, <1>10, <1>11, <1>12, <1>13, <1>14

LEMMA ClientRetryStep ==
  ASSUME HandshakeInv,
         ClientRetry
  PROVE  HandshakeInv'
<1> USE SubflowZero, PathFacts DEF HandshakeInv, clientVars, serverVars, mpVars, pathVars
<1>1. Adds(dataPath, dataPath', 0, Syn)
  BY PacketTypes, SendAdds DEF ClientRetry
<1>2. /\ dataPath[0] = << >> /\ Range(dataPath[0]) = {}
      /\ ackPath[0] = << >> /\ Range(ackPath[0]) = {}
      /\ clientState[0] = "SYN_SENT" /\ remoteToken = 0
  BY DEF ClientRetry, OpeningIsFresh, Opening, Unhurried, Silent, Range
<1>3. SentOnce'
  BY <1>2, PacketTypes, SendOneOf DEF SentOnce, NoneOf, ClientRetry
<1>4. TypeOK'
  <2>1. clientTries' \in 0 .. ConnRetries
    BY HandshakeAssumption DEF ClientRetry, TypeOK
  <2> QED
    BY <1>1, <2>1 DEF TypeOK, ClientRetry, Adds
<1>5. ClientPackets'
  BY <1>1, <1>2 DEF ClientPackets, ToServerOn, Answered, TypeOK, ClientRetry, Adds, Syn, Packet
<1>6. ServerPackets'
  BY <1>1, <1>2 DEF ServerPackets, ToClientOn, ToServerOn, SynUnderWay, Answered, TypeOK, ClientRetry, Adds
<1>7. CapableIsAlone'
  BY <1>1, <1>2 DEF CapableIsAlone, ToClientOn, ToServerOn, SynUnderWay, TypeOK, ClientRetry, Adds
<1>8. SynMeetsSocket'
  BY <1>1, <1>2 DEF SynMeetsSocket, ToServerOn, SynUnderWay, TypeOK, ClientRetry, Adds
<1>9. OpeningIsFresh'
  BY <1>1, <1>2 DEF OpeningIsFresh, Opening, TypeOK, ClientRetry, Adds
<1>10. SocketsCount'
  BY <1>1, <1>2 DEF SocketsCount, TypeOK, ClientRetry, Adds
<1>11. EndsAgree'
  BY <1>1, <1>2 DEF EndsAgree, Answered, TypeOK, ClientRetry, Adds
<1>12. ToCome'
  BY <1>1, <1>2 DEF ToCome, TypeOK, ClientRetry, Adds
<1>13. ClosedIsLast'
  BY <1>1, <1>2 DEF ClosedIsLast, ToServerOn, ToClientOn, TypeOK, ClientRetry, Adds
<1>14. OtherFaultsNever'
  BY <1>1, <1>2 DEF OtherFaultsNever, ClientRetry, Adds
<1> QED
  BY <1>3, <1>4, <1>5, <1>6, <1>7, <1>8, <1>9, <1>10, <1>11, <1>12, <1>13, <1>14

LEMMA ClientGiveUpStep ==
  ASSUME HandshakeInv,
         ClientGiveUp
  PROVE  HandshakeInv'
<1> USE SubflowZero, PathFacts DEF HandshakeInv, clientVars, serverVars, mpVars, pathVars
<1>1. /\ Range(dataPath[0]) = {} /\ Range(ackPath[0]) = {}
      /\ clientState[0] = "SYN_SENT" /\ remoteToken = 0 /\ scheduled = {}
      /\ \A t \in Subflows \ {0} : clientState[t] = "NONE"
  BY DEF ClientGiveUp, OpeningIsFresh, Opening, Unhurried, Silent, Range
<1>2. SentOnce'
  BY DEF SentOnce, ClientGiveUp
<1>3. TypeOK'
  BY <1>1 DEF TypeOK, MpStates, ClientGiveUp
<1>4. ClientPackets'
  BY <1>1 DEF ClientPackets, ToServerOn, Answered, TypeOK, ClientGiveUp
<1>5. ServerPackets'
  BY <1>1 DEF ServerPackets, ToClientOn, ToServerOn, SynUnderWay, Answered, TypeOK, ClientGiveUp
<1>6. CapableIsAlone'
  BY <1>1 DEF CapableIsAlone, ToClientOn, ToServerOn, SynUnderWay, TypeOK, ClientGiveUp
<1>7. SynMeetsSocket'
  BY <1>1 DEF SynMeetsSocket, ToServerOn, SynUnderWay, TypeOK, ClientGiveUp
<1>8. OpeningIsFresh'
  BY <1>1 DEF OpeningIsFresh, Opening, TypeOK, ClientGiveUp
<1>9. SocketsCount'
  BY <1>1 DEF SocketsCount, TypeOK, ClientGiveUp
<1>10. EndsAgree'
  BY <1>1 DEF EndsAgree, Answered, TypeOK, ClientGiveUp
<1>11. ToCome'
  BY <1>1 DEF ToCome, TypeOK, ClientGiveUp
<1>12. ClosedIsLast'
  BY <1>1 DEF ClosedIsLast, ToServerOn, ToClientOn, TypeOK, ClientGiveUp
<1>13. OtherFaultsNever'
  BY <1>1 DEF OtherFaultsNever, ClientGiveUp
<1> QED
  BY <1>2, <1>3, <1>4, <1>5, <1>6, <1>7, <1>8, <1>9, <1>10, <1>11, <1>12, <1>13

LEMMA ListenStep ==
  ASSUME HandshakeInv,
         Listen
  PROVE  HandshakeInv'
<1> USE SubflowZero, PathFacts DEF HandshakeInv, clientVars, serverVars, mpVars, pathVars
<1>1. SentOnce'
  BY DEF SentOnce, Listen
<1>2. TypeOK'
  BY DEF TypeOK, MpStates, Listen
<1>3. ClientPackets'
  BY DEF ClientPackets, ToServerOn, Answered, TypeOK, Listen
<1>4. ServerPackets'
  BY DEF ServerPackets, ToClientOn, ToServerOn, SynUnderWay, Answered, TypeOK, Listen
<1>5. CapableIsAlone'
  BY DEF CapableIsAlone, ToClientOn, ToServerOn, SynUnderWay, TypeOK, Listen
<1>6. SynMeetsSocket'
  BY DEF SynMeetsSocket, ToServerOn, SynUnderWay, TypeOK, Listen
<1>7. OpeningIsFresh'
  BY DEF OpeningIsFresh, Opening, TypeOK, Listen
<1>8. SocketsCount'
  BY DEF SocketsCount, TypeOK, Listen
<1>9. EndsAgree'
  BY DEF EndsAgree, Answered, TypeOK, Listen
<1>10. ToCome'
  BY DEF ToCome, TypeOK, Listen
<1>11. ClosedIsLast'
  BY DEF ClosedIsLast, ToServerOn, ToClientOn, TypeOK, Listen
<1>12. OtherFaultsNever'
  BY DEF OtherFaultsNever, Listen
<1> QED
  BY <1>1, <1>2, <1>3, <1>4, <1>5, <1>6, <1>7, <1>8, <1>9, <1>10, <1>11, <1>12

-----------------------------------------------------------------------------
(* What arrives, and what is lost. *)

(* A packet is taken by the client ... *)
ClientTakes(s, p) ==
  /\ Removes(ackPath, ackPath', s, p)
  /\ UNCHANGED <<pathManager, clientTries, serverVars>>

(* ... or by the server. *)
ServerTakes(s, p) ==
  /\ Removes(dataPath, dataPath', s, p)
  /\ SentOnce'
  /\ p.kind \in {"SYN", "JOIN"} => NoneOf(dataPath', s, p.kind)
  /\ UNCHANGED <<clientVars, listening>>

LEMMA TakenByServer ==
  ASSUME HandshakeInv, NEW s \in Subflows, NEW i \in Leaving(dataPath[s]),
         dataPath' = Take(dataPath, s, i), UNCHANGED <<clientVars, listening>>
  PROVE  ServerTakes(s, dataPath[s][i])
<1>1. Removes(dataPath, dataPath', s, dataPath[s][i])
  BY PathFacts, TakeRemoves
<1>2. /\ \A t \in Subflows : OneOf(dataPath'[t], "SYN")
      /\ dataPath[s][i].kind = "SYN" => NoneOf(dataPath', s, "SYN")
  BY PathFacts, TakeOneOf
<1>3. /\ \A t \in Subflows : OneOf(dataPath'[t], "JOIN")
      /\ dataPath[s][i].kind = "JOIN" => NoneOf(dataPath', s, "JOIN")
  BY PathFacts, TakeOneOf
<1> QED
  BY <1>1, <1>2, <1>3 DEF ServerTakes, SentOnce

LEMMA TakenByClient ==
  ASSUME HandshakeInv, NEW s \in Subflows, NEW i \in Leaving(ackPath[s]),
         ackPath' = Take(ackPath, s, i),
         UNCHANGED <<pathManager, clientTries, serverVars>>
  PROVE  ClientTakes(s, ackPath[s][i])
BY PathFacts, TakeRemoves DEF ClientTakes

(* The SYN+ACK with MP_CAPABLE and a RST with ACK leave nothing behind.    *)
LEMMA AloneLeavesNone ==
  ASSUME HandshakeInv, NEW s \in Subflows, NEW p, ClientTakes(s, p)
  PROVE  /\ s = 0 => \A q \in Range(ackPath'[0]) :
                          ~ (q.kind = "SYN_ACK" /\ q.token # 0) /\ q.kind # "RST_ACK"
         /\ \A t \in Subflows : Range(ackPath'[t]) \subseteq Range(ackPath[t])
BY SubflowZero DEF HandshakeInv, ClientTakes, Removes, CapableIsAlone, ServerPackets, ToClientOn

(* A packet of the client that is lost, or of no interest. *)
LEMMA DataLeaves ==
  ASSUME HandshakeInv,
         NEW s \in Subflows,
         NEW p,
         ServerTakes(s, p),
         UNCHANGED <<forks, serverState, serverTries, localToken, tokenMap, mpVars,
                     fault, ackPath>>
  PROVE  HandshakeInv'
<1> USE SubflowZero, PathFacts DEF HandshakeInv, clientVars, serverVars, mpVars, pathVars
<1>1. SentOnce'
  BY DEF ServerTakes
<1>2. TypeOK'
  BY DEF TypeOK, MpStates, ServerTakes, Removes
<1>3. ClientPackets'
  BY DEF ClientPackets, ToServerOn, Answered, TypeOK, ServerTakes, Removes
<1>4. ServerPackets'
  BY DEF ServerPackets, ToClientOn, ToServerOn, SynUnderWay, Answered, TypeOK, ServerTakes, Removes
<1>5. CapableIsAlone'
  BY DEF CapableIsAlone, ToClientOn, ToServerOn, SynUnderWay, TypeOK, ServerTakes, Removes
<1>6. SynMeetsSocket'
  BY DEF SynMeetsSocket, ToServerOn, SynUnderWay, TypeOK, ServerTakes, Removes
<1>7. OpeningIsFresh'
  BY DEF OpeningIsFresh, Opening, TypeOK, ServerTakes, Removes
<1>8. SocketsCount'
  BY DEF SocketsCount, TypeOK, ServerTakes, Removes
<1>9. EndsAgree'
  BY DEF EndsAgree, Answered, TypeOK, ServerTakes, Removes
<1>10. ToCome'
  BY DEF ToCome, TypeOK, ServerTakes, Removes
<1>11. ClosedIsLast'
  BY DEF ClosedIsLast, ToServerOn, ToClientOn, TypeOK, ServerTakes, Removes
<1>12. OtherFaultsNever'
  BY DEF OtherFaultsNever, ServerTakes, Removes
<1> QED
  BY <1>1, <1>2, <1>3, <1>4, <1>5, <1>6, <1>7, <1>8, <1>9, <1>10, <1>11, <1>12

(* A packet of the server that is lost, or of no interest. *)
LEMMA AckLeaves ==
  ASSUME HandshakeInv,
         NEW s \in Subflows,
         NEW p,
         ClientTakes(s, p),
         UNCHANGED <<clientState, rxNumber, remoteToken, scheduled, mpVars, dataPath>>,
         fault' \in {fault, "not_enabled"}
  PROVE  HandshakeInv'
<1> USE SubflowZero, PathFacts DEF HandshakeInv, clientVars, serverVars, mpVars, pathVars
<1>1. SentOnce'
  BY DEF SentOnce
<1>2. TypeOK'
  BY DEF TypeOK, MpStates, ClientTakes, Removes
<1>3. ClientPackets'
  BY DEF ClientPackets, ToServerOn, Answered, TypeOK, ClientTakes, Removes
<1>4. ServerPackets'
  BY AloneLeavesNone, ZenonT(30) DEF ServerPackets, ToClientOn, ToServerOn, SynUnderWay, Answered, TypeOK, ClientTakes, Removes
<1>5. CapableIsAlone'
  BY AloneLeavesNone DEF CapableIsAlone, ToClientOn, ToServerOn, SynUnderWay, TypeOK, ClientTakes, Removes
<1>6. SynMeetsSocket'
  BY DEF SynMeetsSocket, ToServerOn, SynUnderWay, TypeOK, ClientTakes, Removes
<1>7. OpeningIsFresh'
  BY DEF OpeningIsFresh, Opening, TypeOK, ClientTakes, Removes
<1>8. SocketsCount'
  BY DEF SocketsCount, TypeOK, ClientTakes, Removes
<1>9. EndsAgree'
  BY DEF EndsAgree, Answered, TypeOK, ClientTakes, Removes
<1>10. ToCome'
  BY DEF ToCome, TypeOK, ClientTakes, Removes
<1>11. ClosedIsLast'
  BY DEF ClosedIsLast, ToServerOn, ToClientOn, TypeOK, ClientTakes, Removes
<1>12. OtherFaultsNever'
  BY DEF OtherFaultsNever, ClientTakes, Removes
<1> QED
  BY <1>1, <1>2, <1>3, <1>4, <1>5, <1>6, <1>7, <1>8, <1>9, <1>10, <1>11, <1>12

LEMMA SendDataStep ==
  ASSUME HandshakeInv,
         NEW s \in Subflows,
         SendData(s)
  PROVE  HandshakeInv'
<1> USE SubflowZero, PathFacts DEF HandshakeInv, clientVars, serverVars, mpVars, pathVars
<1>1. Adds(dataPath, dataPath', s, Data(forks))
  BY PacketTypes, SendAdds DEF SendData, EndsAgree
<1>2. clientState[s] = "ESTABLISHED" /\ forks # 0 /\ Data(forks).kind = "DATA" /\ Data(forks).number = forks
  BY DEF SendData, EndsAgree, SocketsCount, Data, Packet
<1>3. SentOnce'
    <2>1. Data(forks) \in PacketType /\ dataPath' = Send(dataPath, s, Data(forks))
    BY PacketTypes DEF SendData, EndsAgree
  <2> QED
    BY <2>1, <1>2, SendOneOf DEF SentOnce
<1>4. TypeOK'
  BY <1>1, <1>2 DEF TypeOK, MpStates, SendData, Adds
<1>5. ClientPackets'
  BY <1>1, <1>2, SMTT(20) DEF ClientPackets, ToServerOn, Answered, TypeOK, SendData, Adds
<1>6. ServerPackets'
  BY <1>1, <1>2 DEF ServerPackets, ToClientOn, ToServerOn, SynUnderWay, Answered, TypeOK, SendData, Adds
<1>7. CapableIsAlone'
  BY <1>1, <1>2 DEF CapableIsAlone, ToClientOn, ToServerOn, SynUnderWay, TypeOK, SendData, Adds
<1>8. SynMeetsSocket'
  BY <1>1, <1>2 DEF SynMeetsSocket, ToServerOn, SynUnderWay, TypeOK, SendData, Adds
<1>9. OpeningIsFresh'
  BY <1>1, <1>2 DEF OpeningIsFresh, Opening, TypeOK, SendData, Adds
<1>10. SocketsCount'
  BY <1>1, <1>2 DEF SocketsCount, TypeOK, SendData, Adds
<1>11. EndsAgree'
  BY <1>1, <1>2 DEF EndsAgree, Answered, TypeOK, SendData, Adds
<1>12. ToCome'
  BY <1>1, <1>2 DEF ToCome, TypeOK, SendData, Adds
<1>13. ClosedIsLast'
  BY <1>1, <1>2 DEF ClosedIsLast, ToServerOn, ToClientOn, TypeOK, SendData, Adds
<1>14. OtherFaultsNever'
  BY <1>1, <1>2 DEF OtherFaultsNever, SendData, Adds
<1> QED
  BY <1>3, <1>4, <1>5, <1>6, <1>7, <1>8, <1>9, <1>10, <1>11, <1>12, <1>13, <1>14

-----------------------------------------------------------------------------
(* The client's handlers. *)

(* A SYN+ACK is that of the last socket, and whether or not it brings      *)
(* MP_CAPABLE, the client then knows no token but that of this socket.     *)
SenderCompletes(s, p) ==
  /\ p.number = forks /\ forks # 0 /\ serverState[s] # "NONE"
  /\ clientState' = [clientState EXCEPT ![s] = "ESTABLISHED"]
  /\ rxNumber' = [rxNumber EXCEPT ![s] = forks]
  /\ s = 0 => /\ scheduled = {} /\ remoteToken = 0
              /\ \A t \in Subflows \ {0} : clientState[t] = "NONE"
  /\ s # 0 => ~ Opening
  /\ \/ UNCHANGED <<remoteToken, mpRecvState>>
     \/ /\ s = 0 /\ remoteToken = 0 /\ remoteToken' = localToken
        /\ mpRecvState' = [mpRecvState EXCEPT !.client = "MP_MPC"]
        /\ serverState[0] = "SYN_RCVD" /\ ~ SynUnderWay

LEMMA SynAckArrives ==
  ASSUME HandshakeInv, NEW s \in Subflows, NEW p, ClientTakes(s, p),
         p.kind = "SYN_ACK", clientState[s] = "SYN_SENT",
         CompleteSender(s, p), ReadCapable(p)
  PROVE  SenderCompletes(s, p)
<1> USE SubflowZero, PathFacts DEF HandshakeInv
<1>1. p \in Range(ackPath[s])
  BY DEF ClientTakes, Removes
<1>2. p.number = forks /\ serverState[s] # "NONE" /\ (p.token # 0 => s = 0)
  BY <1>1 DEF ServerPackets, ToClientOn
<1>3. forks # 0
  BY <1>2 DEF SocketsCount, EndsAgree
<1>4. /\ s = 0 => /\ scheduled = {} /\ remoteToken = 0
                  /\ \A t \in Subflows \ {0} : clientState[t] = "NONE"
      /\ s # 0 => ~ Opening
  BY DEF OpeningIsFresh, Opening
<1>5. p.token # 0 => /\ s = 0 /\ p.token = localToken
                     /\ serverState[0] = "SYN_RCVD" /\ ~ SynUnderWay
  BY <1>1, <1>2 DEF CapableIsAlone, ToClientOn
<1> QED
  BY <1>2, <1>3, <1>4, <1>5
  DEF SenderCompletes, CompleteSender, ReadCapable, BringsCapable

(* What the client answers, the ACK and its addresses. *)
Answers(s) ==
  /\ dataPath' \in [Subflows -> Seq(PacketType)]
  /\ \A t \in Subflows : \A q \in Range(dataPath'[t]) :
       \/ q \in Range(dataPath[t])
       \/ /\ t = s /\ q.kind \in {"ACK", "ADDR"} /\ q.number = forks
          /\ q.kind = "ADDR" => /\ s = 0 /\ pathManager = "FullMesh"
                                /\ remoteToken' # 0

LEMMA CompletedView ==
  ASSUME HandshakeInv, NEW s \in Subflows, NEW p, ClientTakes(s, p),
         p.kind = "SYN_ACK", clientState[s] = "SYN_SENT",
         SenderCompletes(s, p), Answers(s)
  PROVE  /\ ClientPackets' /\ ServerPackets' /\ CapableIsAlone'
         /\ SynMeetsSocket' /\ OpeningIsFresh' /\ SocketsCount' /\ EndsAgree'
<1> USE SubflowZero, PathFacts DEF HandshakeInv, serverVars
<1>1. /\ UNCHANGED <<pathManager, forks, serverState, localToken, tokenMap, listening>>
      /\ clientState' = [clientState EXCEPT ![s] = "ESTABLISHED"]
      /\ clientState[s] = "SYN_SENT"
      /\ forks # 0 /\ serverState[s] # "NONE"
      /\ s = 0 => remoteToken = 0
      /\ s # 0 => ~ Opening /\ remoteToken' = remoteToken
      /\ remoteToken # 0 => remoteToken' = remoteToken
  BY DEF ClientTakes, SenderCompletes
<1>2. /\ ackPath' \in [Subflows -> Seq(PacketType)]
      /\ \A t \in Subflows : Range(ackPath'[t]) \subseteq Range(ackPath[t])
      /\ \A t \in Subflows \ {s} : ackPath'[t] = ackPath[t]
      /\ ackPath[s] # << >>
  BY DEF ClientTakes, Removes
<1>3. clientState \in [Subflows -> {"NONE", "SYN_SENT", "ESTABLISHED", "CLOSED"}]
  BY DEF TypeOK
<1>4. SynUnderWay' => SynUnderWay /\ remoteToken' = 0
  <2>1. SynUnderWay' => SynUnderWay
    BY DEF SynUnderWay, ToServerOn, Answers
  <2>2. SynUnderWay => remoteToken = 0
    BY DEF SynUnderWay, ClientPackets
  <2> QED
    BY <2>1, <2>2 DEF SenderCompletes
<1>5. ClientPackets'
  <2> SUFFICES ASSUME NEW t \in Subflows, NEW q \in Range(dataPath'[t])
               PROVE  /\ q.kind \in {"SYN", "JOIN", "ACK", "ADDR", "DATA", "RST"}
                      /\ q.kind = "SYN" => t = 0 /\ remoteToken' = 0
                      /\ q.kind = "JOIN" =>
                           /\ t # 0 /\ forks' # 0
                           /\ clientState'[t] # "NONE" /\ serverState'[t] = "NONE"
                           /\ q.token \in {0, remoteToken'}
                      /\ q.kind \in {"ACK", "ADDR", "DATA"} =>
                           q.number = forks' /\ forks' # 0 /\ Answered(t)'
                      /\ q.kind = "ADDR" => t = 0 /\ pathManager' = "FullMesh" /\ remoteToken' # 0
                      /\ q.kind = "RST" => clientState'[0] = "CLOSED"
    BY DEF ClientPackets, ToServerOn
  <2>1. CASE q \in Range(dataPath[t])
    <3>1. /\ q.kind \in {"SYN", "JOIN", "ACK", "ADDR", "DATA", "RST"}
          /\ q.kind = "SYN" => t = 0
          /\ q.kind = "JOIN" =>
               /\ t # 0 /\ clientState[t] # "NONE" /\ serverState[t] = "NONE"
               /\ q.token \in {0, remoteToken}
          /\ q.kind \in {"ACK", "ADDR", "DATA"} => q.number = forks /\ Answered(t)
          /\ q.kind = "ADDR" => t = 0 /\ pathManager = "FullMesh" /\ remoteToken # 0
          /\ q.kind = "RST" => clientState[0] = "CLOSED"
      BY <2>1 DEF ClientPackets, ToServerOn
    <3>2. q.kind = "SYN" => SynUnderWay'
      BY <3>1 DEF SynUnderWay, ToServerOn
    <3>3. clientState[0] = "CLOSED" => s # 0
      BY <1>1
    <3> QED
      BY <1>1, <1>3, <1>4, <3>1, <3>2, <3>3 DEF Answered
  <2>2. CASE q \notin Range(dataPath[t])
    BY <1>1, <1>3, <2>2 DEF Answers, Answered
  <2> QED
    BY <2>1, <2>2
<1>6. ServerPackets'
  <2> SUFFICES ASSUME NEW t \in Subflows, NEW q \in Range(ackPath'[t])
               PROVE  /\ q.kind \in {"SYN_ACK", "ACK", "ADDR", "RST", "RST_ACK"}
                      /\ q.kind = "SYN_ACK" =>
                           /\ q.number = forks'
                           /\ clientState'[t] # "NONE" /\ serverState'[t] # "NONE"
                           /\ q.token # 0 => t = 0
                      /\ q.kind = "ACK" => Answered(t)'
                      /\ q.kind = "ADDR" => t = 0 /\ pathManager' = "FullMesh" /\ remoteToken' # 0
                      /\ q.kind = "RST" => t = 0 /\ serverState'[0] = "CLOSED" /\ remoteToken' # 0
                      /\ q.kind # "RST_ACK"
    BY DEF ServerPackets, ToClientOn
  <2>1. q \in Range(ackPath[t])
    BY <1>2
  <2> QED
    BY <1>1, <1>3, <2>1 DEF ServerPackets, ToClientOn, Answered
<1>7. CapableIsAlone'
  <2>1. s = 0 \/ clientState[0] # "SYN_SENT"
    BY <1>1 DEF Opening
  <2> QED
    BY <1>1, <1>2, <2>1, AloneLeavesNone DEF CapableIsAlone, ToClientOn
<1>8. SynMeetsSocket'
  BY <1>1, <1>2, <1>3, <1>4 DEF SynMeetsSocket
<1>9. OpeningIsFresh'
  BY <1>1, <1>3 DEF OpeningIsFresh, Opening
<1>10. SocketsCount'
  BY <1>1 DEF SocketsCount
<1>11. EndsAgree'
  <2>1. remoteToken' \in {0, localToken}
    BY DEF SenderCompletes, EndsAgree
  <2>2. ASSUME NEW t \in Subflows
        PROVE  /\ clientState'[t] = "ESTABLISHED" => rxNumber'[t] = forks /\ serverState[t] # "NONE"
               /\ serverState[t] = "ESTABLISHED" => Answered(t)'
               /\ t # 0 /\ serverState[t] # "NONE" => remoteToken' # 0 /\ clientState'[t] # "NONE"
    BY <1>1, <1>3 DEF EndsAgree, Answered, SenderCompletes
  <2> QED
    BY <1>1, <2>1, <2>2 DEF EndsAgree
<1> QED
  BY <1>5, <1>6, <1>7, <1>8, <1>9, <1>10, <1>11

LEMMA EstablishedPlainStep ==
  ASSUME HandshakeInv, NEW s \in Subflows, NEW p, ClientTakes(s, p),
         p.kind = "SYN_ACK", clientState[s] = "SYN_SENT", EstablishedPlain(s, p)
  PROVE  HandshakeInv'
<1> USE SubflowZero, PathFacts DEF HandshakeInv, serverVars
<1>1. SenderCompletes(s, p)
  BY SynAckArrives DEF EstablishedPlain
<1>2. /\ Ack(forks) \in PacketType /\ dataPath' = Send(dataPath, s, Ack(forks))
      /\ Ack(forks).kind = "ACK" /\ Ack(forks).number = forks
  BY <1>1, PacketTypes DEF EstablishedPlain, SenderCompletes, Ack, Packet
<1>3. Answers(s)
  <2>1. Adds(dataPath, dataPath', s, Ack(forks))
    BY <1>2, SendAdds
  <2> QED
    BY <1>2, <2>1 DEF Adds, Answers
<1>4. /\ ClientPackets' /\ ServerPackets' /\ CapableIsAlone'
      /\ SynMeetsSocket' /\ OpeningIsFresh' /\ SocketsCount' /\ EndsAgree'
  BY <1>1, <1>3, CompletedView
<1>5. SentOnce'
  BY <1>2, SendOneOf DEF SentOnce
<1>6. TypeOK'
  <2>1. clientState' \in [Subflows -> {"NONE", "SYN_SENT", "ESTABLISHED", "CLOSED"}]
    BY <1>1 DEF SenderCompletes, TypeOK
  <2>2. rxNumber' \in [Subflows -> Nat] /\ remoteToken' \in Nat
    BY <1>1 DEF SenderCompletes
  <2>3. mpRecvState' \in MpStates
    BY <1>1 DEF SenderCompletes, MpStates, TypeOK
  <2>4. mpSendState' \in MpStates
    BY DEF EstablishedPlain, MpStates, TypeOK
  <2>5. ackPath' \in [Subflows -> Seq(PacketType)] /\ dataPath' \in [Subflows -> Seq(PacketType)]
    BY <1>3 DEF ClientTakes, Removes, Answers
  <2> QED
    BY <2>1, <2>2, <2>3, <2>4, <2>5 DEF TypeOK, EstablishedPlain, ClientTakes
<1>7. ToCome'
  BY <1>1 DEF ToCome, EstablishedPlain, SenderCompletes, ClientTakes, TypeOK
<1>8. ClosedIsLast'
  <2>1. /\ clientState' = [clientState EXCEPT ![s] = "ESTABLISHED"]
        /\ clientState[s] = "SYN_SENT" /\ serverState' = serverState
        /\ clientState \in [Subflows -> {"NONE", "SYN_SENT", "ESTABLISHED", "CLOSED"}]
    BY <1>1 DEF SenderCompletes, ClientTakes, TypeOK
  <2>2. clientState[0] # "CLOSED"
    BY <2>1 DEF ClosedIsLast
  <2>3. /\ clientState'[0] # "CLOSED"
        /\ \A t \in Subflows : clientState'[t] # "CLOSED"
    BY <2>1, <2>2 DEF ClosedIsLast
  <2>4. ASSUME serverState[0] = "CLOSED", remoteToken' # 0
        PROVE  s # 0 /\ remoteToken # 0 /\ scheduled' = scheduled
    BY <1>1, <2>4 DEF SenderCompletes, EstablishedPlain
  <2>5. ASSUME serverState[0] = "CLOSED", remoteToken' # 0
        PROVE  /\ \A t \in Subflows : \A q \in Range(dataPath'[t]) : q.kind \notin {"JOIN", "ADDR"}
               /\ \A t \in Subflows : \A q \in Range(ackPath'[t]) : q.kind # "ADDR"
    BY <1>3, <2>4, <2>5 DEF ClosedIsLast, Answers, ToServerOn, ToClientOn, ClientTakes, Removes
  <2> QED
    BY <2>1, <2>3, <2>4, <2>5 DEF ClosedIsLast, ToServerOn, ToClientOn
<1>9. OtherFaultsNever'
  BY DEF OtherFaultsNever, EstablishedPlain
<1> QED
  BY <1>4, <1>5, <1>6, <1>7, <1>8, <1>9

LEMMA EstablishedPortsStep ==
  ASSUME HandshakeInv, NEW s \in Subflows, NEW p, ClientTakes(s, p),
         p.kind = "SYN_ACK", clientState[s] = "SYN_SENT", EstablishedPorts(s, p)
  PROVE  HandshakeInv'
<1> USE SubflowZero, PathFacts DEF HandshakeInv, serverVars
<1>1. SenderCompletes(s, p)
  BY SynAckArrives DEF EstablishedPorts
<1>2. /\ Ack(forks) \in PacketType /\ dataPath' = Send(dataPath, s, Ack(forks))
      /\ Ack(forks).kind = "ACK" /\ Ack(forks).number = forks
  BY <1>1, PacketTypes DEF EstablishedPorts, SenderCompletes, Ack, Packet
<1>3. Answers(s)
  <2>1. Adds(dataPath, dataPath', s, Ack(forks))
    BY <1>2, SendAdds
  <2> QED
    BY <1>2, <2>1 DEF Adds, Answers
<1>4. /\ ClientPackets' /\ ServerPackets' /\ CapableIsAlone'
      /\ SynMeetsSocket' /\ OpeningIsFresh' /\ SocketsCount' /\ EndsAgree'
  BY <1>1, <1>3, CompletedView
<1>5. SentOnce'
  BY <1>2, SendOneOf DEF SentOnce
<1>6. TypeOK'
  <2>1. clientState' \in [Subflows -> {"NONE", "SYN_SENT", "ESTABLISHED", "CLOSED"}]
    BY <1>1 DEF SenderCompletes, TypeOK
  <2>2. rxNumber' \in [Subflows -> Nat] /\ remoteToken' \in Nat
    BY <1>1 DEF SenderCompletes
  <2>3. mpRecvState' \in MpStates
    BY <1>1 DEF SenderCompletes, MpStates, TypeOK
  <2>4. mpSendState' \in MpStates
    BY DEF EstablishedPorts, MpStates, TypeOK
  <2>5. ackPath' \in [Subflows -> Seq(PacketType)] /\ dataPath' \in [Subflows -> Seq(PacketType)]
    BY <1>3 DEF ClientTakes, Removes, Answers
  <2> QED
    BY <2>1, <2>2, <2>3, <2>4, <2>5 DEF TypeOK, EstablishedPorts, ClientTakes
<1>7. ToCome'
  BY <1>1 DEF ToCome, EstablishedPorts, SenderCompletes, ClientTakes, TypeOK
<1>8. ClosedIsLast'
  <2>1. /\ clientState' = [clientState EXCEPT ![s] = "ESTABLISHED"]
        /\ clientState[s] = "SYN_SENT" /\ serverState' = serverState
        /\ clientState \in [Subflows -> {"NONE", "SYN_SENT", "ESTABLISHED", "CLOSED"}]
    BY <1>1 DEF SenderCompletes, ClientTakes, TypeOK
  <2>2. clientState[0] # "CLOSED"
    BY <2>1 DEF ClosedIsLast
  <2>3. /\ clientState'[0] # "CLOSED"
        /\ \A t \in Subflows : clientState'[t] # "CLOSED"
    BY <2>1, <2>2 DEF ClosedIsLast
  <2>4. ASSUME serverState[0] = "CLOSED", remoteToken' # 0
        PROVE  s # 0 /\ remoteToken # 0 /\ scheduled' = scheduled
    BY <1>1, <2>4 DEF SenderCompletes, EstablishedPorts
  <2>5. ASSUME serverState[0] = "CLOSED", remoteToken' # 0
        PROVE  /\ \A t \in Subflows : \A q \in Range(dataPath'[t]) : q.kind \notin {"JOIN", "ADDR"}
               /\ \A t \in Subflows : \A q \in Range(ackPath'[t]) : q.kind # "ADDR"
    BY <1>3, <2>4, <2>5 DEF ClosedIsLast, Answers, ToServerOn, ToClientOn, ClientTakes, Removes
  <2> QED
    BY <2>1, <2>3, <2>4, <2>5 DEF ClosedIsLast, ToServerOn, ToClientOn
<1>9. OtherFaultsNever'
  BY DEF OtherFaultsNever, EstablishedPorts
<1> QED
  BY <1>4, <1>5, <1>6, <1>7, <1>8, <1>9

LEMMA EstablishedMeshStep ==
  ASSUME HandshakeInv, NEW s \in Subflows, NEW p, ClientTakes(s, p),
         p.kind = "SYN_ACK", clientState[s] = "SYN_SENT", EstablishedMesh(s, p)
  PROVE  HandshakeInv'
<1> USE SubflowZero, PathFacts DEF HandshakeInv, serverVars
<1>1. SenderCompletes(s, p)
  BY SynAckArrives DEF EstablishedMesh
<1> DEFINE path == Send(dataPath, s, Ack(forks))
<1>2. /\ Ack(forks) \in PacketType /\ Addr(forks) \in PacketType
      /\ Ack(forks).kind = "ACK" /\ Ack(forks).number = forks
      /\ Addr(forks).kind = "ADDR" /\ Addr(forks).number = forks
      /\ dataPath' = Send(path, s, Addr(forks))
  BY <1>1, PacketTypes DEF EstablishedMesh, SenderCompletes, Ack, Addr, Packet
<1>a. Adds(dataPath, path, s, Ack(forks))
  BY <1>2, SendAdds
<1>b. \A t \in Subflows : OneOf(path[t], "SYN") /\ OneOf(path[t], "JOIN")
  BY <1>2, SendOneOf
<1> HIDE DEF path
<1>c. path \in [Subflows -> Seq(PacketType)]
  BY <1>a DEF Adds
<1>d. Adds(path, dataPath', s, Addr(forks))
  BY <1>2, <1>c, SendAdds
<1>e. s = 0 /\ pathManager = "FullMesh" /\ remoteToken' # 0
  BY <1>1 DEF EstablishedMesh, SenderCompletes, SocketsCount, BringsCapable, mpEnabled, ReadCapable
<1>3. Answers(s)
  BY <1>2, <1>a, <1>d, <1>e DEF Adds, Answers
<1>4. /\ ClientPackets' /\ ServerPackets' /\ CapableIsAlone'
      /\ SynMeetsSocket' /\ OpeningIsFresh' /\ SocketsCount' /\ EndsAgree'
  BY <1>1, <1>3, CompletedView
<1>5. SentOnce'
  BY <1>2, <1>b, <1>c, SendOneOf DEF SentOnce
<1>6. TypeOK'
  <2>1. clientState' \in [Subflows -> {"NONE", "SYN_SENT", "ESTABLISHED", "CLOSED"}]
    BY <1>1 DEF SenderCompletes, TypeOK
  <2>2. rxNumber' \in [Subflows -> Nat] /\ remoteToken' \in Nat
    BY <1>1 DEF SenderCompletes
  <2>3. mpRecvState' \in MpStates
    BY <1>1 DEF SenderCompletes, MpStates, TypeOK
  <2>4. mpSendState' \in MpStates
    BY DEF EstablishedMesh, MpStates, TypeOK
  <2>5. ackPath' \in [Subflows -> Seq(PacketType)] /\ dataPath' \in [Subflows -> Seq(PacketType)]
    BY <1>3 DEF ClientTakes, Removes, Answers
  <2> QED
    BY <2>1, <2>2, <2>3, <2>4, <2>5 DEF TypeOK, EstablishedMesh, ClientTakes
<1>7. ToCome'
  BY <1>1 DEF ToCome, EstablishedMesh, SenderCompletes, ClientTakes, TypeOK
<1>8. ClosedIsLast'
  <2>1. /\ clientState' = [clientState EXCEPT ![s] = "ESTABLISHED"]
        /\ clientState[s] = "SYN_SENT" /\ serverState' = serverState
        /\ clientState \in [Subflows -> {"NONE", "SYN_SENT", "ESTABLISHED", "CLOSED"}]
    BY <1>1 DEF SenderCompletes, ClientTakes, TypeOK
  <2>2. clientState[0] # "CLOSED"
    BY <2>1 DEF ClosedIsLast
  <2>3. /\ clientState'[0] # "CLOSED"
        /\ \A t \in Subflows : clientState'[t] # "CLOSED"
    BY <2>1, <2>2 DEF ClosedIsLast
  <2>4. ASSUME serverState[0] = "CLOSED", remoteToken' # 0
        PROVE  s # 0 /\ remoteToken # 0 /\ scheduled' = scheduled
    BY <1>1, <2>4 DEF SenderCompletes, EstablishedMesh
  <2>5. ASSUME serverState[0] = "CLOSED", remoteToken' # 0
        PROVE  /\ \A t \in Subflows : \A q \in Range(dataPath'[t]) : q.kind \notin {"JOIN", "ADDR"}
               /\ \A t \in Subflows : \A q \in Range(ackPath'[t]) : q.kind # "ADDR"
    BY <1>3, <2>4, <2>5 DEF ClosedIsLast, Answers, ToServerOn, ToClientOn, ClientTakes, Removes
  <2> QED
    BY <2>1, <2>3, <2>4, <2>5 DEF ClosedIsLast, ToServerOn, ToClientOn
<1>9. OtherFaultsNever'
  BY DEF OtherFaultsNever, EstablishedMesh
<1> QED
  BY <1>4, <1>5, <1>6, <1>7, <1>8, <1>9

(* The addresses of the server bring a JOIN to every other sub-flow. *)
LEMMA ReceiveAddressesStep ==
  ASSUME HandshakeInv,
         NEW s \in Subflows,
         NEW p,
         ClientTakes(s, p),
         ReceiveAddresses(s, p)
  PROVE  HandshakeInv'
<1> USE SubflowZero, PathFacts DEF HandshakeInv, clientVars, serverVars, mpVars, pathVars
<1>1. /\ p.kind = "ADDR" /\ p \in Range(ackPath[s])
      /\ mpRecvState.client = "MP_MPC"
      /\ clientState[s] \in {"SYN_SENT", "ESTABLISHED"}
  BY DEF ReceiveAddresses, ClientTakes, Removes
<1>2. /\ s = 0 /\ pathManager = "FullMesh" /\ remoteToken # 0
      /\ clientState[0] = "ESTABLISHED" /\ ~ Opening
      /\ serverState[0] # "CLOSED" /\ forks # 0
      /\ \A t \in Subflows \ {0} : clientState[t] = "NONE" /\ serverState[t] = "NONE"
      /\ scheduled = {}
  <2>1. s = 0 /\ pathManager = "FullMesh" /\ remoteToken # 0
    BY <1>1 DEF ServerPackets, ToClientOn
  <2>2. clientState[0] = "ESTABLISHED" /\ ~ Opening
    BY <1>1, <2>1 DEF OpeningIsFresh, Opening
  <2>3. serverState[0] # "CLOSED"
    BY <1>1, <2>1 DEF ClosedIsLast, ToClientOn
  <2>4. \A t \in Subflows \ {0} : clientState[t] = "NONE"
    BY <1>1, <2>1 DEF ToCome
  <2>5. scheduled = {}
    BY <2>1 DEF ToCome
  <2> QED
    BY <2>1, <2>2, <2>3, <2>4, <2>5 DEF EndsAgree, SocketsCount
<1>3. /\ Join(remoteToken) \in PacketType
      /\ Join(remoteToken).kind = "JOIN" /\ Join(remoteToken).token = remoteToken
  BY PacketTypes DEF Join, Packet
<1>4. \A t \in Subflows \ {0} :
        /\ dataPath'[t] = Enqueue(dataPath[t], Join(remoteToken))
        /\ dataPath'[t] \in Seq(PacketType)
        /\ Range(dataPath'[t]) \subseteq Range(dataPath[t]) \cup {Join(remoteToken)}
        /\ \A q \in Range(dataPath[t]) : q.kind # "JOIN"
  <2>1. ASSUME NEW t \in Subflows \ {0}
        PROVE  dataPath'[t] = Enqueue(dataPath[t], Join(remoteToken))
    BY <2>1 DEF ReceiveAddresses
  <2>2. ASSUME NEW t \in Subflows \ {0}
        PROVE  \A q \in Range(dataPath[t]) : q.kind # "JOIN"
    BY <1>2 DEF ClientPackets, ToServerOn
  <2>3. ASSUME NEW t \in Subflows \ {0}
        PROVE  /\ Enqueue(dataPath[t], Join(remoteToken)) \in Seq(PacketType)
               /\ Range(Enqueue(dataPath[t], Join(remoteToken)))
                    \subseteq Range(dataPath[t]) \cup {Join(remoteToken)}
    <3>1. dataPath[t] \in Seq(PacketType)
      OBVIOUS
    <3> QED
      BY ONLY <3>1, <1>3, EnqueueAdds
  <2> QED
    BY <2>1, <2>2, <2>3
<1>5. /\ dataPath' \in [Subflows -> Seq(PacketType)]
      /\ dataPath'[0] = dataPath[0]
  BY <1>4 DEF ReceiveAddresses
<1>6. /\ \A t \in Subflows : Range(ackPath'[t]) \subseteq Range(ackPath[t])
      /\ UNCHANGED <<pathManager, forks, serverState, localToken, tokenMap, listening, remoteToken, scheduled>>
      /\ \A t \in Subflows : clientState'[t] = IF t = 0 THEN clientState[0] ELSE "SYN_SENT"
  BY DEF ReceiveAddresses, ClientTakes, Removes
<1>7. SentOnce'
    <2>1. ASSUME NEW t \in Subflows \ {0}
        PROVE  OneOf(dataPath'[t], "SYN") /\ OneOf(dataPath'[t], "JOIN")
    <3>1. OneOf(Enqueue(dataPath[t], Join(remoteToken)), "SYN")
      BY <1>3, EnqueueOneOf
    <3>2. OneOf(Enqueue(dataPath[t], Join(remoteToken)), "JOIN")
      BY <1>3, <1>4, EnqueueOneOf
    <3> QED
      BY <1>4, <3>1, <3>2
  <2> QED
    BY <1>5, <2>1 DEF SentOnce
<1>8. TypeOK'
  <2>1. mpRecvState' \in MpStates
    BY DEF MpStates, ReceiveAddresses, TypeOK
  <2> QED
    BY <1>5, <2>1 DEF TypeOK, ReceiveAddresses, ClientTakes, Removes
<1>9. ClientPackets'
  BY <1>1, <1>2, <1>3, <1>4, <1>5, <1>6, SMTT(20) DEF ClientPackets, ToServerOn, Answered, TypeOK, ReceiveAddresses, ClientTakes, Removes
<1>10. ServerPackets'
  BY <1>1, <1>2, <1>3, <1>4, <1>5, <1>6, AloneLeavesNone, ZenonT(30) DEF ServerPackets, ToClientOn, ToServerOn, SynUnderWay, Answered, TypeOK, ReceiveAddresses, ClientTakes, Removes
<1>11. CapableIsAlone'
  BY <1>1, <1>2, <1>3, <1>4, <1>5, <1>6, AloneLeavesNone DEF CapableIsAlone, ToClientOn, ToServerOn, SynUnderWay, TypeOK, ReceiveAddresses, ClientTakes, Removes
<1>12. SynMeetsSocket'
  BY <1>1, <1>2, <1>3, <1>4, <1>5, <1>6 DEF SynMeetsSocket, ToServerOn, SynUnderWay, TypeOK, ReceiveAddresses, ClientTakes, Removes
<1>13. OpeningIsFresh'
  BY <1>1, <1>2, <1>3, <1>4, <1>5, <1>6 DEF OpeningIsFresh, Opening, TypeOK, ReceiveAddresses, ClientTakes, Removes
<1>14. SocketsCount'
  BY <1>1, <1>2, <1>3, <1>4, <1>5, <1>6 DEF SocketsCount, TypeOK, ReceiveAddresses, ClientTakes, Removes
<1>15. EndsAgree'
  BY <1>1, <1>2, <1>3, <1>4, <1>5, <1>6 DEF EndsAgree, Answered, TypeOK, ReceiveAddresses, ClientTakes, Removes
<1>16. ToCome'
  BY <1>1, <1>2, <1>3, <1>4, <1>5, <1>6 DEF ToCome, TypeOK, ReceiveAddresses, ClientTakes, Removes
<1>17. ClosedIsLast'
  BY <1>1, <1>2, <1>3, <1>4, <1>5, <1>6 DEF ClosedIsLast, ToServerOn, ToClientOn, TypeOK, ReceiveAddresses, ClientTakes, Removes
<1>18. OtherFaultsNever'
  BY <1>1, <1>2, <1>3, <1>4, <1>5, <1>6 DEF OtherFaultsNever, ReceiveAddresses, ClientTakes, Removes
<1> QED
  BY <1>7, <1>8, <1>9, <1>10, <1>11, <1>12, <1>13, <1>14, <1>15, <1>16, <1>17, <1>18

(* A reset closes what the client has of the connection. *)
LEMMA ReceiveResetStep ==
  ASSUME HandshakeInv,
         NEW s \in Subflows,
         NEW p,
         ClientTakes(s, p),
         ReceiveReset(s, p)
  PROVE  HandshakeInv'
<1> USE SubflowZero, PathFacts DEF HandshakeInv, clientVars, serverVars, mpVars, pathVars
<1>1. /\ p.kind \in {"RST", "RST_ACK"} /\ p \in Range(ackPath[s])
      /\ clientState[s] \in {"SYN_SENT", "ESTABLISHED"}
  BY DEF ReceiveReset, IsReset, ClientTakes, Removes
<1>2. /\ s = 0 /\ scheduled = {} /\ ~ SynUnderWay
      /\ remoteToken # 0 => serverState[0] = "CLOSED"
  <2>1. CASE p.kind = "RST"
    <3>1. s = 0 /\ serverState[0] = "CLOSED" /\ remoteToken # 0
      BY <1>1, <2>1 DEF ServerPackets, ToClientOn
    <3> QED
      BY <3>1 DEF ClosedIsLast, SynUnderWay, ClientPackets
  <2>2. CASE p.kind = "RST_ACK"
    <3>1. s = 0 /\ clientState[0] = "SYN_SENT" /\ forks = 0 /\ ~ SynUnderWay
      BY <1>1, <2>2 DEF ServerPackets, ToClientOn
    <3> QED
      BY <3>1 DEF OpeningIsFresh, Opening
  <2> QED
    BY <1>1, <2>1, <2>2
<1>3. /\ UNCHANGED <<pathManager, forks, serverState, localToken, tokenMap, listening, remoteToken, scheduled>>
      /\ \A t \in Subflows : clientState'[t] = IF clientState[t] = "NONE" THEN "NONE" ELSE "CLOSED"
      /\ clientState'[0] = "CLOSED"
      /\ clientState' \in [Subflows -> {"NONE", "SYN_SENT", "ESTABLISHED", "CLOSED"}]
  BY <1>1, <1>2 DEF ReceiveReset, CloseAndNotifyAllSubflows, ClientTakes
<1>4. /\ dataPath' \in [Subflows -> Seq(PacketType)]
      /\ \A t \in Subflows : \A q \in Range(dataPath'[t]) :
           q \in Range(dataPath[t]) \/ q.kind = "RST"
      /\ SentOnce'
  <2>1. Rst \in PacketType /\ Rst.kind = "RST"
    BY PacketTypes DEF Rst, Packet
  <2>2. CASE dataPath' = dataPath
    BY <2>2 DEF SentOnce
  <2>3. CASE dataPath' = Send(dataPath, s, Rst)
    <3>1. Adds(dataPath, dataPath', s, Rst)
      BY <2>1, <2>3, SendAdds
    <3>2. SentOnce'
      BY <2>1, <2>3, SendOneOf DEF SentOnce
    <3> QED
      BY <2>1, <3>1, <3>2 DEF Adds
  <2> QED
    BY <2>2, <2>3 DEF ReceiveReset
<1>5. ~ SynUnderWay'
  BY <1>2, <1>4 DEF SynUnderWay, ToServerOn
<1>6. SentOnce'
  BY <1>4
<1>7. TypeOK'
  BY <1>1, <1>2, <1>3, <1>4, <1>5, ZenonT(30) DEF TypeOK, MpStates, ReceiveReset, ClientTakes, Removes
<1>8. ClientPackets'
  BY <1>3, <1>4, ZenonT(30) DEF ClientPackets, ToServerOn, Answered
<1>9. ServerPackets'
  BY <1>1, <1>2, <1>3, <1>5, AloneLeavesNone, ZenonT(30) DEF ServerPackets, ToClientOn, Answered
<1>10. CapableIsAlone'
  BY <1>2, <1>3, AloneLeavesNone DEF CapableIsAlone, ToClientOn
<1>11. SynMeetsSocket'
  BY <1>1, <1>2, <1>3, <1>4, <1>5 DEF SynMeetsSocket, ToServerOn, SynUnderWay, TypeOK, ReceiveReset, ClientTakes, Removes
<1>12. OpeningIsFresh'
  BY <1>1, <1>2, <1>3, <1>4, <1>5 DEF OpeningIsFresh, Opening, TypeOK, ReceiveReset, ClientTakes, Removes
<1>13. SocketsCount'
  BY <1>1, <1>2, <1>3, <1>4, <1>5 DEF SocketsCount, TypeOK, ReceiveReset, ClientTakes, Removes
<1>14. EndsAgree'
  BY <1>1, <1>2, <1>3, <1>4, <1>5 DEF EndsAgree, Answered, TypeOK, ReceiveReset, ClientTakes, Removes
<1>15. ToCome'
  BY <1>2, <1>3 DEF ToCome, ReceiveReset
<1>16. ClosedIsLast'
  <2>1. /\ \A t \in Subflows : clientState'[t] \in {"NONE", "CLOSED"}
        /\ remoteToken' # 0 => serverState'[0] = "CLOSED"
    BY <1>2, <1>3
  <2>2. ASSUME serverState[0] = "CLOSED", remoteToken # 0
        PROVE  /\ \A t \in Subflows : \A q \in Range(dataPath'[t]) : q.kind \notin {"JOIN", "ADDR"}
               /\ \A t \in Subflows : \A q \in Range(ackPath'[t]) : q.kind # "ADDR"
    BY <1>4, <2>2 DEF ClosedIsLast, ToServerOn, ToClientOn, ClientTakes, Removes
  <2> QED
    BY <1>2, <1>3, <2>1, <2>2 DEF ClosedIsLast, ToServerOn, ToClientOn
<1>17. OtherFaultsNever'
  BY <1>1, <1>2, <1>3, <1>4, <1>5 DEF OtherFaultsNever, ReceiveReset, ClientTakes, Removes
<1> QED
  BY <1>6, <1>7, <1>8, <1>9, <1>10, <1>11, <1>12, <1>13, <1>14, <1>15, <1>16, <1>17

(* Packets for a closed sub-flow, those that a closed connection gets. *)
LEMMA ClientRefusesStep ==
  ASSUME HandshakeInv,
         NEW s \in Subflows,
         NEW p,
         ClientTakes(s, p),
         ClientRefuses(s, p)
  PROVE  HandshakeInv'
<1> USE SubflowZero, PathFacts DEF HandshakeInv, clientVars, serverVars, mpVars, pathVars
<1>1. /\ p \in Range(ackPath[s]) /\ ackPath[s] # << >>
      /\ clientState[s] \in {"NONE", "CLOSED"}
  BY DEF ClientRefuses, ClientTakes, Removes
<1>2. clientState[0] = "CLOSED" /\ ~ SynUnderWay
  <2>1. clientState[s] = "CLOSED"
    <3> SUFFICES ASSUME clientState[s] = "NONE" PROVE FALSE
      BY <1>1
    <3>1. p.kind \in {"ADDR", "RST"} /\ s = 0 /\ remoteToken # 0
      BY <1>1 DEF ServerPackets, ToClientOn, Answered
    <3> QED
      BY <3>1 DEF OpeningIsFresh, Opening
  <2>2. clientState[0] = "CLOSED"
    BY <2>1 DEF ClosedIsLast
  <2> QED
    BY <2>2 DEF SynMeetsSocket
<1>3. /\ dataPath' \in [Subflows -> Seq(PacketType)]
      /\ \A t \in Subflows : \A q \in Range(dataPath'[t]) :
           q \in Range(dataPath[t]) \/ q.kind = "RST"
      /\ SentOnce'
  <2>1. Rst \in PacketType /\ Rst.kind = "RST"
    BY PacketTypes DEF Rst, Packet
  <2>2. CASE dataPath' = dataPath
    BY <2>2 DEF SentOnce
  <2>3. CASE dataPath' = Send(dataPath, s, Rst)
    <3>1. Adds(dataPath, dataPath', s, Rst)
      BY <2>1, <2>3, SendAdds
    <3>2. SentOnce'
      BY <2>1, <2>3, SendOneOf DEF SentOnce
    <3> QED
      BY <2>1, <3>1, <3>2 DEF Adds
  <2> QED
    BY <2>2, <2>3 DEF ClientRefuses
<1>4. ~ SynUnderWay'
  BY <1>2, <1>3 DEF SynUnderWay, ToServerOn
<1>5. SentOnce'
  BY <1>3
<1>6. TypeOK'
  BY <1>1, <1>2, <1>3, <1>4 DEF TypeOK, MpStates, ClientRefuses, ClientTakes, Removes
<1>7. ClientPackets'
  BY <1>1, <1>2, <1>3, <1>4, ZenonT(30) DEF ClientPackets, ToServerOn, Answered, TypeOK, ClientRefuses, ClientTakes, Removes
<1>8. ServerPackets'
  BY <1>1, <1>2, <1>3, <1>4, AloneLeavesNone DEF ServerPackets, ToClientOn, ToServerOn, SynUnderWay, Answered, TypeOK, ClientRefuses, ClientTakes, Removes
<1>9. CapableIsAlone'
  BY <1>1, <1>2, <1>3, <1>4, AloneLeavesNone DEF CapableIsAlone, ToClientOn, ToServerOn, SynUnderWay, TypeOK, ClientRefuses, ClientTakes, Removes
<1>10. SynMeetsSocket'
  BY <1>1, <1>2, <1>3, <1>4 DEF SynMeetsSocket, ToServerOn, SynUnderWay, TypeOK, ClientRefuses, ClientTakes, Removes
<1>11. OpeningIsFresh'
  BY <1>1, <1>2, <1>3, <1>4 DEF OpeningIsFresh, Opening, TypeOK, ClientRefuses, ClientTakes, Removes
<1>12. SocketsCount'
  BY <1>1, <1>2, <1>3, <1>4 DEF SocketsCount, TypeOK, ClientRefuses, ClientTakes, Removes
<1>13. EndsAgree'
  BY <1>1, <1>2, <1>3, <1>4 DEF EndsAgree, Answered, TypeOK, ClientRefuses, ClientTakes, Removes
<1>14. ToCome'
  BY <1>1, <1>2, <1>3, <1>4 DEF ToCome, TypeOK, ClientRefuses, ClientTakes, Removes
<1>15. ClosedIsLast'
  BY <1>1, <1>2, <1>3, <1>4 DEF ClosedIsLast, ToServerOn, ToClientOn, TypeOK, ClientRefuses, ClientTakes, Removes
<1>16. OtherFaultsNever'
  BY <1>1, <1>2, <1>3, <1>4 DEF OtherFaultsNever, ClientRefuses, ClientTakes, Removes
<1> QED
  BY <1>5, <1>6, <1>7, <1>8, <1>9, <1>10, <1>11, <1>12, <1>13, <1>14, <1>15, <1>16

(* The other sub-flows of NdiffPorts. *)
LEMMA InitiateSingleSubflowsStep ==
  ASSUME HandshakeInv,
         NEW t \in Subflows,
         InitiateSingleSubflows(t)
  PROVE  HandshakeInv'
<1> USE SubflowZero, PathFacts DEF HandshakeInv, clientVars, serverVars, mpVars, pathVars
<1>1. /\ t # 0 /\ clientState[t] = "NONE" /\ serverState[t] = "NONE"
      /\ pathManager = "NdiffPorts" /\ clientState[0] = "ESTABLISHED" /\ forks # 0
  <2>1. t \in scheduled
    BY DEF InitiateSingleSubflows
  <2>2. t # 0 /\ clientState[t] = "NONE" /\ pathManager = "NdiffPorts"
    BY <2>1 DEF ToCome
  <2>3. clientState[0] = "ESTABLISHED"
    BY <2>1 DEF OpeningIsFresh, Opening, ClosedIsLast, TypeOK
  <2> QED
    BY <2>2, <2>3 DEF EndsAgree, SocketsCount
<1>2. /\ Join(remoteToken) \in PacketType
      /\ Join(remoteToken).kind = "JOIN" /\ Join(remoteToken).token = remoteToken
  BY PacketTypes DEF Join, Packet
<1>3. /\ dataPath' = Send(dataPath, t, Join(remoteToken))
      /\ clientState' = [clientState EXCEPT ![t] = "SYN_SENT"]
      /\ scheduled' = scheduled \ {t} /\ scheduled # {} /\ fault' = fault
      /\ NoneOf(dataPath, t, "JOIN")
  BY <1>1 DEF InitiateSingleSubflows, NoneOf, ClientPackets, ToServerOn
<1>4. Adds(dataPath, dataPath', t, Join(remoteToken))
  BY <1>2, <1>3, SendAdds
<1>5. UNCHANGED <<pathManager, clientTries, rxNumber, remoteToken, serverVars,
                  mpVars, ackPath>>
  BY DEF InitiateSingleSubflows
<1>6. SentOnce'
  BY <1>2, <1>3, SendOneOf DEF SentOnce
<1>7. TypeOK'
  BY <1>1, <1>2, <1>3, <1>4, <1>5 DEF TypeOK, MpStates, Adds
<1>8. ClientPackets'
  <2>1. /\ \A r \in Subflows \ {t} : clientState'[r] = clientState[r]
        /\ clientState'[t] = "SYN_SENT" /\ clientState'[0] = clientState[0]
    BY <1>1, <1>3 DEF TypeOK
  <2>2. ASSUME NEW r \in Subflows, NEW q \in Range(dataPath[r])
        PROVE  /\ q.kind \in {"ACK", "ADDR", "DATA"} => Answered(r)'
               /\ q.kind = "JOIN" => clientState'[r] # "NONE"
    BY <1>1, <2>1 DEF ClientPackets, ToServerOn, Answered
  <2>3. ASSUME NEW r \in Subflows, NEW q \in Range(dataPath'[r])
        PROVE  q \in Range(dataPath[r]) \/ (r = t /\ q = Join(remoteToken))
    BY <1>4 DEF Adds
  <2> QED
    BY <1>1, <1>2, <1>5, <2>1, <2>2, <2>3, ZenonT(30) DEF ClientPackets, ToServerOn
<1>9. ServerPackets'
  BY <1>1, <1>2, <1>3, <1>4, <1>5, ZenonT(30) DEF ServerPackets, ToClientOn, ToServerOn, SynUnderWay, Answered, TypeOK, Adds
<1>10. CapableIsAlone'
  BY <1>1, <1>2, <1>3, <1>4, <1>5 DEF CapableIsAlone, ToClientOn, ToServerOn, SynUnderWay, TypeOK, Adds
<1>11. SynMeetsSocket'
  BY <1>1, <1>2, <1>3, <1>4, <1>5 DEF SynMeetsSocket, ToServerOn, SynUnderWay, TypeOK, Adds
<1>12. OpeningIsFresh'
  BY <1>1, <1>2, <1>3, <1>4, <1>5 DEF OpeningIsFresh, Opening, TypeOK, Adds
<1>13. SocketsCount'
  BY <1>1, <1>2, <1>3, <1>4, <1>5 DEF SocketsCount, TypeOK, Adds
<1>14. EndsAgree'
  BY <1>1, <1>2, <1>3, <1>4, <1>5 DEF EndsAgree, Answered, TypeOK, Adds
<1>15. ToCome'
  BY <1>1, <1>2, <1>3, <1>4, <1>5 DEF ToCome, TypeOK, Adds
<1>16. ClosedIsLast'
  BY <1>1, <1>2, <1>3, <1>4, <1>5 DEF ClosedIsLast, ToServerOn, ToClientOn, TypeOK, Adds
<1>17. OtherFaultsNever'
  BY <1>1, <1>2, <1>3, <1>4, <1>5 DEF OtherFaultsNever, Adds
<1> QED
  BY <1>6, <1>7, <1>8, <1>9, <1>10, <1>11, <1>12, <1>13, <1>14, <1>15, <1>16, <1>17

-----------------------------------------------------------------------------
(* The server's timers. *)

(* A SYN+ACK that repeats one is that of the last socket. *)
LEMMA SynAckAdds ==
  ASSUME HandshakeInv, NEW s \in Subflows, NEW new,
         new = Send(ackPath, s, SynAck(0, forks))
  PROVE  /\ Adds(ackPath, new, s, SynAck(0, forks))
         /\ SynAck(0, forks).kind = "SYN_ACK" /\ SynAck(0, forks).token = 0
         /\ SynAck(0, forks).number = forks
<1>1. SynAck(0, forks) \in PacketType
  BY PathFacts, PacketTypes
<1>2. Adds(ackPath, new, s, SynAck(0, forks))
  BY <1>1, PathFacts, SendAdds
<1> QED
  BY <1>2 DEF SynAck, Packet

(* The retries of a SYN+ACK are used up. *)
LEMMA ServerGiveUpStep ==
  ASSUME HandshakeInv,
         NEW s \in Subflows,
         ServerTimeout(s),
         serverTries[s] = 0
  PROVE  HandshakeInv'
<1> USE SubflowZero, PathFacts DEF HandshakeInv, clientVars, serverVars, mpVars, pathVars
<1>1. /\ serverState[s] = "SYN_RCVD" /\ Unhurried(s)
      /\ UNCHANGED <<clientVars, listening, forks, localToken, tokenMap, mpVars,
                     fault, dataPath>>
  BY DEF ServerTimeout
<1>2. /\ Range(dataPath[s]) = {} /\ Range(ackPath[s]) = {} /\ ackPath[s] = << >>
      /\ scheduled = {}
      /\ \A t \in Subflows : \A q \in Range(dataPath[t]) : q.kind # "JOIN"
  BY <1>1 DEF Unhurried, Silent, Range
<1>3. forks # 0 /\ clientState[s] # "NONE" /\ (s # 0 => remoteToken # 0)
  <2>1. s = 0 => forks # 0 /\ clientState[0] # "NONE"
    BY <1>1 DEF SocketsCount, OpeningIsFresh, Opening
  <2>2. s # 0 => clientState[s] # "NONE" /\ remoteToken # 0
    BY <1>1 DEF EndsAgree
  <2> QED
    BY <2>1, <2>2 DEF EndsAgree, SocketsCount
<1>4. /\ serverState' = [serverState EXCEPT ![s] = "CLOSED"]
      /\ UNCHANGED <<serverTries, ackPath>>
  BY DEF ServerTimeout, AnswerSyn
<1>5. SentOnce'
  BY <1>1 DEF SentOnce
<1>6. TypeOK'
  BY <1>1, <1>2, <1>3, <1>4 DEF TypeOK, MpStates
<1>7. ClientPackets'
  BY <1>1, <1>2, <1>3, <1>4 DEF ClientPackets, ToServerOn, Answered, TypeOK
<1>8. ServerPackets'
  BY <1>1, <1>2, <1>3, <1>4 DEF ServerPackets, ToClientOn, ToServerOn, SynUnderWay, Answered, TypeOK
<1>9. CapableIsAlone'
  BY <1>1, <1>2, <1>3, <1>4 DEF CapableIsAlone, ToClientOn, ToServerOn, SynUnderWay, TypeOK
<1>10. SynMeetsSocket'
  BY <1>1, <1>2, <1>3, <1>4 DEF SynMeetsSocket, ToServerOn, SynUnderWay, TypeOK
<1>11. OpeningIsFresh'
  BY <1>1, <1>2, <1>3, <1>4 DEF OpeningIsFresh, Opening, TypeOK
<1>12. SocketsCount'
  BY <1>1, <1>2, <1>3, <1>4 DEF SocketsCount, TypeOK
<1>13. EndsAgree'
  BY <1>1, <1>2, <1>3, <1>4 DEF EndsAgree, Answered, TypeOK
<1>14. ToCome'
  BY <1>1, <1>2, <1>3, <1>4 DEF ToCome, TypeOK
<1>15. ClosedIsLast'
  <2>1. CASE s = 0
    <3>1. /\ \A t \in Subflows : \A q \in Range(dataPath[t]) : q.kind # "ADDR"
          /\ \A t \in Subflows : \A q \in Range(ackPath[t]) : q.kind # "ADDR"
      BY <1>2, <2>1 DEF ClientPackets, ServerPackets, ToServerOn, ToClientOn
    <3> QED
      BY <1>1, <1>2, <1>4, <2>1, <3>1 DEF ClosedIsLast, ToServerOn, ToClientOn, TypeOK
  <2>2. CASE s # 0
    BY <1>1, <1>4, <2>2 DEF ClosedIsLast, ToServerOn, ToClientOn, TypeOK
  <2> QED
    BY <2>1, <2>2
<1>16. OtherFaultsNever'
  BY <1>1, <1>2, <1>3, <1>4 DEF OtherFaultsNever
<1> QED
  BY <1>5, <1>6, <1>7, <1>8, <1>9, <1>10, <1>11, <1>12, <1>13, <1>14, <1>15, <1>16

(* A SYN+ACK is sent again. *)
LEMMA ServerRetryStep ==
  ASSUME HandshakeInv,
         NEW s \in Subflows,
         ServerTimeout(s),
         serverTries[s] # 0
  PROVE  HandshakeInv'
<1> USE SubflowZero, PathFacts DEF HandshakeInv, clientVars, serverVars, mpVars, pathVars
<1>1. /\ serverState[s] = "SYN_RCVD" /\ Unhurried(s)
      /\ UNCHANGED <<clientVars, listening, forks, localToken, tokenMap, mpVars,
                     fault, dataPath>>
  BY DEF ServerTimeout
<1>2. /\ Range(dataPath[s]) = {} /\ Range(ackPath[s]) = {} /\ ackPath[s] = << >>
      /\ scheduled = {}
      /\ \A t \in Subflows : \A q \in Range(dataPath[t]) : q.kind # "JOIN"
  BY <1>1 DEF Unhurried, Silent, Range
<1>3. forks # 0 /\ clientState[s] # "NONE" /\ (s # 0 => remoteToken # 0)
  <2>1. s = 0 => forks # 0 /\ clientState[0] # "NONE"
    BY <1>1 DEF SocketsCount, OpeningIsFresh, Opening
  <2>2. s # 0 => clientState[s] # "NONE" /\ remoteToken # 0
    BY <1>1 DEF EndsAgree
  <2> QED
    BY <2>1, <2>2 DEF EndsAgree, SocketsCount
<1>4. /\ serverTries' = [serverTries EXCEPT ![s] = @ - 1]
      /\ ackPath' = Send(ackPath, s, SynAck(0, forks)) /\ serverState' = serverState
  BY DEF ServerTimeout, AnswerSyn
<1>5. /\ Adds(ackPath, ackPath', s, SynAck(0, forks))
      /\ SynAck(0, forks).kind = "SYN_ACK" /\ SynAck(0, forks).token = 0
      /\ SynAck(0, forks).number = forks
  BY <1>4, SynAckAdds
<1>6. SentOnce'
  BY <1>1 DEF SentOnce
<1>7. TypeOK'
  <2>1. serverTries' \in [Subflows -> 0 .. ConnRetries]
    BY ONLY HandshakeInv, <1>4, serverTries[s] # 0, TriesType
  <2> QED
    BY <1>1, <1>4, <1>5, <2>1 DEF TypeOK, Adds
<1>8. ClientPackets'
  BY <1>1, <1>2, <1>3, <1>4, <1>5, SMTT(20) DEF ClientPackets, ToServerOn, Answered, TypeOK, Adds
<1>9. ServerPackets'
  BY <1>1, <1>2, <1>3, <1>4, <1>5, SMTT(30) DEF ServerPackets, ToClientOn, ToServerOn, SynUnderWay, Answered, TypeOK, Adds
<1>10. CapableIsAlone'
  BY <1>1, <1>2, <1>3, <1>4, <1>5 DEF CapableIsAlone, ToClientOn, ToServerOn, SynUnderWay, TypeOK, Adds
<1>11. SynMeetsSocket'
  BY <1>1, <1>2, <1>3, <1>4, <1>5 DEF SynMeetsSocket, ToServerOn, SynUnderWay, TypeOK, Adds
<1>12. OpeningIsFresh'
  BY <1>1, <1>2, <1>3, <1>4, <1>5 DEF OpeningIsFresh, Opening, TypeOK, Adds
<1>13. SocketsCount'
  BY <1>1, <1>2, <1>3, <1>4, <1>5 DEF SocketsCount, TypeOK, Adds
<1>14. EndsAgree'
  BY <1>1, <1>2, <1>3, <1>4, <1>5 DEF EndsAgree, Answered, TypeOK, Adds
<1>15. ToCome'
  BY <1>1, <1>2, <1>3, <1>4, <1>5 DEF ToCome, TypeOK, Adds
<1>16. ClosedIsLast'
  BY <1>1, <1>2, <1>3, <1>4, <1>5 DEF ClosedIsLast, ToServerOn, ToClientOn, TypeOK, Adds
<1>17. OtherFaultsNever'
  BY <1>1, <1>2, <1>3, <1>4, <1>5 DEF OtherFaultsNever, Adds
<1> QED
  BY <1>6, <1>7, <1>8, <1>9, <1>10, <1>11, <1>12, <1>13, <1>14, <1>15, <1>16, <1>17

(* A SYN and a SYN+ACK cross. *)
LEMMA RetriesCrossStep ==
  ASSUME HandshakeInv,
         RetriesCross
  PROVE  HandshakeInv'
<1> USE SubflowZero, PathFacts DEF HandshakeInv, clientVars, serverVars, mpVars, pathVars
<1>1. /\ clientState[0] = "SYN_SENT" /\ serverState[0] = "SYN_RCVD" /\ Unhurried(0)
      /\ UNCHANGED <<pathManager, clientState, rxNumber, remoteToken, scheduled,
                     listening, forks, localToken, tokenMap, mpVars, fault>>
  BY DEF RetriesCross
<1>2. /\ dataPath[0] = << >> /\ Range(dataPath[0]) = {}
      /\ ackPath[0] = << >> /\ Range(ackPath[0]) = {}
      /\ remoteToken = 0 /\ forks # 0
  BY <1>1 DEF Unhurried, Silent, Range, OpeningIsFresh, Opening, SocketsCount
<1>3. /\ serverTries' = [serverTries EXCEPT ![0] = @ - 1] /\ serverState' = serverState
      /\ clientTries' = clientTries - 1 /\ serverTries[0] > 0 /\ clientTries > 0
      /\ dataPath' = Send(dataPath, 0, Syn)
      /\ ackPath' = Send(ackPath, 0, SynAck(0, forks))
  BY DEF RetriesCross, AnswerSyn, TypeOK
<1>4. /\ Adds(ackPath, ackPath', 0, SynAck(0, forks))
      /\ SynAck(0, forks).kind = "SYN_ACK" /\ SynAck(0, forks).token = 0
      /\ SynAck(0, forks).number = forks
  BY <1>3, SynAckAdds
<1>5. Adds(dataPath, dataPath', 0, Syn) /\ Syn.kind = "SYN"
  BY <1>3, PacketTypes, SendAdds DEF Syn, Packet
<1>6. SentOnce'
  BY <1>2, <1>3, PacketTypes, SendOneOf DEF SentOnce, NoneOf
<1>7. TypeOK'
  <2>1. serverTries' \in [Subflows -> 0 .. ConnRetries]
    BY <1>3, HandshakeAssumption DEF TypeOK
  <2>2. clientTries' \in 0 .. ConnRetries
    BY <1>3, HandshakeAssumption DEF TypeOK
  <2> QED
    BY <1>1, <1>3, <1>4, <1>5, <2>1, <2>2 DEF TypeOK, Adds
<1>8. ClientPackets'
  <2>1. /\ UNCHANGED <<pathManager, clientState, remoteToken, forks, serverState>>
        /\ \A t \in Subflows : \A q \in Range(dataPath'[t]) :
             q \in Range(dataPath[t]) \/ (t = 0 /\ q = Syn)
    BY <1>1, <1>3, <1>5 DEF Adds
  <2> QED
    BY <1>2, <1>5, <2>1 DEF ClientPackets, ToServerOn, Answered
<1>9. ServerPackets'
  <2>1. /\ UNCHANGED <<pathManager, clientState, remoteToken, forks, serverState>>
        /\ \A t \in Subflows : \A q \in Range(ackPath'[t]) :
             q \in Range(ackPath[t]) \/ (t = 0 /\ q = SynAck(0, forks))
    BY <1>1, <1>3, <1>4 DEF Adds
  <2>2. \A t \in Subflows : \A q \in Range(ackPath[t]) : q.kind # "RST_ACK"
    BY <1>2 DEF ServerPackets, ToClientOn
  <2> QED
    BY <1>1, <1>2, <1>4, <2>1, <2>2, ZenonT(30) DEF ServerPackets, ToClientOn, Answered
<1>10. CapableIsAlone'
  BY <1>1, <1>2, <1>3, <1>4, <1>5 DEF CapableIsAlone, ToClientOn, ToServerOn, SynUnderWay, TypeOK, Adds
<1>11. SynMeetsSocket'
  BY <1>1, <1>2, <1>3, <1>4, <1>5 DEF SynMeetsSocket, ToServerOn, SynUnderWay, TypeOK, Adds
<1>12. OpeningIsFresh'
  BY <1>1, <1>2, <1>3, <1>4, <1>5 DEF OpeningIsFresh, Opening, TypeOK, Adds
<1>13. SocketsCount'
  BY <1>1, <1>2, <1>3, <1>4, <1>5 DEF SocketsCount, TypeOK, Adds
<1>14. EndsAgree'
  BY <1>1, <1>2, <1>3, <1>4, <1>5 DEF EndsAgree, Answered, TypeOK, Adds
<1>15. ToCome'
  BY <1>1, <1>2, <1>3, <1>4, <1>5 DEF ToCome, TypeOK, Adds
<1>16. ClosedIsLast'
  BY <1>1, <1>2, <1>3, <1>4, <1>5 DEF ClosedIsLast, ToServerOn, ToClientOn, TypeOK, Adds
<1>17. OtherFaultsNever'
  BY <1>1, <1>2, <1>3, <1>4, <1>5 DEF OtherFaultsNever, Adds
<1> QED
  BY <1>6, <1>7, <1>8, <1>9, <1>10, <1>11, <1>12, <1>13, <1>14, <1>15, <1>16, <1>17

-----------------------------------------------------------------------------
(* The server's handlers. *)

(* A SYN for the listening socket is the first that the server sees, or    *)
(* what it has sent to the client has been in vain.                        *)
LEMMA ForkStep ==
  ASSUME HandshakeInv,
         NEW s \in Subflows,
         NEW p,
         ServerTakes(s, p),
         Fork(s, p)
  PROVE  HandshakeInv'
<1> USE SubflowZero, PathFacts DEF HandshakeInv, clientVars, serverVars, mpVars, pathVars
<1>1. /\ p \in Range(dataPath[s])
      /\ dataPath' \in [Subflows -> Seq(PacketType)]
      /\ \A t \in Subflows : Range(dataPath'[t]) \subseteq Range(dataPath[t])
      /\ UNCHANGED <<clientVars, listening>>
  BY DEF ServerTakes, Removes
<1>2. /\ s = 0 /\ p.kind = "SYN" /\ listening /\ ~ ServerOpen
      /\ SynUnderWay /\ ~ SynUnderWay'
  BY <1>1 DEF Fork, HasEndPoint, SynUnderWay, ToServerOn, ServerTakes, NoneOf
<1>3. /\ clientState[0] = "SYN_SENT" /\ ackPath[0] = << >>
      /\ remoteToken = 0 /\ mpRecvState.client = "MP_NONE" /\ scheduled = {}
      /\ \A t \in Subflows \ {0} : clientState[t] = "NONE" /\ serverState[t] = "NONE"
  <2>1. clientState[0] = "SYN_SENT" /\ ackPath[0] = << >>
    BY <1>2 DEF SynMeetsSocket, ServerOpen
  <2> QED
    BY <2>1 DEF OpeningIsFresh, Opening, EndsAgree
<1>4. /\ \A t \in Subflows : \A q \in Range(dataPath'[t]) : q.kind \notin {"SYN", "JOIN", "ACK", "ADDR", "DATA"}
      /\ \A t \in Subflows : Range(ackPath[t]) = {}
  <2>1. \A t \in Subflows : \A q \in Range(dataPath'[t]) :
          q.kind \notin {"JOIN", "ACK", "ADDR", "DATA"}
    BY <1>1, <1>3 DEF ClientPackets, ToServerOn, Answered
  <2>2. \A t \in Subflows : \A q \in Range(dataPath'[t]) : q.kind # "SYN"
    BY <1>1, <1>2 DEF ClientPackets, ToServerOn, SynUnderWay
  <2>3. Range(ackPath[0]) = {}
    BY <1>3 DEF Range
  <2>4. ASSUME NEW t \in Subflows \ {0}, NEW q \in Range(ackPath[t])
        PROVE  FALSE
    BY <1>3, <2>4 DEF ServerPackets, ToClientOn, Answered
  <2> QED
    BY <2>1, <2>2, <2>3, <2>4
<1>5. /\ forks' = forks + 1 /\ localToken' = forks' /\ forks' \in Nat /\ forks' # 0
      /\ tokenMap' = Append(tokenMap, forks') /\ fault' = fault
      /\ serverState' = [t \in Subflows |-> IF t = 0 THEN "SYN_RCVD" ELSE "NONE"]
      /\ mpRecvState'.client = mpRecvState.client
      /\ ackPath' = Send(ackPath, 0, SynAck(forks', forks'))
  BY SMTT(20) DEF Fork, SocketsCount, TypeOK, MpStates
<1>6. /\ Adds(ackPath, ackPath', 0, SynAck(forks', forks'))
      /\ SynAck(forks', forks').kind = "SYN_ACK" /\ SynAck(forks', forks').token = forks'
      /\ SynAck(forks', forks').number = forks'
  <2>1. SynAck(forks', forks') \in PacketType
    BY <1>5, PacketTypes
  <2> QED
    BY <1>5, <2>1, SendAdds DEF SynAck, Packet
<1>7. SentOnce'
  BY DEF ServerTakes
<1>8. TypeOK'
  <2>1. serverTries' \in [Subflows -> 0 .. ConnRetries]
    BY ONLY HandshakeAssumption, Fork(s, p) DEF Fork
  <2>2. mpSendState' \in MpStates /\ mpRecvState' \in MpStates
    BY DEF Fork, MpStates, TypeOK
  <2>3. tokenMap' \in Seq(Nat)
    BY <1>5 DEF TypeOK
  <2>4. serverState' \in [Subflows -> {"NONE", "SYN_RCVD", "ESTABLISHED", "CLOSED"}]
    BY <1>5
  <2> QED
    BY <1>1, <1>5, <1>6, <2>1, <2>2, <2>3, <2>4 DEF TypeOK, Adds
<1>9. ClientPackets'
  BY <1>1, <1>2, <1>3, <1>4, <1>5, <1>6, SMTT(20) DEF ClientPackets, ToServerOn, Answered, TypeOK, Adds
<1>10. ServerPackets'
  <2>1. \A t \in Subflows : \A q \in Range(ackPath'[t]) :
          t = 0 /\ q = SynAck(forks', forks')
    BY <1>4, <1>6 DEF Adds
  <2> QED
    BY <1>1, <1>3, <1>5, <1>6, <2>1 DEF ServerPackets, ToClientOn
<1>11. CapableIsAlone'
  <2>1. \A q \in Range(ackPath'[0]) : q = SynAck(forks', forks')
    BY <1>4, <1>6 DEF Adds
  <2>2. Len(ackPath'[0]) = 1
    BY <1>3, <1>6 DEF Adds
  <2> QED
    BY <1>1, <1>2, <1>3, <1>5, <1>6, <2>1, <2>2 DEF CapableIsAlone, ToClientOn
<1>12. SynMeetsSocket'
  BY <1>1, <1>2, <1>3, <1>4, <1>5, <1>6 DEF SynMeetsSocket, ToServerOn, SynUnderWay, TypeOK, Adds
<1>13. OpeningIsFresh'
  BY <1>1, <1>2, <1>3, <1>4, <1>5, <1>6 DEF OpeningIsFresh, Opening, TypeOK, Adds
<1>14. SocketsCount'
  <2>1. Len(tokenMap') = forks' /\ \A n \in 1 .. forks' : tokenMap'[n] = n
    <3>1. tokenMap \in Seq(Nat) /\ Len(tokenMap) = forks /\ \A n \in 1 .. forks : tokenMap[n] = n
      BY DEF SocketsCount, TypeOK
    <3>2. /\ Len(Append(tokenMap, forks')) = Len(tokenMap) + 1
          /\ \A n \in 1 .. Len(tokenMap) : Append(tokenMap, forks')[n] = tokenMap[n]
          /\ Append(tokenMap, forks')[Len(tokenMap) + 1] = forks'
      BY <1>5, <3>1, AppendProperties
    <3> QED
      BY <1>5, <3>1, <3>2
  <2> QED
    BY <1>1, <1>2, <1>5, <2>1 DEF SocketsCount
<1>15. EndsAgree'
  BY <1>1, <1>2, <1>3, <1>4, <1>5, <1>6 DEF EndsAgree, Answered, TypeOK, Adds
<1>16. ToCome'
  BY <1>1, <1>2, <1>3, <1>4, <1>5, <1>6 DEF ToCome, TypeOK, Adds
<1>17. ClosedIsLast'
  BY <1>1, <1>2, <1>3, <1>4, <1>5, <1>6 DEF ClosedIsLast, ToServerOn, ToClientOn, TypeOK, Adds
<1>18. OtherFaultsNever'
  BY <1>1, <1>2, <1>3, <1>4, <1>5, <1>6 DEF OtherFaultsNever, Adds
<1> QED
  BY <1>7, <1>8, <1>9, <1>10, <1>11, <1>12, <1>13, <1>14, <1>15, <1>16, <1>17, <1>18

(* A JOIN finds the open connection: its token is that of the last socket, *)
(* which has not closed sub-flow 0.                                        *)
LEMMA ReceiveJoinStep ==
  ASSUME HandshakeInv,
         NEW s \in Subflows,
         NEW p,
         ServerTakes(s, p),
         ReceiveJoin(s, p)
  PROVE  HandshakeInv'
<1> USE SubflowZero, PathFacts DEF HandshakeInv, clientVars, serverVars, mpVars, pathVars
<1>1. /\ p \in Range(dataPath[s])
      /\ dataPath' \in [Subflows -> Seq(PacketType)]
      /\ \A t \in Subflows : Range(dataPath'[t]) \subseteq Range(dataPath[t])
      /\ UNCHANGED <<clientVars, listening>>
  BY DEF ServerTakes, Removes
<1>2. /\ p.kind = "JOIN" /\ s # 0 /\ clientState[s] # "NONE" /\ serverState[s] = "NONE"
      /\ p.token = remoteToken /\ remoteToken # 0 /\ remoteToken = forks
      /\ tokenMap[p.token] = forks
  <2>1. p.kind = "JOIN" /\ p.token \in DOMAIN tokenMap
    BY DEF ReceiveJoin, HasToken
  <2>2. s # 0 /\ clientState[s] # "NONE" /\ serverState[s] = "NONE" /\ p.token \in {0, remoteToken}
    BY <1>1, <2>1 DEF ClientPackets, ToServerOn
  <2>3. p.token \in 1 .. forks
    BY <2>1 DEF SocketsCount, TypeOK
  <2> QED
    BY <2>1, <2>2, <2>3 DEF SocketsCount, EndsAgree
<1>3. ServerOpen /\ IsCurrent(p)
  <2>1. serverState[0] # "CLOSED"
    BY <1>1, <1>2 DEF ClosedIsLast, ToServerOn
  <2>2. serverState[0] # "NONE"
    BY <1>2 DEF SocketsCount
  <2> QED
    BY <1>2, <2>1, <2>2 DEF IsCurrent, ServerOpen, TypeOK
<1>4. /\ serverState' = [serverState EXCEPT ![s] = "SYN_RCVD"]
      /\ serverTries' = [serverTries EXCEPT ![s] = ConnRetries - 1]
      /\ ackPath' = Send(ackPath, s, SynAck(0, forks))
      /\ UNCHANGED <<forks, localToken, tokenMap, mpVars, fault>>
  BY <1>3 DEF ReceiveJoin
<1>5. /\ Adds(ackPath, ackPath', s, SynAck(0, forks))
      /\ SynAck(0, forks).kind = "SYN_ACK" /\ SynAck(0, forks).token = 0
      /\ SynAck(0, forks).number = forks
  BY <1>4, SynAckAdds
<1>6. /\ ~ SynUnderWay
      /\ \A q \in Range(dataPath'[s]) : q.kind # "JOIN"
  BY <1>2 DEF SynUnderWay, ClientPackets, ServerTakes, NoneOf
<1>7. SentOnce'
  BY DEF ServerTakes
<1>8. TypeOK'
  <2>1. serverTries' \in [Subflows -> 0 .. ConnRetries]
    BY <1>4, HandshakeAssumption DEF TypeOK
  <2> QED
    BY <1>1, <1>4, <1>5, <2>1 DEF TypeOK, Adds
<1>9. ClientPackets'
  BY <1>1, <1>2, <1>3, <1>4, <1>5, <1>6, ZenonT(30) DEF ClientPackets, ToServerOn, Answered, TypeOK, Adds
<1>10. ServerPackets'
  <2>1. \A t \in Subflows : \A q \in Range(ackPath'[t]) :
          q \in Range(ackPath[t]) \/ (t = s /\ q = SynAck(0, forks))
    BY <1>5 DEF Adds
  <2>2. \A t \in Subflows : \A q \in Range(ackPath[t]) : q.kind # "RST_ACK"
    BY <1>2 DEF ServerPackets, ToClientOn, SocketsCount
  <2>3. serverState'[s] # "NONE" /\ \A t \in Subflows \ {s} : serverState'[t] = serverState[t]
    BY <1>4 DEF TypeOK
  <2>4. /\ UNCHANGED <<pathManager, clientState, remoteToken, forks>>
        /\ serverState'[0] = serverState[0]
    BY <1>1, <1>2, <1>4, <2>3
  <2>5. ASSUME NEW t \in Subflows, NEW q \in Range(ackPath[t])
        PROVE  /\ q.kind \in {"SYN_ACK", "ACK", "ADDR", "RST"}
               /\ q.kind = "SYN_ACK" =>
                    /\ q.number = forks'
                    /\ clientState'[t] # "NONE" /\ serverState'[t] # "NONE"
                    /\ q.token # 0 => t = 0
               /\ q.kind = "ACK" => Answered(t)'
               /\ q.kind = "ADDR" => t = 0 /\ pathManager' = "FullMesh" /\ remoteToken' # 0
               /\ q.kind = "RST" => t = 0 /\ serverState'[0] = "CLOSED" /\ remoteToken' # 0
    BY <2>2, <2>3, <2>4 DEF ServerPackets, ToClientOn, Answered
  <2> QED
    BY <1>2, <1>5, <2>1, <2>3, <2>4, <2>5, ZenonT(30) DEF ServerPackets, ToClientOn
<1>11. CapableIsAlone'
  BY <1>1, <1>2, <1>3, <1>4, <1>5, <1>6 DEF CapableIsAlone, ToClientOn, ToServerOn, SynUnderWay, TypeOK, Adds
<1>12. SynMeetsSocket'
  BY <1>1, <1>2, <1>3, <1>4, <1>5, <1>6 DEF SynMeetsSocket, ToServerOn, SynUnderWay, TypeOK, Adds
<1>13. OpeningIsFresh'
  BY <1>1, <1>2, <1>3, <1>4, <1>5, <1>6 DEF OpeningIsFresh, Opening, TypeOK, Adds
<1>14. SocketsCount'
  BY <1>1, <1>2, <1>3, <1>4, <1>5, <1>6 DEF SocketsCount, TypeOK, Adds
<1>15. EndsAgree'
  BY <1>1, <1>2, <1>3, <1>4, <1>5, <1>6 DEF EndsAgree, Answered, TypeOK, Adds
<1>16. ToCome'
  BY <1>1, <1>2, <1>3, <1>4, <1>5, <1>6 DEF ToCome, TypeOK, Adds
<1>17. ClosedIsLast'
  BY <1>1, <1>2, <1>3, <1>4, <1>5, <1>6 DEF ClosedIsLast, ToServerOn, ToClientOn, TypeOK, Adds
<1>18. OtherFaultsNever'
  BY <1>1, <1>2, <1>3, <1>4, <1>5, <1>6 DEF OtherFaultsNever, Adds
<1> QED
  BY <1>7, <1>8, <1>9, <1>10, <1>11, <1>12, <1>13, <1>14, <1>15, <1>16, <1>17, <1>18

(* A repeated SYN is answered again, or ends the sub-flow. *)
LEMMA RepeatedSynEndsStep ==
  ASSUME HandshakeInv,
         NEW s \in Subflows,
         NEW p,
         ServerTakes(s, p),
         RepeatedSyn(s, p),
         serverTries[s] = 0
  PROVE  HandshakeInv'
<1> USE SubflowZero, PathFacts DEF HandshakeInv, clientVars, serverVars, mpVars, pathVars
<1>1. /\ p \in Range(dataPath[s])
      /\ dataPath' \in [Subflows -> Seq(PacketType)]
      /\ \A t \in Subflows : Range(dataPath'[t]) \subseteq Range(dataPath[t])
      /\ UNCHANGED <<clientVars, listening>>
      /\ SynUnderWay' => SynUnderWay
  BY DEF ServerTakes, Removes, SynUnderWay, ToServerOn
<1>2. /\ s = 0 /\ p.kind = "SYN" /\ serverState[0] = "SYN_RCVD"
      /\ SynUnderWay /\ ~ SynUnderWay' /\ remoteToken = 0 /\ forks # 0
      /\ clientState[0] # "NONE"
      /\ UNCHANGED <<forks, localToken, tokenMap, mpVars, fault>>
  <2>1. p.kind \in {"SYN", "JOIN"} /\ serverState[s] = "SYN_RCVD"
    BY DEF RepeatedSyn
  <2>2. s = 0 /\ p.kind = "SYN" /\ remoteToken = 0
    BY <1>1, <2>1 DEF ClientPackets, ToServerOn
  <2>3. SynUnderWay /\ ~ SynUnderWay'
    BY <1>1, <2>2 DEF SynUnderWay, ToServerOn, ServerTakes, NoneOf
  <2> QED
    BY <2>1, <2>2, <2>3 DEF RepeatedSyn, SocketsCount, SynMeetsSocket
<1>3. /\ serverState' = [serverState EXCEPT ![s] = "CLOSED"]
      /\ UNCHANGED <<serverTries, ackPath>>
  BY DEF RepeatedSyn, AnswerSyn
<1>4. SentOnce'
  BY DEF ServerTakes
<1>5. TypeOK'
  BY <1>1, <1>2, <1>3 DEF TypeOK, MpStates
<1>6. ClientPackets'
  BY <1>1, <1>2, <1>3 DEF ClientPackets, ToServerOn, Answered, TypeOK
<1>7. ServerPackets'
  BY <1>1, <1>2, <1>3 DEF ServerPackets, ToClientOn, ToServerOn, SynUnderWay, Answered, TypeOK
<1>8. CapableIsAlone'
  BY <1>1, <1>2, <1>3 DEF CapableIsAlone, ToClientOn, ToServerOn, SynUnderWay, TypeOK
<1>9. SynMeetsSocket'
  BY <1>1, <1>2, <1>3 DEF SynMeetsSocket, ToServerOn, SynUnderWay, TypeOK
<1>10. OpeningIsFresh'
  BY <1>1, <1>2, <1>3 DEF OpeningIsFresh, Opening, TypeOK
<1>11. SocketsCount'
  BY <1>1, <1>2, <1>3 DEF SocketsCount, TypeOK
<1>12. EndsAgree'
  BY <1>1, <1>2, <1>3 DEF EndsAgree, Answered, TypeOK
<1>13. ToCome'
  BY <1>1, <1>2, <1>3 DEF ToCome, TypeOK
<1>14. ClosedIsLast'
  BY <1>1, <1>2, <1>3 DEF ClosedIsLast, ToServerOn, ToClientOn, TypeOK
<1>15. OtherFaultsNever'
  BY <1>1, <1>2, <1>3 DEF OtherFaultsNever
<1> QED
  BY <1>4, <1>5, <1>6, <1>7, <1>8, <1>9, <1>10, <1>11, <1>12, <1>13, <1>14, <1>15

LEMMA RepeatedSynStep ==
  ASSUME HandshakeInv,
         NEW s \in Subflows,
         NEW p,
         ServerTakes(s, p),
         RepeatedSyn(s, p),
         serverTries[s] # 0
  PROVE  HandshakeInv'
<1> USE SubflowZero, PathFacts DEF HandshakeInv, clientVars, serverVars, mpVars, pathVars
<1>1. /\ p \in Range(dataPath[s])
      /\ dataPath' \in [Subflows -> Seq(PacketType)]
      /\ \A t \in Subflows : Range(dataPath'[t]) \subseteq Range(dataPath[t])
      /\ UNCHANGED <<clientVars, listening>>
      /\ SynUnderWay' => SynUnderWay
  BY DEF ServerTakes, Removes, SynUnderWay, ToServerOn
<1>2. /\ s = 0 /\ p.kind = "SYN" /\ serverState[0] = "SYN_RCVD"
      /\ SynUnderWay /\ ~ SynUnderWay' /\ remoteToken = 0 /\ forks # 0
      /\ clientState[0] # "NONE"
      /\ UNCHANGED <<forks, localToken, tokenMap, mpVars, fault>>
  <2>1. p.kind \in {"SYN", "JOIN"} /\ serverState[s] = "SYN_RCVD"
    BY DEF RepeatedSyn
  <2>2. s = 0 /\ p.kind = "SYN" /\ remoteToken = 0
    BY <1>1, <2>1 DEF ClientPackets, ToServerOn
  <2>3. SynUnderWay /\ ~ SynUnderWay'
    BY <1>1, <2>2 DEF SynUnderWay, ToServerOn, ServerTakes, NoneOf
  <2> QED
    BY <2>1, <2>2, <2>3 DEF RepeatedSyn, SocketsCount, SynMeetsSocket
<1>3. /\ serverTries' = [serverTries EXCEPT ![s] = @ - 1]
      /\ ackPath' = Send(ackPath, s, SynAck(0, forks)) /\ serverState' = serverState
  BY DEF RepeatedSyn, AnswerSyn
<1>4. /\ Adds(ackPath, ackPath', s, SynAck(0, forks))
      /\ SynAck(0, forks).kind = "SYN_ACK" /\ SynAck(0, forks).token = 0
      /\ SynAck(0, forks).number = forks
  BY <1>3, SynAckAdds
<1>5. SentOnce'
  BY DEF ServerTakes
<1>6. TypeOK'
  <2>1. serverTries' \in [Subflows -> 0 .. ConnRetries]
    BY ONLY HandshakeInv, <1>3, serverTries[s] # 0, TriesType
  <2> QED
    BY <1>1, <1>2, <1>3, <1>4, <2>1 DEF TypeOK, Adds
<1>7. ClientPackets'
  BY <1>1, <1>2, <1>3, <1>4 DEF ClientPackets, ToServerOn, Answered, TypeOK, Adds
<1>8. ServerPackets'
  BY <1>1, <1>2, <1>3, <1>4, SMTT(20) DEF ServerPackets, ToClientOn, ToServerOn, SynUnderWay, Answered, TypeOK, Adds
<1>9. CapableIsAlone'
  BY <1>1, <1>2, <1>3, <1>4 DEF CapableIsAlone, ToClientOn, ToServerOn, SynUnderWay, TypeOK, Adds
<1>10. SynMeetsSocket'
  BY <1>1, <1>2, <1>3, <1>4 DEF SynMeetsSocket, ToServerOn, SynUnderWay, TypeOK, Adds
<1>11. OpeningIsFresh'
  BY <1>1, <1>2, <1>3, <1>4 DEF OpeningIsFresh, Opening, TypeOK, Adds
<1>12. SocketsCount'
  BY <1>1, <1>2, <1>3, <1>4 DEF SocketsCount, TypeOK, Adds
<1>13. EndsAgree'
  BY <1>1, <1>2, <1>3, <1>4 DEF EndsAgree, Answered, TypeOK, Adds
<1>14. ToCome'
  BY <1>1, <1>2, <1>3, <1>4 DEF ToCome, TypeOK, Adds
<1>15. ClosedIsLast'
  BY <1>1, <1>2, <1>3, <1>4 DEF ClosedIsLast, ToServerOn, ToClientOn, TypeOK, Adds
<1>16. OtherFaultsNever'
  BY <1>1, <1>2, <1>3, <1>4 DEF OtherFaultsNever, Adds
<1> QED
  BY <1>5, <1>6, <1>7, <1>8, <1>9, <1>10, <1>11, <1>12, <1>13, <1>14, <1>15, <1>16

(* An acknowledgement or data on a sub-flow says that the client has past  *)
(* SYN_SENT there, and is answered by an ACK if it is data.                *)
LEMMA ServerAcks ==
  ASSUME HandshakeInv, NEW s \in Subflows, NEW p,
         ackPath' = IF p.kind = "DATA" THEN Send(ackPath, s, Ack(0)) ELSE ackPath
  PROVE  /\ ackPath' \in [Subflows -> Seq(PacketType)]
         /\ \A t \in Subflows : \A q \in Range(ackPath'[t]) :
              q \in Range(ackPath[t]) \/ (t = s /\ q.kind = "ACK")
         /\ \A t \in Subflows \ {s} : ackPath'[t] = ackPath[t]
<1>1. CASE p.kind = "DATA"
  <2>1. Ack(0) \in PacketType /\ Ack(0).kind = "ACK"
    BY PacketTypes DEF Ack, Packet
  <2>2. Adds(ackPath, ackPath', s, Ack(0))
    BY <1>1, <2>1, PathFacts, SendAdds
  <2> QED
    BY <2>1, <2>2 DEF Adds
<1>2. CASE p.kind # "DATA"
  BY <1>2, PathFacts
<1> QED
  BY <1>1, <1>2

LEMMA ReceiveConfirmationStep ==
  ASSUME HandshakeInv,
         NEW s \in Subflows,
         NEW p,
         ServerTakes(s, p),
         ReceiveConfirmation(s, p)
  PROVE  HandshakeInv'
<1> USE SubflowZero, PathFacts DEF HandshakeInv, clientVars, serverVars, mpVars, pathVars
<1>1. /\ p \in Range(dataPath[s])
      /\ dataPath' \in [Subflows -> Seq(PacketType)]
      /\ \A t \in Subflows : Range(dataPath'[t]) \subseteq Range(dataPath[t])
      /\ UNCHANGED <<clientVars, listening>>
      /\ SynUnderWay' => SynUnderWay
  BY DEF ServerTakes, Removes, SynUnderWay, ToServerOn
<1>2. /\ Answered(s) /\ p.number = forks /\ forks # 0 /\ serverState[s] = "SYN_RCVD"
  BY <1>1 DEF ReceiveConfirmation, IsAck, ClientPackets, ToServerOn
<1>3. /\ ~ Opening /\ clientState[0] # "SYN_SENT" /\ forks # 0
      /\ \A q \in Range(ackPath[0]) : ~ (q.kind = "SYN_ACK" /\ q.token # 0)
      /\ \A t \in Subflows : \A q \in Range(ackPath[t]) : q.kind # "RST_ACK"
  <2>1. ~ Opening /\ clientState[0] # "SYN_SENT"
    BY <1>2 DEF OpeningIsFresh, Opening, Answered
  <2> QED
    BY <1>2, <2>1 DEF CapableIsAlone, ServerPackets, ToClientOn, SocketsCount
<1>4. /\ serverState' = [serverState EXCEPT ![s] = "ESTABLISHED"]
      /\ UNCHANGED <<forks, serverTries, localToken, tokenMap, mpVars, fault>>
  BY <1>2 DEF ReceiveConfirmation
<1>5. /\ ackPath' \in [Subflows -> Seq(PacketType)]
      /\ \A t \in Subflows : \A q \in Range(ackPath'[t]) :
           q \in Range(ackPath[t]) \/ (t = s /\ q.kind = "ACK")
  BY ServerAcks DEF ReceiveConfirmation
<1>6. SentOnce'
  BY DEF ServerTakes
<1>7. TypeOK'
  BY <1>1, <1>2, <1>3, <1>4, <1>5 DEF TypeOK, MpStates
<1>8. ClientPackets'
  BY <1>1, <1>2, <1>3, <1>4, <1>5, ZenonT(30) DEF ClientPackets, ToServerOn, Answered, TypeOK
<1>9. ServerPackets'
  <2>1. /\ UNCHANGED <<pathManager, clientState, remoteToken, forks>>
        /\ \A t \in Subflows : serverState'[t] # "NONE" <=> serverState[t] # "NONE"
        /\ serverState[0] = "CLOSED" => serverState'[0] = "CLOSED"
    BY <1>1, <1>2, <1>4 DEF TypeOK
  <2>2. ASSUME NEW t \in Subflows, NEW q \in Range(ackPath[t])
        PROVE  /\ q.kind \in {"SYN_ACK", "ACK", "ADDR", "RST"}
               /\ q.kind = "SYN_ACK" =>
                    /\ q.number = forks'
                    /\ clientState'[t] # "NONE" /\ serverState'[t] # "NONE"
                    /\ q.token # 0 => t = 0
               /\ q.kind = "ACK" => Answered(t)'
               /\ q.kind = "ADDR" => t = 0 /\ pathManager' = "FullMesh" /\ remoteToken' # 0
               /\ q.kind = "RST" => t = 0 /\ serverState'[0] = "CLOSED" /\ remoteToken' # 0
    BY <1>3, <2>1 DEF ServerPackets, ToClientOn, Answered
  <2>3. Answered(s)'
    BY <1>2, <2>1 DEF Answered
  <2> QED
    BY <1>5, <2>2, <2>3 DEF ServerPackets, ToClientOn
<1>10. CapableIsAlone'
  BY <1>1, <1>2, <1>3, <1>4, <1>5 DEF CapableIsAlone, ToClientOn, ToServerOn, SynUnderWay, TypeOK
<1>11. SynMeetsSocket'
  BY <1>1, <1>2, <1>3, <1>4, <1>5 DEF SynMeetsSocket, ToServerOn, SynUnderWay, TypeOK
<1>12. OpeningIsFresh'
  BY <1>1, <1>2, <1>3, <1>4, <1>5 DEF OpeningIsFresh, Opening, TypeOK
<1>13. SocketsCount'
  BY <1>1, <1>2, <1>3, <1>4, <1>5 DEF SocketsCount, TypeOK
<1>14. EndsAgree'
  BY <1>1, <1>2, <1>3, <1>4, <1>5 DEF EndsAgree, Answered, TypeOK
<1>15. ToCome'
  BY <1>1, <1>2, <1>3, <1>4, <1>5 DEF ToCome, TypeOK
<1>16. ClosedIsLast'
  BY <1>1, <1>2, <1>3, <1>4, <1>5 DEF ClosedIsLast, ToServerOn, ToClientOn, TypeOK
<1>17. OtherFaultsNever'
  BY <1>1, <1>2, <1>3, <1>4, <1>5 DEF OtherFaultsNever
<1> QED
  BY <1>6, <1>7, <1>8, <1>9, <1>10, <1>11, <1>12, <1>13, <1>14, <1>15, <1>16, <1>17

LEMMA ReceiveDataStep ==
  ASSUME HandshakeInv,
         NEW s \in Subflows,
         NEW p,
         ServerTakes(s, p),
         ReceiveData(s, p)
  PROVE  HandshakeInv'
<1> USE SubflowZero, PathFacts DEF HandshakeInv, clientVars, serverVars, mpVars, pathVars
<1>1. /\ p \in Range(dataPath[s])
      /\ dataPath' \in [Subflows -> Seq(PacketType)]
      /\ \A t \in Subflows : Range(dataPath'[t]) \subseteq Range(dataPath[t])
      /\ UNCHANGED <<clientVars, listening>>
      /\ SynUnderWay' => SynUnderWay
  BY DEF ServerTakes, Removes, SynUnderWay, ToServerOn
<1>2. /\ Answered(s) /\ forks # 0 /\ serverState[s] = "ESTABLISHED"
  BY <1>1 DEF ReceiveData, ClientPackets, ToServerOn
<1>3. /\ ~ Opening /\ clientState[0] # "SYN_SENT" /\ forks # 0
      /\ \A q \in Range(ackPath[0]) : ~ (q.kind = "SYN_ACK" /\ q.token # 0)
      /\ \A t \in Subflows : \A q \in Range(ackPath[t]) : q.kind # "RST_ACK"
  <2>1. ~ Opening /\ clientState[0] # "SYN_SENT"
    BY <1>2 DEF OpeningIsFresh, Opening, Answered
  <2> QED
    BY <1>2, <2>1 DEF CapableIsAlone, ServerPackets, ToClientOn, SocketsCount
<1>4. UNCHANGED <<forks, serverState, serverTries, localToken, tokenMap, mpVars, fault>>
  BY DEF ReceiveData
<1>5. /\ ackPath' \in [Subflows -> Seq(PacketType)]
      /\ \A t \in Subflows : \A q \in Range(ackPath'[t]) :
           q \in Range(ackPath[t]) \/ (t = s /\ q.kind = "ACK")
  BY ServerAcks DEF ReceiveData
<1>6. SentOnce'
  BY DEF ServerTakes
<1>7. TypeOK'
  BY <1>1, <1>2, <1>3, <1>4, <1>5 DEF TypeOK, MpStates
<1>8. ClientPackets'
  BY <1>1, <1>2, <1>3, <1>4, <1>5 DEF ClientPackets, ToServerOn, Answered, TypeOK
<1>9. ServerPackets'
  BY <1>1, <1>2, <1>3, <1>4, <1>5, ZenonT(30) DEF ServerPackets, ToClientOn, ToServerOn, SynUnderWay, Answered, TypeOK
<1>10. CapableIsAlone'
  BY <1>1, <1>2, <1>3, <1>4, <1>5 DEF CapableIsAlone, ToClientOn, ToServerOn, SynUnderWay, TypeOK
<1>11. SynMeetsSocket'
  BY <1>1, <1>2, <1>3, <1>4, <1>5 DEF SynMeetsSocket, ToServerOn, SynUnderWay, TypeOK
<1>12. OpeningIsFresh'
  BY <1>1, <1>2, <1>3, <1>4, <1>5 DEF OpeningIsFresh, Opening, TypeOK
<1>13. SocketsCount'
  BY <1>1, <1>2, <1>3, <1>4, <1>5 DEF SocketsCount, TypeOK
<1>14. EndsAgree'
  BY <1>1, <1>2, <1>3, <1>4, <1>5 DEF EndsAgree, Answered, TypeOK
<1>15. ToCome'
  BY <1>1, <1>2, <1>3, <1>4, <1>5 DEF ToCome, TypeOK
<1>16. ClosedIsLast'
  BY <1>1, <1>2, <1>3, <1>4, <1>5 DEF ClosedIsLast, ToServerOn, ToClientOn, TypeOK
<1>17. OtherFaultsNever'
  BY <1>1, <1>2, <1>3, <1>4, <1>5 DEF OtherFaultsNever
<1> QED
  BY <1>6, <1>7, <1>8, <1>9, <1>10, <1>11, <1>12, <1>13, <1>14, <1>15, <1>16, <1>17

(* The addresses of the client come before the server's. *)
LEMMA AnswerAddressesStep ==
  ASSUME HandshakeInv,
         NEW s \in Subflows,
         NEW p,
         ServerTakes(s, p),
         AnswerAddresses(s, p)
  PROVE  HandshakeInv'
<1> USE SubflowZero, PathFacts DEF HandshakeInv, clientVars, serverVars, mpVars, pathVars
<1>1. /\ p \in Range(dataPath[s])
      /\ dataPath' \in [Subflows -> Seq(PacketType)]
      /\ \A t \in Subflows : Range(dataPath'[t]) \subseteq Range(dataPath[t])
      /\ UNCHANGED <<clientVars, listening>>
      /\ SynUnderWay' => SynUnderWay
  BY DEF ServerTakes, Removes, SynUnderWay, ToServerOn
<1>2. /\ s = 0 /\ pathManager = "FullMesh" /\ remoteToken # 0
      /\ Answered(0) /\ forks # 0 /\ serverState[0] # "CLOSED"
  BY <1>1 DEF AnswerAddresses, ClientPackets, ToServerOn, ClosedIsLast
<1>3. /\ ~ Opening /\ clientState[0] # "SYN_SENT" /\ forks # 0
      /\ \A q \in Range(ackPath[0]) : ~ (q.kind = "SYN_ACK" /\ q.token # 0)
      /\ \A t \in Subflows : \A q \in Range(ackPath[t]) : q.kind # "RST_ACK"
  <2>1. ~ Opening /\ clientState[0] # "SYN_SENT"
    BY <1>2 DEF OpeningIsFresh, Opening, Answered
  <2> QED
    BY <1>2, <2>1 DEF CapableIsAlone, ServerPackets, ToClientOn, SocketsCount
<1>4. /\ UNCHANGED <<forks, serverState, serverTries, localToken, tokenMap, fault>>
      /\ mpRecvState'.client = mpRecvState.client
      /\ ackPath' = Send(ackPath, s, Addr(0)) /\ Addr(0).kind = "ADDR" /\ Addr(0) \in PacketType
  BY PacketTypes DEF AnswerAddresses, Addr, Packet, TypeOK, MpStates
<1>5. Adds(ackPath, ackPath', s, Addr(0))
  BY <1>4, SendAdds
<1>6. SentOnce'
  BY DEF ServerTakes
<1>7. TypeOK'
  <2>1. mpSendState' \in MpStates /\ mpRecvState' \in MpStates
    BY DEF AnswerAddresses, MpStates, TypeOK
  <2> QED
    BY <1>1, <1>4, <1>5, <2>1 DEF TypeOK, Adds
<1>8. ClientPackets'
  BY <1>1, <1>2, <1>3, <1>4, <1>5 DEF ClientPackets, ToServerOn, Answered, TypeOK, Adds
<1>9. ServerPackets'
  BY <1>1, <1>2, <1>3, <1>4, <1>5, SMTT(20) DEF ServerPackets, ToClientOn, ToServerOn, SynUnderWay, Answered, TypeOK, Adds
<1>10. CapableIsAlone'
  BY <1>1, <1>2, <1>3, <1>4, <1>5 DEF CapableIsAlone, ToClientOn, ToServerOn, SynUnderWay, TypeOK, Adds
<1>11. SynMeetsSocket'
  BY <1>1, <1>2, <1>3, <1>4, <1>5 DEF SynMeetsSocket, ToServerOn, SynUnderWay, TypeOK, Adds
<1>12. OpeningIsFresh'
  BY <1>1, <1>2, <1>3, <1>4, <1>5 DEF OpeningIsFresh, Opening, TypeOK, Adds
<1>13. SocketsCount'
  BY <1>1, <1>2, <1>3, <1>4, <1>5 DEF SocketsCount, TypeOK, Adds
<1>14. EndsAgree'
  BY <1>1, <1>2, <1>3, <1>4, <1>5 DEF EndsAgree, Answered, TypeOK, Adds
<1>15. ToCome'
  BY <1>1, <1>2, <1>3, <1>4, <1>5 DEF ToCome, TypeOK, Adds
<1>16. ClosedIsLast'
  BY <1>1, <1>2, <1>3, <1>4, <1>5 DEF ClosedIsLast, ToServerOn, ToClientOn, TypeOK, Adds
<1>17. OtherFaultsNever'
  BY <1>1, <1>2, <1>3, <1>4, <1>5 DEF OtherFaultsNever, Adds
<1> QED
  BY <1>6, <1>7, <1>8, <1>9, <1>10, <1>11, <1>12, <1>13, <1>14, <1>15, <1>16, <1>17

(* The server refuses what comes for sub-flow 0 when this is closed and    *)
(* others are open, so the client knows the token.                         *)
LEMMA RefuseClosedStep ==
  ASSUME HandshakeInv,
         NEW s \in Subflows,
         NEW p,
         ServerTakes(s, p),
         RefuseClosed(s, p)
  PROVE  HandshakeInv'
<1> USE SubflowZero, PathFacts DEF HandshakeInv, clientVars, serverVars, mpVars, pathVars
<1>1. /\ p \in Range(dataPath[s])
      /\ dataPath' \in [Subflows -> Seq(PacketType)]
      /\ \A t \in Subflows : Range(dataPath'[t]) \subseteq Range(dataPath[t])
      /\ UNCHANGED <<clientVars, listening>>
      /\ SynUnderWay' => SynUnderWay
  BY DEF ServerTakes, Removes, SynUnderWay, ToServerOn
<1>2. /\ s = 0 /\ serverState[0] = "CLOSED" /\ remoteToken # 0 /\ forks # 0
      /\ ~ Opening /\ clientState[0] # "SYN_SENT"
  <2>1. serverState[s] = "CLOSED" /\ Finds(s, p)
    BY DEF RefuseClosed
  <2>2. p.kind # "JOIN"
    BY <1>1, <2>1 DEF ClientPackets, ToServerOn
  <2>3. s = 0 /\ ServerOpen
    BY <2>1, <2>2 DEF Finds, HasEndPoint
  <2>4. remoteToken # 0
    BY <2>1, <2>3 DEF ServerOpen, EndsAgree
  <2> QED
    BY <2>1, <2>3, <2>4 DEF OpeningIsFresh, Opening, SocketsCount
<1>3. /\ \A q \in Range(ackPath[0]) : ~ (q.kind = "SYN_ACK" /\ q.token # 0)
      /\ \A t \in Subflows : \A q \in Range(ackPath[t]) : q.kind # "RST_ACK"
  BY <1>2 DEF CapableIsAlone, ServerPackets, ToClientOn
<1>4. /\ ackPath' \in [Subflows -> Seq(PacketType)]
      /\ \A t \in Subflows : \A q \in Range(ackPath'[t]) :
           q \in Range(ackPath[t]) \/ (t = s /\ q.kind = "RST")
  <2>1. Rst \in PacketType /\ Rst.kind = "RST"
    BY PacketTypes DEF Rst, Packet
  <2>2. CASE ackPath' = ackPath
    BY <2>2
  <2>3. CASE ackPath' = Send(ackPath, s, Rst)
    <3>1. Adds(ackPath, ackPath', s, Rst)
      BY <2>1, <2>3, SendAdds
    <3> QED
      BY <2>1, <3>1 DEF Adds
  <2> QED
    BY <2>2, <2>3 DEF RefuseClosed
<1>5. UNCHANGED <<forks, serverState, serverTries, localToken, tokenMap, mpVars, fault>>
  BY DEF RefuseClosed
<1>6. SentOnce'
  BY DEF ServerTakes
<1>7. TypeOK'
  BY <1>1, <1>2, <1>3, <1>4, <1>5 DEF TypeOK, MpStates
<1>8. ClientPackets'
  BY <1>1, <1>2, <1>3, <1>4, <1>5 DEF ClientPackets, ToServerOn, Answered, TypeOK
<1>9. ServerPackets'
  BY <1>1, <1>2, <1>3, <1>4, <1>5, ZenonT(30) DEF ServerPackets, ToClientOn, ToServerOn, SynUnderWay, Answered, TypeOK
<1>10. CapableIsAlone'
  BY <1>1, <1>2, <1>3, <1>4, <1>5 DEF CapableIsAlone, ToClientOn, ToServerOn, SynUnderWay, TypeOK
<1>11. SynMeetsSocket'
  BY <1>1, <1>2, <1>3, <1>4, <1>5 DEF SynMeetsSocket, ToServerOn, SynUnderWay, TypeOK
<1>12. OpeningIsFresh'
  BY <1>1, <1>2, <1>3, <1>4, <1>5 DEF OpeningIsFresh, Opening, TypeOK
<1>13. SocketsCount'
  BY <1>1, <1>2, <1>3, <1>4, <1>5 DEF SocketsCount, TypeOK
<1>14. EndsAgree'
  BY <1>1, <1>2, <1>3, <1>4, <1>5 DEF EndsAgree, Answered, TypeOK
<1>15. ToCome'
  BY <1>1, <1>2, <1>3, <1>4, <1>5 DEF ToCome, TypeOK
<1>16. ClosedIsLast'
  BY <1>1, <1>2, <1>3, <1>4, <1>5 DEF ClosedIsLast, ToServerOn, ToClientOn, TypeOK
<1>17. OtherFaultsNever'
  BY <1>1, <1>2, <1>3, <1>4, <1>5 DEF OtherFaultsNever
<1> QED
  BY <1>6, <1>7, <1>8, <1>9, <1>10, <1>11, <1>12, <1>13, <1>14, <1>15, <1>16, <1>17

(* A reset comes from a client that has closed the connection. *)
LEMMA ServerResetStep ==
  ASSUME HandshakeInv,
         NEW s \in Subflows,
         NEW p,
         ServerTakes(s, p),
         ServerReset(s, p)
  PROVE  HandshakeInv'
<1> USE SubflowZero, PathFacts DEF HandshakeInv, clientVars, serverVars, mpVars, pathVars
<1>1. /\ p \in Range(dataPath[s])
      /\ dataPath' \in [Subflows -> Seq(PacketType)]
      /\ \A t \in Subflows : Range(dataPath'[t]) \subseteq Range(dataPath[t])
      /\ UNCHANGED <<clientVars, listening>>
      /\ SynUnderWay' => SynUnderWay
  BY DEF ServerTakes, Removes, SynUnderWay, ToServerOn
<1>2. /\ clientState[0] = "CLOSED" /\ ~ SynUnderWay
  <2>1. p.kind \in {"RST", "RST_ACK"}
    BY DEF ServerReset, IsReset
  <2>2. clientState[0] = "CLOSED"
    BY <1>1, <2>1 DEF ClientPackets, ToServerOn
  <2> QED
    BY <2>2 DEF SynMeetsSocket
<1>3. /\ \A t \in Subflows : serverState'[t] = IF serverState[t] = "NONE" THEN "NONE" ELSE "CLOSED"
      /\ serverState' \in [Subflows -> {"NONE", "SYN_RCVD", "ESTABLISHED", "CLOSED"}]
      /\ UNCHANGED <<forks, serverTries, localToken, tokenMap, mpVars, fault, ackPath>>
  BY DEF ServerReset, CloseAndNotifyAllSubflows
<1>4. SentOnce'
  BY DEF ServerTakes
<1>5. TypeOK'
  BY <1>1, <1>2, <1>3 DEF TypeOK, MpStates
<1>6. ClientPackets'
  BY <1>1, <1>2, <1>3 DEF ClientPackets, ToServerOn, Answered, TypeOK
<1>7. ServerPackets'
  BY <1>1, <1>2, <1>3, ZenonT(30) DEF ServerPackets, ToClientOn, ToServerOn, SynUnderWay, Answered, TypeOK
<1>8. CapableIsAlone'
  BY <1>1, <1>2, <1>3 DEF CapableIsAlone, ToClientOn, ToServerOn, SynUnderWay, TypeOK
<1>9. SynMeetsSocket'
  BY <1>1, <1>2, <1>3 DEF SynMeetsSocket, ToServerOn, SynUnderWay, TypeOK
<1>10. OpeningIsFresh'
  BY <1>1, <1>2, <1>3 DEF OpeningIsFresh, Opening, TypeOK
<1>11. SocketsCount'
  BY <1>1, <1>2, <1>3 DEF SocketsCount, TypeOK
<1>12. EndsAgree'
  BY <1>1, <1>2, <1>3 DEF EndsAgree, Answered, TypeOK
<1>13. ToCome'
  BY <1>1, <1>2, <1>3 DEF ToCome, TypeOK
<1>14. ClosedIsLast'
  BY <1>1, <1>2, <1>3 DEF ClosedIsLast, ToServerOn, ToClientOn, TypeOK
<1>15. OtherFaultsNever'
  BY <1>1, <1>2, <1>3 DEF OtherFaultsNever
<1> QED
  BY <1>4, <1>5, <1>6, <1>7, <1>8, <1>9, <1>10, <1>11, <1>12, <1>13, <1>14, <1>15

(* Before Listen only a SYN can come, and its answer travels alone. *)
LEMMA RefuseUnboundStep ==
  ASSUME HandshakeInv,
         NEW s \in Subflows,
         NEW p,
         ServerTakes(s, p),
         RefuseUnbound(s, p)
  PROVE  HandshakeInv'
<1> USE SubflowZero, PathFacts DEF HandshakeInv, clientVars, serverVars, mpVars, pathVars
<1>1. /\ p \in Range(dataPath[s])
      /\ dataPath' \in [Subflows -> Seq(PacketType)]
      /\ \A t \in Subflows : Range(dataPath'[t]) \subseteq Range(dataPath[t])
      /\ UNCHANGED <<clientVars, listening>>
      /\ SynUnderWay' => SynUnderWay
  BY DEF ServerTakes, Removes, SynUnderWay, ToServerOn
<1>2. /\ forks = 0 /\ serverState[0] = "NONE" /\ ~ listening
      /\ UNCHANGED <<forks, serverState, serverTries, localToken, tokenMap, mpVars, fault>>
  BY DEF RefuseUnbound, SocketsCount
<1>3. \/ p.kind = "RST" /\ clientState[0] = "CLOSED" /\ ackPath' = ackPath
      \/ /\ p.kind = "SYN" /\ s = 0 /\ SynUnderWay /\ ~ SynUnderWay'
         /\ clientState[0] = "SYN_SENT" /\ ackPath[0] = << >>
         /\ ackPath' = Send(ackPath, 0, RstAck)
  <2>1. CASE p.kind = "RST"
    BY <1>1, <2>1 DEF RefuseUnbound, IsReset, ClientPackets, ToServerOn
  <2>2. CASE p.kind # "RST"
    <3>1. p.kind = "SYN" /\ s = 0
      BY <1>1, <1>2, <2>2 DEF ClientPackets, ToServerOn
    <3>2. SynUnderWay /\ ~ SynUnderWay'
      BY <1>1, <3>1 DEF SynUnderWay, ToServerOn, ServerTakes, NoneOf
    <3>3. clientState[0] = "SYN_SENT" /\ ackPath[0] = << >>
      BY <1>2, <3>2 DEF SynMeetsSocket
    <3> QED
      BY <3>1, <3>2, <3>3 DEF RefuseUnbound, IsReset
  <2> QED
    BY <2>1, <2>2
<1>4. \/ ackPath' = ackPath /\ clientState[0] = "CLOSED"
      \/ /\ Adds(ackPath, ackPath', 0, RstAck) /\ RstAck.kind = "RST_ACK"
         /\ s = 0 /\ SynUnderWay /\ ~ SynUnderWay' /\ clientState[0] = "SYN_SENT"
         /\ ackPath[0] = << >> /\ Range(ackPath[0]) = {}
  <2>1. RstAck \in PacketType /\ RstAck.kind = "RST_ACK"
    BY PacketTypes DEF RstAck, Packet
  <2>2. ackPath' = Send(ackPath, 0, RstAck) => Adds(ackPath, ackPath', 0, RstAck)
    BY <2>1, SendAdds
  <2>3. ackPath[0] = << >> => Range(ackPath[0]) = {}
    BY DEF Range
  <2> QED
    BY <1>3, <2>1, <2>2, <2>3
<1>5. SentOnce'
  BY DEF ServerTakes
<1>6. TypeOK'
  BY <1>1, <1>2, <1>3, <1>4 DEF TypeOK, MpStates, Adds
<1>7. ClientPackets'
  BY <1>1, <1>2, <1>3, <1>4 DEF ClientPackets, ToServerOn, Answered, TypeOK, Adds
<1>8. ServerPackets'
  <2>1. CASE ackPath' = ackPath /\ clientState[0] = "CLOSED"
    BY <1>1, <1>2, <2>1 DEF ServerPackets, ToClientOn, Answered
  <2>2. CASE /\ Adds(ackPath, ackPath', 0, RstAck) /\ RstAck.kind = "RST_ACK"
             /\ s = 0 /\ SynUnderWay /\ ~ SynUnderWay' /\ clientState[0] = "SYN_SENT"
             /\ ackPath[0] = << >> /\ Range(ackPath[0]) = {}
    <3>1. \A q \in Range(ackPath'[0]) : q = RstAck
      BY <2>2 DEF Adds
    <3>2. \A t \in Subflows \ {0} : ackPath'[t] = ackPath[t]
      BY <2>2 DEF Adds
    <3>3. Len(ackPath'[0]) = 1
      BY <2>2 DEF Adds
    <3>4. UNCHANGED <<pathManager, clientState, remoteToken, forks, serverState>>
      BY <1>1, <1>2
    <3> QED
      BY <1>2, <2>2, <3>1, <3>2, <3>3, <3>4 DEF ServerPackets, ToClientOn, Answered
  <2> QED
    BY <1>4, <2>1, <2>2
<1>9. CapableIsAlone'
  BY <1>1, <1>2, <1>3, <1>4 DEF CapableIsAlone, ToClientOn, ToServerOn, SynUnderWay, TypeOK, Adds
<1>10. SynMeetsSocket'
  BY <1>1, <1>2, <1>3, <1>4 DEF SynMeetsSocket, ToServerOn, SynUnderWay, TypeOK, Adds
<1>11. OpeningIsFresh'
  BY <1>1, <1>2, <1>4 DEF OpeningIsFresh, Opening
<1>12. SocketsCount'
  BY <1>1, <1>2, <1>3, <1>4 DEF SocketsCount, TypeOK, Adds
<1>13. EndsAgree'
  BY <1>1, <1>2, <1>3, <1>4 DEF EndsAgree, Answered, TypeOK, Adds
<1>14. ToCome'
  BY <1>1, <1>2, <1>3, <1>4 DEF ToCome, TypeOK, Adds
<1>15. ClosedIsLast'
  BY <1>1, <1>2, <1>3, <1>4 DEF ClosedIsLast, ToServerOn, ToClientOn, TypeOK, Adds
<1>16. OtherFaultsNever'
  BY <1>1, <1>2, <1>3, <1>4 DEF OtherFaultsNever, Adds
<1> QED
  BY <1>5, <1>6, <1>7, <1>8, <1>9, <1>10, <1>11, <1>12, <1>13, <1>14, <1>15, <1>16

-----------------------------------------------------------------------------
(* The whole. *)

LEMMA ToClientStep ==
  ASSUME HandshakeInv, fault = "none", NEW s \in Subflows, ToClient(s)
  PROVE  HandshakeInv'
<1>1. PICK i \in Leaving(ackPath[s]) :
        LET p == ackPath[s][i] IN
        /\ ackPath' = Take(ackPath, s, i)
        /\ \/ ReceiveSynAck(s, p)
           \/ ReceiveAddresses(s, p)
           \/ ReceiveReset(s, p)
           \/ ClientRefuses(s, p)
           \/ ClientIgnores(s, p)
        /\ UNCHANGED <<pathManager, clientTries, serverVars>>
  BY DEF ToClient
<1> DEFINE p == ackPath[s][i]
<1>2. ClientTakes(s, p)
  BY <1>1, TakenByClient
<1>3. CASE ReceiveSynAck(s, p)
  <2>1. p.kind = "SYN_ACK" /\ clientState[s] = "SYN_SENT"
    BY <1>3 DEF ReceiveSynAck
  <2>2. CASE EstablishedPlain(s, p)
    BY <1>2, <2>1, <2>2, EstablishedPlainStep
  <2>3. CASE EstablishedPorts(s, p)
    BY <1>2, <2>1, <2>3, EstablishedPortsStep
  <2>4. CASE EstablishedMesh(s, p)
    BY <1>2, <2>1, <2>4, EstablishedMeshStep
  <2>5. CASE NotEnabled(s, p)
    BY <1>2, <2>5, AckLeaves DEF NotEnabled
  <2> QED
    BY <1>3, <2>2, <2>3, <2>4, <2>5 DEF ReceiveSynAck
<1>4. CASE ReceiveAddresses(s, p)
  BY <1>2, <1>4, ReceiveAddressesStep
<1>5. CASE ReceiveReset(s, p)
  BY <1>2, <1>5, ReceiveResetStep
<1>6. CASE ClientRefuses(s, p)
  BY <1>2, <1>6, ClientRefusesStep
<1>7. CASE ClientIgnores(s, p)
  BY <1>2, <1>7, AckLeaves DEF ClientIgnores
<1> QED
  BY <1>1, <1>3, <1>4, <1>5, <1>6, <1>7

LEMMA ToServerStep ==
  ASSUME HandshakeInv, NEW s \in Subflows, ToServer(s)
  PROVE  HandshakeInv'
<1>1. PICK i \in Leaving(dataPath[s]) :
        LET p == dataPath[s][i] IN
        /\ dataPath' = Take(dataPath, s, i)
        /\ \/ Fork(s, p)
           \/ ReceiveJoin(s, p)
           \/ RepeatedSyn(s, p)
           \/ ReceiveConfirmation(s, p)
           \/ ReceiveData(s, p)
           \/ AnswerAddresses(s, p)
           \/ RefuseClosed(s, p)
           \/ ServerReset(s, p)
           \/ RefuseUnbound(s, p)
           \/ ListenerIgnores(s, p)
           \/ ServerIgnores(s, p)
        /\ UNCHANGED <<clientVars, listening>>
  BY DEF ToServer
<1> DEFINE p == dataPath[s][i]
<1>2. ServerTakes(s, p)
  BY <1>1, TakenByServer
<1>3. CASE Fork(s, p)
  BY <1>2, <1>3, ForkStep
<1>4. CASE ReceiveJoin(s, p)
  BY <1>2, <1>4, ReceiveJoinStep
<1>5. CASE RepeatedSyn(s, p)
  BY <1>2, <1>5, RepeatedSynEndsStep, RepeatedSynStep
<1>6. CASE ReceiveConfirmation(s, p)
  BY <1>2, <1>6, ReceiveConfirmationStep
<1>7. CASE ReceiveData(s, p)
  BY <1>2, <1>7, ReceiveDataStep
<1>8. CASE AnswerAddresses(s, p)
  BY <1>2, <1>8, AnswerAddressesStep
<1>9. CASE RefuseClosed(s, p)
  BY <1>2, <1>9, RefuseClosedStep
<1>10. CASE ServerReset(s, p)
  BY <1>2, <1>10, ServerResetStep
<1>11. CASE RefuseUnbound(s, p)
  BY <1>2, <1>11, RefuseUnboundStep
<1>12. CASE ListenerIgnores(s, p)
  BY <1>2, <1>12, DataLeaves DEF ListenerIgnores
<1>13. CASE ServerIgnores(s, p)
  BY <1>2, <1>13, DataLeaves DEF ServerIgnores
<1> QED
  BY <1>1, <1>3, <1>4, <1>5, <1>6, <1>7, <1>8, <1>9, <1>10, <1>11, <1>12, <1>13

LEMMA LossStep ==
  ASSUME HandshakeInv, Loss
  PROVE  HandshakeInv'
<1>1. PICK s \in Subflows : LoseData(s) \/ LoseAck(s)
  BY DEF Loss
<1>2. CASE LoseData(s)
  <2>1. PICK i \in Leaving(dataPath[s]) :
          dataPath' = Take(dataPath, s, i) /\ ackPath' = ackPath
    BY <1>2 DEF LoseData, Take
  <2>2. UNCHANGED <<clientVars, serverVars, mpVars, fault>>
    BY DEF Loss
  <2>3. ServerTakes(s, dataPath[s][i])
    BY <2>1, <2>2, TakenByServer DEF serverVars
  <2> QED
    BY <2>1, <2>2, <2>3, DataLeaves DEF serverVars
<1>3. CASE LoseAck(s)
  <2>1. PICK i \in Leaving(ackPath[s]) :
          ackPath' = Take(ackPath, s, i) /\ dataPath' = dataPath
    BY <1>3 DEF LoseAck, Take
  <2>2. UNCHANGED <<clientVars, serverVars, mpVars, fault>>
    BY DEF Loss
  <2>3. ClientTakes(s, ackPath[s][i])
    BY <2>1, <2>2, TakenByClient DEF clientVars
  <2> QED
    BY <2>1, <2>2, <2>3, AckLeaves DEF clientVars
<1> QED
  BY <1>1, <1>2, <1>3

LEMMA HandshakeInit ==
  Init => HandshakeInv
<1> SUFFICES ASSUME Init PROVE HandshakeInv
  OBVIOUS
<1> USE SubflowZero DEF Init, PathInit
<1>1. /\ \A s \in Subflows : Range(dataPath[s]) = {} /\ Range(ackPath[s]) = {}
      /\ ~ SynUnderWay
  BY DEF Range, SynUnderWay, ToServerOn
<1>2. TypeOK
  <2>1. mpSendState \in MpStates /\ mpRecvState \in MpStates
    BY DEF MpStates
  <2>2. /\ clientTries \in 0 .. ConnRetries
        /\ serverTries \in [Subflows -> 0 .. ConnRetries]
    BY HandshakeAssumption
  <2> QED
    BY <2>1, <2>2 DEF TypeOK
<1>3. ClientPackets /\ SentOnce
  BY <1>1 DEF ClientPackets, SentOnce, ToServerOn, OneOf
<1>4. ServerPackets /\ CapableIsAlone
  BY <1>1 DEF ServerPackets, CapableIsAlone, ToClientOn
<1>5. SynMeetsSocket /\ OpeningIsFresh
  BY <1>1 DEF SynMeetsSocket, OpeningIsFresh, Opening
<1>6. SocketsCount /\ EndsAgree /\ ToCome
  BY DEF SocketsCount, EndsAgree, ToCome, Answered
<1>7. ClosedIsLast /\ OtherFaultsNever
  BY DEF ClosedIsLast, OtherFaultsNever
<1> QED
  BY <1>2, <1>3, <1>4, <1>5, <1>6, <1>7 DEF HandshakeInv

LEMMA HandshakeStep ==
  HandshakeInv /\ [Next]_vars => HandshakeInv'
<1> SUFFICES ASSUME HandshakeInv, [Next]_vars PROVE HandshakeInv'
  OBVIOUS
<1>1. CASE UNCHANGED vars
  BY <1>1 DEF HandshakeInv, vars, clientVars, serverVars, mpVars, pathVars,
    TypeOK, ClientPackets, SentOnce, ServerPackets, CapableIsAlone,
    SynMeetsSocket, OpeningIsFresh, Opening, SocketsCount, EndsAgree, ToCome,
    ClosedIsLast, OtherFaultsNever, ToServerOn, ToClientOn, SynUnderWay, Answered
<1>2. CASE Running
  <2>1. fault = "none"
    BY <1>2 DEF Running
  <2>2. CASE Connect
    BY <2>2, ConnectStep
  <2>3. CASE ClientRetry
    BY <2>3, ClientRetryStep
  <2>4. CASE ClientGiveUp
    BY <2>4, ClientGiveUpStep
  <2>5. CASE Listen
    BY <2>5, ListenStep
  <2>6. CASE RetriesCross
    BY <2>6, RetriesCrossStep
  <2>7. CASE Loss
    BY <2>7, LossStep
  <2>8. ASSUME NEW s \in Subflows,
               \/ ToClient(s) \/ ToServer(s)
               \/ InitiateSingleSubflows(s) \/ SendData(s) \/ ServerTimeout(s)
        PROVE  HandshakeInv'
    BY <2>1, <2>8, ToClientStep, ToServerStep, InitiateSingleSubflowsStep,
       SendDataStep, ServerGiveUpStep, ServerRetryStep
  <2> QED
    BY <1>2, <2>2, <2>3, <2>4, <2>5, <2>6, <2>7, <2>8 DEF Running
<1> QED
  BY <1>1, <1>2 DEF Next, Done

(* HandshakeInv holds in every state of every behaviour, whatever is lost, *)
(* repeated or reordered on the way, for every number of sub-flows, queue  *)
(* places, retries and path managers.                                      *)
THEOREM HandshakeInvariance == Spec => []HandshakeInv
<1>1. Init => HandshakeInv
  BY HandshakeInit
<1>2. HandshakeInv /\ [Next]_vars => HandshakeInv'
  BY HandshakeStep
<1> QED
  BY <1>1, <1>2, PTL DEF Spec

(* Type correctness of the hand-shake. *)
THEOREM HandshakeTypes == Spec => []TypeOK
<1>1. HandshakeInv => TypeOK
  BY DEF HandshakeInv
<1> QED
  BY <1>1, HandshakeInvariance, PTL

(* While the server is open, the token of a connected client and those of  *)
(* its JOINs are the server's or 0, for none: ReadOptions of               *)
(* MpTcpSocketBase takes MP_CAPABLE from a SYN+ACK of the last socket.     *)
THEOREM TokensAreAgreed == Spec => []TokensAgree
<1>1. HandshakeInv => TokensAgree
  BY DEF HandshakeInv, TokensAgree, ClientPackets, EndsAgree, ToServerOn, Range, TypeOK
<1> QED
  BY <1>1, HandshakeInvariance, PTL

(* What each end takes a sub-flow for fits the other's view of it, when    *)
(* ProcessSynSent and ProcessSynRcvd have come to ESTABLISHED.             *)
THEOREM ViewsAreFit == Spec => []ViewsFit
<1>1. HandshakeInv => ViewsFit
  BY DEF HandshakeInv, ViewsFit, EndsAgree, Answered
<1> QED
  BY <1>1, HandshakeInvariance, PTL

(* The assertion of ProcessSynRcvd holds, no freed endpoint is looked up   *)
(* by its token, and InitiateSingleSubflows never finds the connection     *)
(* closed.                                                                 *)
THEOREM OtherFaultsAreNever == Spec => []OtherFaultsNever
<1>1. HandshakeInv => OtherFaultsNever
  BY DEF HandshakeInv
<1> QED
  BY <1>1, HandshakeInvariance, PTL
=============================================================================
