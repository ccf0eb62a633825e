----------------------------- MODULE CoDelProofs -----------------------------
(***************************************************************************)
(* Proofs about CoDelDevice, for every discipline and all values of the    *)
(* constants: its types, that CoDelQueueLifo never drops the packet an     *)
(* idle device is given, and that a drop which begins the dropping state   *)
(* leaves packets behind.                                                  *)
(*                                                                         *)
(* The argument: a device that is idle with CoDelQueueLifo has either      *)
(* found the queue empty, which clears m_first_above_time, or has had a    *)
(* packet dropped, and the second ShouldDrop for that packet has set       *)
(* ct_tmax to 0.  The next packet raises ct_tmax to 1 at most, and teta is *)
(* never below 1 because an average is not above the maximum.  For the     *)
(* last claim the bytes in the queue are shown to be those of its packets. *)
(***************************************************************************)
EXTENDS CoDelDevice, TLAPS

-----------------------------------------------------------------------------
(* The inductive invariant. *)

(* No packet comes from the future. *)
PacketsArePast == \A i \in 1 .. Len(packets) : packets[i].created <= now

AverageIsBelow == estimate.average <= estimate.max

(* The device waits for a packet only while it is not transmitting. *)
CallsWhenReady == call # "none" => txState = "READY"

SendLeavesPacket == call = "Send" /\ ~ looping => packets # <<>>

(* What an idle device with CoDelQueueLifo knows of the estimate, also     *)
(* when Send asks for a packet.                                            *)
NoDropWhenIdle ==
  Lifo /\ txState = "READY" /\ call # "TransmitComplete" =>
    firstAbove = 0 \/ estimate.rises = 0

LifoDropsWhenIdle ==
  Lifo => /\ ~ looping /\ ~ crashed
          /\ dropping => txState = "READY" /\ call # "TransmitComplete"

QueueFits ==
  Mode = "PACKETS" =>
    /\ Len(packets) <= MaxSize
    /\ MaxSize > 0 /\ txState = "READY" /\ call = "none" => Len(packets) < MaxSize

(* a and b are the same count of bytes, as a counter that wraps has it.    *)
SameCount(a, b) == \E k \in Int : a = b + k * Modulus

(* m_bytesInQueue is the running total of the packets' sizes.              *)
BytesCounted ==
  \E total \in [0 .. Len(packets) -> Int] :
    /\ total[0] = 0
    /\ \A i \in 1 .. Len(packets) : total[i] = total[i - 1] + packets[i].size
    /\ SameCount(bytesInQueue, total[Len(packets)])

CoDelInv ==
  /\ TypeOK
  /\ PacketsArePast
  /\ AverageIsBelow
  /\ CallsWhenReady
  /\ SendLeavesPacket
  /\ NoDropWhenIdle
  /\ LifoDropsWhenIdle
  /\ QueueFits
  /\ FlowIsListed

-----------------------------------------------------------------------------
(* Arithmetic. *)

LEMMA ModRange ==
  ASSUME NEW x \in Int, NEW m \in Nat \ {0}
  PROVE  x % m \in 0 .. m - 1
  BY SMT

LEMMA ModIsBelow ==
  ASSUME NEW x \in Nat, NEW m \in Nat \ {0}
  PROVE  x % m \in Nat /\ x % m <= x
  BY SMT

LEMMA QuotientIsBelow ==
  ASSUME NEW x \in Nat, NEW m \in Nat \ {0}, NEW k \in Nat, x <= k * m
  PROVE  x \div m \in Nat /\ x \div m <= k
  BY SMT

LEMMA QuotientIsPositive ==
  ASSUME NEW x \in Nat, NEW m \in Nat \ {0}, x >= m
  PROVE  x \div m \in Nat /\ x \div m >= 1
  BY SMT

LEMMA ProductGrows ==
  ASSUME NEW a \in Nat, NEW b \in Nat, NEW n \in Nat, a <= b
  PROVE  a * n \in Nat /\ b * n \in Nat /\ a * n <= b * n
  BY SMT

LEMMA DivisionSplits ==
  ASSUME NEW x \in Int, NEW m \in Nat \ {0}
  PROVE  x \div m \in Int /\ x - m * (x \div m) = x % m
  BY Z3

LEMMA RemainderIsSame ==
  ASSUME NEW x \in Int
  PROVE  SameCount(x % Modulus, x)
<1> DEFINE q == x \div Modulus
<1>1. q \in Int /\ x - Modulus * q = x % Modulus
  BY DivisionSplits, QueueAssumption
<1> HIDE DEF q
<1>2. (-q) * Modulus = -(Modulus * q) /\ -q \in Int /\ Modulus * q \in Int
  BY <1>1, QueueAssumption, SMT
<1>3. x % Modulus = x + (-q) * Modulus
  BY <1>1, <1>2, SMT
<1> QED BY <1>2, <1>3 DEF SameCount

LEMMA SameIsTransitive ==
  ASSUME NEW a \in Int, NEW b \in Int, NEW c \in Int, SameCount(a, b), SameCount(b, c)
  PROVE  SameCount(a, c)
<1>1. PICK k \in Int : a = b + k * Modulus
  BY DEF SameCount
<1>2. PICK l \in Int : b = c + l * Modulus
  BY DEF SameCount
<1>3. (k + l) * Modulus = k * Modulus + l * Modulus /\ k + l \in Int
      /\ k * Modulus \in Int /\ l * Modulus \in Int
  BY <1>1, <1>2, QueueAssumption, SMT
<1>4. a = c + (k + l) * Modulus
  BY <1>1, <1>2, <1>3, QueueAssumption, SMT
<1> QED BY <1>3, <1>4 DEF SameCount

LEMMA SameAdds ==
  ASSUME NEW a \in Int, NEW b \in Int, NEW c \in Int, SameCount(a, b)
  PROVE  SameCount(a + c, b + c)
<1>1. PICK k \in Int : a = b + k * Modulus
  BY DEF SameCount
<1>2. k * Modulus \in Int
  BY <1>1, QueueAssumption, SMT
<1>3. a + c = (b + c) + k * Modulus
  BY <1>1, <1>2, QueueAssumption, SMT
<1> QED BY <1>1, <1>3 DEF SameCount

LEMMA SameIsReflexive ==
  ASSUME NEW a \in Int
  PROVE  SameCount(a, a)
<1>1. a = a + 0 * Modulus
  BY QueueAssumption, SMT
<1> QED BY <1>1 DEF SameCount

LEMMA CountOfNone ==
  ASSUME NEW b \in 0 .. Modulus - 1, SameCount(b, 0)
  PROVE  b = 0
<1>1. PICK k \in Int : b = 0 + k * Modulus
  BY DEF SameCount
<1>2. k >= 1 => k * Modulus >= Modulus
  BY QueueAssumption, SMT
<1>3. k <= -1 => k * Modulus <= -1
  BY QueueAssumption, SMT
<1>4. k = 0 => k * Modulus = 0
  BY QueueAssumption, SMT
<1>5. k * Modulus \in Int
  BY QueueAssumption, SMT
<1> QED BY <1>1, <1>2, <1>3, <1>4, <1>5, QueueAssumption, SMT

Estimates == [before : Nat, rises : Nat, max : Nat, number : Nat, average : Nat, teta : Nat]

(* CoDelQueueLifo's average stays below its maximum, even where the sum    *)
(* overflows, so teta is at least 1.                                       *)
LEMMA EstimatedIsSound ==
  ASSUME NEW e \in Estimates, e.average <= e.max, NEW s \in Nat
  PROVE  /\ Estimated(e, s) \in Estimates
         /\ Estimated(e, s).average <= Estimated(e, s).max
         /\ Estimated(e, s).teta >= 1
         /\ Estimated(e, s).rises \in {0, e.rises + 1}
         /\ s <= e.before => Estimated(e, s).rises = 0
         /\ Estimated(e, s).before = s
<1> DEFINE max == Larger(e.max, s)
           sum == e.average * e.number + s
           average == (sum % Modulus) \div (e.number + 1)
           teta == (max + 1) \div (average + 1)
<1>1. max \in Nat /\ e.max <= max /\ s <= max
  BY DEF Larger, Estimates
<1>2. sum \in Nat /\ sum <= max * (e.number + 1)
  <2>1. e.average \in Nat /\ e.number \in Nat /\ e.average <= max
    BY <1>1 DEF Estimates
  <2>2. e.average * e.number \in Nat /\ max * e.number \in Nat
        /\ e.average * e.number <= max * e.number
    BY <1>1, <2>1, ProductGrows
  <2>3. max * (e.number + 1) = max * e.number + max
    BY <1>1, <2>1, SMT
  <2> QED BY <1>1, <2>2, <2>3
<1>3. average \in Nat /\ average <= max
  <2>1. sum % Modulus \in Nat /\ sum % Modulus <= sum
    BY <1>2, ModIsBelow, QueueAssumption
  <2>2. e.number + 1 \in Nat \ {0} /\ max * (e.number + 1) \in Nat
    BY <1>1, SMT DEF Estimates
  <2>3. sum % Modulus <= max * (e.number + 1)
    BY <1>2, <2>1, <2>2
  <2> HIDE DEF max, sum
  <2> QED BY <1>1, <2>1, <2>2, <2>3, QuotientIsBelow
<1>4. teta \in Nat /\ teta >= 1
  <2> HIDE DEF max, average
  <2> QED BY <1>1, <1>3, QuotientIsPositive
<1>5. Estimated(e, s) =
        [before |-> s, rises |-> IF s > e.before THEN e.rises + 1 ELSE 0,
         max |-> max, number |-> e.number + 1, average |-> average, teta |-> teta]
  BY DEF Estimated
<1> HIDE DEF max, sum, average, teta
<1> QED BY <1>1, <1>3, <1>4, <1>5 DEF Estimates

-----------------------------------------------------------------------------
(* Taking packets out and putting them in. *)

(* The counts of bytes wrap. *)
LEMMA CountWraps ==
  ASSUME NEW b \in 0 .. Modulus - 1, NEW size \in Sizes
  PROVE  /\ (b + size) % Modulus \in 0 .. Modulus - 1
         /\ (b - size) % Modulus \in 0 .. Modulus - 1
<1>1. b \in Int /\ size \in Int /\ Modulus \in Nat \ {0}
  BY QueueAssumption
<1>2. b + size \in Int /\ b - size \in Int
  BY <1>1
<1> QED BY <1>1, <1>2, ModRange

LEMMA PushKeeps ==
  ASSUME TypeOK, PacketsArePast, NEW size \in Sizes, NEW age \in Ages, Push(size, age)
  PROVE  /\ packets' \in Seq(Packet) /\ bytesInQueue' \in 0 .. Modulus - 1
         /\ Len(packets') = Len(packets) + 1
         /\ \A i \in 1 .. Len(packets) : packets'[i] = packets[i]
         /\ packets'[Len(packets')].size = size
         /\ \A i \in 1 .. Len(packets') : packets'[i].created <= now
<1> DEFINE p == [size |-> size, created |-> now - age]
<1>1. p \in Packet /\ p.created <= now
  BY QueueAssumption DEF Packet, TypeOK
<1>2. packets' = Append(packets, p)
  BY DEF Push
<1>3. bytesInQueue' \in 0 .. Modulus - 1
  BY CountWraps DEF Push, TypeOK
<1>6. p.size = size
  OBVIOUS
<1> HIDE DEF p
<1>4. packets' \in Seq(Packet) /\ Len(packets') = Len(packets) + 1
  BY <1>1, <1>2 DEF TypeOK
<1>7. /\ \A i \in 1 .. Len(packets) : packets'[i] = packets[i]
      /\ packets'[Len(packets')] = p
  BY <1>1, <1>2, <1>4 DEF TypeOK
<1>5. ASSUME NEW i \in 1 .. Len(packets')
      PROVE  packets'[i].created <= now
  BY <1>1, <1>2, <1>4, <1>5 DEF TypeOK, PacketsArePast
<1> QED BY <1>3, <1>4, <1>5, <1>6, <1>7

LEMMA TopIsPacket ==
  ASSUME TypeOK, PacketsArePast, packets # <<>>
  PROVE  /\ Position \in 1 .. Len(packets)
         /\ Top \in Packet
         /\ Sojourn(Top) \in Nat
<1>1. Position \in 1 .. Len(packets)
  BY DEF TypeOK, Position
<1>2. Top \in Packet /\ Top.created <= now
  BY <1>1 DEF Top, TypeOK, PacketsArePast
<1> QED BY <1>1, <1>2 DEF Sojourn, Packet, TypeOK

LEMMA ConcatIsSound ==
  ASSUME NEW S, NEW a \in Seq(S), NEW b \in Seq(S)
  PROVE  /\ a \o b \in Seq(S) /\ Len(a \o b) = Len(a) + Len(b)
         /\ \A i \in 1 .. Len(a) : (a \o b)[i] = a[i]
         /\ \A i \in Len(a) + 1 .. Len(a) + Len(b) : (a \o b)[i] = b[i - Len(a)]
  OBVIOUS

LEMMA PopKeeps ==
  ASSUME TypeOK, PacketsArePast, packets # <<>>, Pop
  PROVE  /\ packets' \in Seq(Packet) /\ bytesInQueue' \in 0 .. Modulus - 1
         /\ Len(packets') = Len(packets) - 1
         /\ \A i \in 1 .. Len(packets') :
              packets'[i] = packets[IF i < Position THEN i ELSE i + 1]
         /\ \A i \in 1 .. Len(packets') : packets'[i].created <= now
<1> DEFINE n == Position
           front == SubSeq(packets, 1, n - 1)
           back == SubSeq(packets, n + 1, Len(packets))
<1>1. n \in 1 .. Len(packets) /\ Top \in Packet
  BY TopIsPacket
<1>2. packets' = front \o back
  BY DEF Pop
<1>3. bytesInQueue' \in 0 .. Modulus - 1
  <2>1. Top.size \in Sizes
    BY <1>1 DEF Packet
  <2> QED BY <2>1, CountWraps DEF Pop, TypeOK
<1> HIDE DEF n
<1>4. packets \in Seq(Packet) /\ Len(packets) \in Nat
  BY DEF TypeOK
<1>5. /\ front \in Seq(Packet) /\ Len(front) = n - 1
      /\ \A i \in 1 .. n - 1 : front[i] = packets[i]
  BY <1>1, <1>4
<1>6. /\ back \in Seq(Packet) /\ Len(back) = Len(packets) - n
      /\ \A i \in 1 .. Len(packets) - n : back[i] = packets[n + i]
  BY <1>1, <1>4
<1> HIDE DEF front, back
<1>7. packets' \in Seq(Packet) /\ Len(packets') = Len(packets) - 1
  <2>1. n \in Nat
    BY <1>1, <1>4
  <2>2. packets' \in Seq(Packet) /\ Len(packets') = Len(front) + Len(back)
    BY <1>2, <1>5, <1>6, ConcatIsSound
  <2> QED BY <1>4, <1>5, <1>6, <2>1, <2>2
<1>8. ASSUME NEW i \in 1 .. Len(packets')
      PROVE  /\ packets'[i] = packets[IF i < n THEN i ELSE i + 1]
             /\ packets'[i].created <= now
  <2>1. CASE i < n
    <3>1. packets'[i] = packets[i] /\ i \in 1 .. Len(packets)
      BY <1>1, <1>2, <1>4, <1>5, <1>6, <1>7, <2>1
    <3> QED BY <2>1, <3>1 DEF PacketsArePast
  <2>2. CASE ~ i < n
    <3>1. i - (n - 1) \in 1 .. Len(packets) - n
      BY <1>1, <1>4, <1>7, <2>2
    <3>2. packets'[i] = back[i - (n - 1)]
      <4>1. i \in Len(front) + 1 .. Len(front) + Len(back) /\ Len(front) = n - 1
        BY <1>1, <1>4, <1>5, <1>6, <1>7, <2>2
      <4> QED BY <1>2, <1>5, <1>6, <4>1
    <3>3. packets'[i] = packets[i + 1] /\ i + 1 \in 1 .. Len(packets)
      <4>1. /\ i + 1 \in 1 .. Len(packets) /\ n + (i - (n - 1)) = i + 1
        BY <1>1, <1>4, <1>7, <2>2
      <4> QED BY <1>6, <3>1, <3>2, <4>1
    <3> QED BY <2>2, <3>3 DEF PacketsArePast
  <2> QED BY <2>1, <2>2
<1>9. n = Position
  BY DEF n
<1> QED BY <1>3, <1>7, <1>8, <1>9

LEMMA TopEstimate ==
  ASSUME CoDelInv, packets # <<>>
  PROVE  /\ EstimateOf(Top) \in Estimates
         /\ EstimateOf(Top).average <= EstimateOf(Top).max
         /\ Lifo => /\ EstimateOf(Top).teta >= 1
                    /\ EstimateOf(Top).rises \in {0, estimate.rises + 1}
                    /\ EstimateOf(Top).before = Sojourn(Top)
<1>1. estimate \in Estimates /\ estimate.average <= estimate.max
  BY DEF CoDelInv, TypeOK, Estimates, AverageIsBelow
<1>2. Sojourn(Top) \in Nat
  BY TopIsPacket DEF CoDelInv
<1>3. CASE Lifo
  BY <1>1, <1>2, <1>3, EstimatedIsSound DEF EstimateOf
<1>4. CASE ~ Lifo
  BY <1>1, <1>4 DEF EstimateOf
<1> QED BY <1>3, <1>4

(* With CoDelQueueLifo an idle device gets the packet it asks for. *)
LEMMA IdleDropsNothing ==
  ASSUME CoDelInv, Lifo, packets # <<>>, call = "Send"
  PROVE  ~ ShouldDrop(Top)
<1>1. firstAbove = 0 \/ estimate.rises = 0
  BY DEF CoDelInv, NoDropWhenIdle, CallsWhenReady
<1>2. CASE firstAbove = 0
  BY <1>2 DEF ShouldDrop
<1>3. CASE estimate.rises = 0
  <2>1. /\ EstimateOf(Top).rises \in {0, 1}
        /\ EstimateOf(Top).teta >= 1 /\ EstimateOf(Top).teta \in Nat
    BY <1>3, TopEstimate DEF Estimates
  <2> QED BY <2>1 DEF ShouldDrop
<1> QED BY <1>1, <1>2, <1>3

(* The flow of Fq_CoDelQueue. *)
Flows == [list : {"none", "new", "old"}, deficit : Int, backlog : 0 .. Modulus - 1]

LEMMA FlowScheduledIsSound ==
  ASSUME NEW f \in Flows
  PROVE  /\ FlowScheduled(f) \in Flows
         /\ f.list # "none" => FlowScheduled(f).list # "none"
<1> DEFINE k == (Quantum - f.deficit) \div Quantum
<1>1. k \in Int
  BY QueueAssumption DEF Flows
<1>2. f.deficit + Quantum * k \in Int
  BY <1>1, QueueAssumption DEF Flows
<1>3. FlowScheduled(f) =
        IF Fq /\ f.list # "none" /\ f.deficit <= 0
        THEN [f EXCEPT !.list = "old", !.deficit = f.deficit + Quantum * k]
        ELSE f
  BY DEF FlowScheduled, Flows
<1> HIDE DEF k
<1> QED BY <1>2, <1>3 DEF Flows

LEMMA FlowEnqueuedIsSound ==
  ASSUME TypeOK, NEW size \in Sizes
  PROVE  /\ FlowEnqueued(size) \in Flows
         /\ Fq => FlowEnqueued(size).list # "none"
<1>1. flow \in Flows
  BY DEF TypeOK, Flows
<1>2. (flow.backlog + size) % Modulus \in 0 .. Modulus - 1
  BY <1>1, CountWraps DEF Flows
<1> QED BY <1>1, <1>2, QueueAssumption DEF FlowEnqueued, Flows

LEMMA FlowServedIsSound ==
  ASSUME TypeOK, NEW p \in Packet
  PROVE  FlowServed(p) \in Flows /\ FlowServed(p).list = flow.list
<1>1. flow \in Flows
  BY DEF TypeOK, Flows
<1>2. p.size \in Sizes /\ flow.deficit - p.size \in Int
  <2>1. p.size \in Sizes /\ flow.deficit \in Int
    BY <1>1 DEF Packet, Flows
  <2>2. p.size \in Nat
    BY <2>1, QueueAssumption
  <2> QED BY <2>1, <2>2
<1>3. (flow.backlog - p.size) % Modulus \in 0 .. Modulus - 1
  BY <1>1, <1>2, CountWraps DEF Flows
<1>4. FlowServed(p) =
        IF Fq THEN [flow EXCEPT !.deficit = flow.deficit - p.size,
                                !.backlog = (flow.backlog - p.size) % Modulus]
              ELSE flow
  BY <1>1 DEF FlowServed, Flows
<1> QED BY <1>1, <1>2, <1>3, <1>4 DEF Flows

LEMMA FlowIdleIsSound ==
  ASSUME TypeOK
  PROVE  FlowIdle \in Flows
  BY DEF FlowIdle, Flows, TypeOK

-----------------------------------------------------------------------------
(* Each action keeps the invariant. *)

LEMMA InitInv ==
  ASSUME Init
  PROVE  CoDelInv
<1>1. TypeOK
  <2>1. 0 \in 0 .. Modulus - 1
    BY QueueAssumption
  <2>2. flow.backlog \in 0 .. Modulus - 1 /\ flow = [list |-> "none", deficit |-> 0, backlog |-> flow.backlog]
    BY DeviceAssumption DEF Init
  <2>3. flow \in Flows
    BY <2>2 DEF Flows
  <2>4. estimate \in Estimates /\ packets \in Seq(Packet)
    BY DEF Init, Estimates
  <2> QED BY <2>1, <2>3, <2>4 DEF Init, TypeOK, Flows, Estimates
<1>2. PacketsArePast /\ AverageIsBelow /\ CallsWhenReady /\ SendLeavesPacket
  BY DEF Init, PacketsArePast, AverageIsBelow, CallsWhenReady, SendLeavesPacket
<1>3. NoDropWhenIdle /\ LifoDropsWhenIdle /\ FlowIsListed
  BY DEF Init, NoDropWhenIdle, LifoDropsWhenIdle, FlowIsListed
<1>4. QueueFits
  BY QueueAssumption DEF Init, QueueFits
<1> QED BY <1>1, <1>2, <1>3, <1>4 DEF CoDelInv

LEMMA StutterInv ==
  ASSUME CoDelInv, UNCHANGED <<discipline, now, queueVars, deviceVars>>, sends' \in Nat
  PROVE  CoDelInv'
<1> USE DEF queueVars, deviceVars
<1>1. TypeOK'
  BY DEF CoDelInv, TypeOK, Packet
<1>2. (PacketsArePast /\ AverageIsBelow /\ CallsWhenReady /\ SendLeavesPacket)'
  BY DEF CoDelInv, PacketsArePast, AverageIsBelow, CallsWhenReady, SendLeavesPacket
<1>3. (NoDropWhenIdle /\ LifoDropsWhenIdle /\ FlowIsListed)'
  BY DEF CoDelInv, NoDropWhenIdle, LifoDropsWhenIdle, FlowIsListed, Lifo, Fq
<1>4. QueueFits'
  BY DEF CoDelInv, QueueFits
<1> QED BY <1>1, <1>2, <1>3, <1>4 DEF CoDelInv

LEMMA SendRefusedInv ==
  ASSUME CoDelInv, NEW size \in Sizes, SendRefused(size)
  PROVE  CoDelInv'
<1>1. sends' \in Nat
  BY DEF SendRefused, Sending, CoDelInv, TypeOK
<1> QED BY <1>1, StutterInv DEF SendRefused

LEMMA DoneInv ==
  ASSUME CoDelInv, Done
  PROVE  CoDelInv'
  BY StutterInv DEF Done, vars, queueVars, deviceVars, CoDelInv, TypeOK

LEMMA TickInv ==
  ASSUME CoDelInv, Tick
  PROVE  CoDelInv'
<1> USE DEF Tick, queueVars, deviceVars
<1>1. TypeOK'
  BY DEF CoDelInv, TypeOK, Packet
<1>2. PacketsArePast'
  <2>1. ASSUME NEW i \in 1 .. Len(packets)
        PROVE  packets[i].created <= now + 1
    <3>1. packets[i] \in Packet /\ now \in Nat
      BY DEF CoDelInv, TypeOK
    <3>2. packets[i].created <= now
      BY DEF CoDelInv, PacketsArePast
    <3> QED BY <3>1, <3>2 DEF Packet
  <2> QED BY <2>1 DEF PacketsArePast
<1>3. (AverageIsBelow /\ CallsWhenReady /\ SendLeavesPacket)'
  BY DEF CoDelInv, AverageIsBelow, CallsWhenReady, SendLeavesPacket
<1>4. (NoDropWhenIdle /\ LifoDropsWhenIdle /\ FlowIsListed)'
  BY DEF CoDelInv, NoDropWhenIdle, LifoDropsWhenIdle, FlowIsListed, Lifo, Fq
<1>5. QueueFits'
  BY DEF CoDelInv, QueueFits
<1> QED BY <1>1, <1>2, <1>3, <1>4, <1>5 DEF CoDelInv

(* A packet is accepted: the parts of the invariant that Send and          *)
(* TransmitComplete leave alone are about what the device knows.           *)
LEMMA PushFits ==
  ASSUME CoDelInv, NEW size \in Sizes, NEW age \in Ages, Push(size, age), ~ Full(size),
         txState' # "READY" \/ call' # "none"
  PROVE  QueueFits'
<1>1. Len(packets') = Len(packets) + 1 /\ Len(packets) \in Nat
  BY PushKeeps DEF CoDelInv, TypeOK
<1>2. Mode = "PACKETS" => ~ Len(packets) >= MaxSize
  BY DEF Full
<1> QED BY <1>1, <1>2, QueueAssumption DEF QueueFits

LEMMA SendQueuedInv ==
  ASSUME CoDelInv, NEW size \in Sizes, NEW age \in Ages, SendQueued(size, age)
  PROVE  CoDelInv'
<1> USE DEF SendQueued, deviceVars
<1>1. /\ packets' \in Seq(Packet) /\ bytesInQueue' \in 0 .. Modulus - 1
      /\ \A i \in 1 .. Len(packets') : packets'[i].created <= now
  BY PushKeeps DEF CoDelInv
<1>2. flow' \in Flows /\ (Fq => flow'.list # "none")
  BY FlowEnqueuedIsSound DEF CoDelInv
<1>3. sends' \in Nat
  BY DEF Sending, CoDelInv, TypeOK
<1>4. TypeOK'
  BY <1>1, <1>2, <1>3 DEF CoDelInv, TypeOK, Flows, Packet
<1>5. (PacketsArePast /\ AverageIsBelow /\ CallsWhenReady)'
  BY <1>1 DEF CoDelInv, PacketsArePast, AverageIsBelow, CallsWhenReady
<1>6. (SendLeavesPacket /\ NoDropWhenIdle /\ LifoDropsWhenIdle)'
  BY DEF CoDelInv, SendLeavesPacket, NoDropWhenIdle, LifoDropsWhenIdle, Lifo, Sending
<1>7. FlowIsListed'
  BY <1>2 DEF FlowIsListed, Fq
<1>8. QueueFits'
  BY PushFits
<1> QED BY <1>4, <1>5, <1>6, <1>7, <1>8 DEF CoDelInv

LEMMA SendNowInv ==
  ASSUME CoDelInv, NEW size \in Sizes, NEW age \in Ages, SendNow(size, age)
  PROVE  CoDelInv'
<1> USE DEF SendNow
<1>1. /\ packets' \in Seq(Packet) /\ bytesInQueue' \in 0 .. Modulus - 1
      /\ Len(packets') = Len(packets) + 1
      /\ \A i \in 1 .. Len(packets') : packets'[i].created <= now
  BY PushKeeps DEF CoDelInv
<1>2. flow' \in Flows /\ (Fq => flow'.list # "none")
  BY FlowEnqueuedIsSound, FlowScheduledIsSound DEF CoDelInv
<1>3. sends' \in Nat
  BY DEF Sending, CoDelInv, TypeOK
<1>4. TypeOK'
  BY <1>1, <1>2, <1>3 DEF CoDelInv, TypeOK, Flows, Packet
<1>5. (PacketsArePast /\ AverageIsBelow /\ CallsWhenReady)'
  BY <1>1 DEF CoDelInv, PacketsArePast, AverageIsBelow, CallsWhenReady
<1>6. SendLeavesPacket'
  <2>1. Len(packets') > 0
    BY <1>1 DEF CoDelInv, TypeOK
  <2> QED BY <2>1 DEF SendLeavesPacket
<1>7. (NoDropWhenIdle /\ LifoDropsWhenIdle)'
  BY DEF CoDelInv, NoDropWhenIdle, LifoDropsWhenIdle, Lifo, Sending
<1>8. FlowIsListed'
  BY <1>2 DEF FlowIsListed, Fq
<1>9. QueueFits'
  BY PushFits
<1> QED BY <1>4, <1>5, <1>6, <1>7, <1>8, <1>9 DEF CoDelInv

LEMMA TransmitCompleteInv ==
  ASSUME CoDelInv, TransmitComplete
  PROVE  CoDelInv'
<1> USE DEF TransmitComplete
<1>1. flow' \in Flows /\ (flow.list # "none" => flow'.list # "none")
  BY FlowScheduledIsSound DEF CoDelInv, TypeOK, Flows
<1>2. TypeOK'
  BY <1>1 DEF CoDelInv, TypeOK, Flows, Packet
<1>3. (PacketsArePast /\ AverageIsBelow /\ CallsWhenReady /\ SendLeavesPacket)'
  BY DEF CoDelInv, PacketsArePast, AverageIsBelow, CallsWhenReady, SendLeavesPacket
<1>4. (NoDropWhenIdle /\ LifoDropsWhenIdle)'
  BY DEF CoDelInv, NoDropWhenIdle, LifoDropsWhenIdle, Lifo
<1>5. FlowIsListed'
  BY <1>1 DEF CoDelInv, FlowIsListed, Fq
<1>6. QueueFits'
  BY DEF CoDelInv, QueueFits
<1> QED BY <1>2, <1>3, <1>4, <1>5, <1>6 DEF CoDelInv

LEMMA FindsEmptyInv ==
  ASSUME CoDelInv, FindsEmpty
  PROVE  CoDelInv'
<1> USE DEF FindsEmpty, NoPacket
<1>1. flow' \in Flows
  BY FlowIdleIsSound DEF CoDelInv
<1>2. TypeOK'
  BY <1>1 DEF CoDelInv, TypeOK, Flows, Packet
<1>3. (PacketsArePast /\ AverageIsBelow /\ CallsWhenReady /\ SendLeavesPacket)'
  BY DEF CoDelInv, PacketsArePast, AverageIsBelow, CallsWhenReady, SendLeavesPacket
<1>4. (NoDropWhenIdle /\ LifoDropsWhenIdle)'
  BY DEF CoDelInv, NoDropWhenIdle, LifoDropsWhenIdle, SendLeavesPacket, Lifo
<1>5. FlowIsListed'
  BY DEF CoDelInv, FlowIsListed, CallsWhenReady
<1>6. QueueFits'
  BY QueueAssumption DEF CoDelInv, QueueFits
<1> QED BY <1>2, <1>3, <1>4, <1>5, <1>6 DEF CoDelInv

(* What TakesOut leaves, whatever becomes of the packet. *)
LEMMA TakesOutKeeps ==
  ASSUME CoDelInv, TakesOut
  PROVE  /\ discipline' \in Disciplines /\ discipline' = discipline
         /\ now' \in Nat /\ sends' \in Nat
         /\ packets' \in Seq(Packet) /\ bytesInQueue' \in 0 .. Modulus - 1
         /\ Len(packets') = Len(packets) - 1 /\ Len(packets') \in Nat
         /\ PacketsArePast'
         /\ firstAbove' \in Nat
<1> USE DEF TakesOut
<1>1. /\ packets' \in Seq(Packet) /\ bytesInQueue' \in 0 .. Modulus - 1
      /\ Len(packets') = Len(packets) - 1
      /\ \A i \in 1 .. Len(packets') : packets'[i].created <= now
  BY PopKeeps DEF CoDelInv
<1>2. Len(packets') \in Nat
  BY <1>1
<1>3. PacketsArePast'
  BY <1>1 DEF PacketsArePast
<1>4. firstAbove' \in Nat
  BY QueueAssumption DEF FirstAbove, CoDelInv, TypeOK
<1>5. discipline' \in Disciplines /\ now' \in Nat /\ sends' \in Nat
  BY DEF CoDelInv, TypeOK
<1> QED BY <1>1, <1>2, <1>3, <1>4, <1>5

(* A packet goes to the device. *)
LEMMA TransmitStartInv ==
  ASSUME CoDelInv, TakesOut, TransmitStart(Top),
         estimate' \in Estimates, estimate'.average <= estimate'.max,
         dropping' \in BOOLEAN, Lifo => ~ dropping', dropNext' \in Nat
  PROVE  CoDelInv'
<1> USE DEF TransmitStart
<1>1. packets # <<>> /\ Top \in Packet
  BY TopIsPacket DEF TakesOut, CoDelInv
<1>2. flow' \in Flows /\ flow'.list = flow.list
  BY <1>1, FlowServedIsSound DEF CoDelInv
<1>3. TypeOK'
  BY <1>2, TakesOutKeeps DEF CoDelInv, TypeOK, Flows, Packet, Estimates
<1>4. (PacketsArePast /\ AverageIsBelow /\ CallsWhenReady /\ SendLeavesPacket)'
  BY TakesOutKeeps DEF AverageIsBelow, CallsWhenReady, SendLeavesPacket
<1>5. (NoDropWhenIdle /\ LifoDropsWhenIdle)'
  BY TakesOutKeeps DEF CoDelInv, NoDropWhenIdle, LifoDropsWhenIdle, Lifo
<1>6. FlowIsListed'
  BY <1>2, TakesOutKeeps DEF CoDelInv, FlowIsListed, Fq, TakesOut
<1>7. QueueFits'
  <2>1. Len(packets') = Len(packets) - 1 /\ Len(packets') \in Nat
    BY TakesOutKeeps
  <2>2. Mode = "PACKETS" => Len(packets) <= MaxSize
    BY DEF CoDelInv, QueueFits
  <2>3. Len(packets) \in Nat /\ MaxSize \in Nat
    BY QueueAssumption DEF CoDelInv, TypeOK
  <2>4. Mode = "PACKETS" => Len(packets') <= MaxSize
    BY <2>1, <2>2, <2>3
  <2> QED BY <2>4 DEF QueueFits
<1> QED BY <1>3, <1>4, <1>5, <1>6, <1>7 DEF CoDelInv

LEMMA PassesInv ==
  ASSUME CoDelInv, Passes
  PROVE  CoDelInv'
<1> USE DEF Passes
<1>1. estimate' \in Estimates /\ estimate'.average <= estimate'.max
  BY TopEstimate DEF TakesOut
<1>2. dropping' \in BOOLEAN /\ dropNext' \in Nat
  BY DEF CoDelInv, TypeOK, ShouldDrop
<1>3. Lifo => ~ dropping'
  <2> SUFFICES ASSUME Lifo, dropping
               PROVE  ~ ShouldDrop(Top)
    OBVIOUS
  <2>1. call = "Send"
    BY DEF CoDelInv, LifoDropsWhenIdle, TakesOut, TypeOK
  <2> QED BY <2>1, IdleDropsNothing DEF TakesOut
<1> QED BY <1>1, <1>2, <1>3, TransmitStartInv

LEMMA BeginsDroppingInv ==
  ASSUME CoDelInv, BeginsDropping
  PROVE  CoDelInv'
<1> USE DEF BeginsDropping, NoPacket
<1>1. /\ EstimateOf(Top) \in Estimates
      /\ EstimateOf(Top).average <= EstimateOf(Top).max
      /\ Lifo => EstimateOf(Top).before = Sojourn(Top)
  BY TopEstimate DEF TakesOut
<1>2. Sojourn(Top) \in Nat
  BY TopIsPacket DEF TakesOut, CoDelInv
<1>3. /\ estimate' \in Estimates /\ estimate'.average <= estimate'.max
      /\ Lifo => estimate'.rises = 0
  <2>1. CASE Lifo
    <3>1. Sojourn(Top) <= EstimateOf(Top).before
      BY <1>1, <1>2, <2>1
    <3>2. estimate' = Estimated(EstimateOf(Top), Sojourn(Top))
      BY <2>1
    <3> QED BY <1>1, <1>2, <3>1, <3>2, EstimatedIsSound
  <2>2. CASE ~ Lifo
    BY <2>2 DEF CoDelInv, TypeOK, Estimates, AverageIsBelow
  <2> QED BY <2>1, <2>2
<1>4. Lifo => call = "TransmitComplete"
  BY IdleDropsNothing DEF TakesOut, EntersDropping, CoDelInv, TypeOK
<1>5. dropNext' \in Nat
  BY QueueAssumption DEF CoDelInv, TypeOK
<1>6. flow' \in Flows
  BY FlowIdleIsSound DEF CoDelInv
<1>7. TypeOK'
  BY <1>3, <1>5, <1>6, TakesOutKeeps DEF CoDelInv, TypeOK, Flows, Packet, Estimates
<1>8. (PacketsArePast /\ AverageIsBelow /\ CallsWhenReady /\ SendLeavesPacket)'
  BY <1>3, TakesOutKeeps DEF AverageIsBelow, CallsWhenReady, SendLeavesPacket
<1>9. (NoDropWhenIdle /\ LifoDropsWhenIdle)'
  BY <1>3, <1>4, TakesOutKeeps
  DEF CoDelInv, NoDropWhenIdle, LifoDropsWhenIdle, Lifo, CallsWhenReady
<1>10. FlowIsListed'
  BY DEF CoDelInv, FlowIsListed, CallsWhenReady, TakesOut
<1>11. QueueFits'
  <2>1. Len(packets') = Len(packets) - 1 /\ Len(packets') \in Nat
    BY TakesOutKeeps
  <2>2. Mode = "PACKETS" => Len(packets) <= MaxSize
    BY DEF CoDelInv, QueueFits
  <2>3. Len(packets) \in Nat /\ MaxSize \in Nat
    BY QueueAssumption DEF CoDelInv, TypeOK
  <2>4. Mode = "PACKETS" => Len(packets') < MaxSize
    BY <2>1, <2>2, <2>3
  <2> QED BY <2>4, <2>1, <2>3 DEF QueueFits
<1> QED BY <1>7, <1>8, <1>9, <1>10, <1>11 DEF CoDelInv

(* The loop of drops has a packet in hand, and the call goes on. *)
LEMMA LoopGoesOnInv ==
  ASSUME CoDelInv, TakesOut, ~ Lifo, looping', UNCHANGED <<flow, txState, call, crashed>>,
         looping' \in BOOLEAN, dropping' \in BOOLEAN, dropNext' \in Nat,
         estimate' \in Estimates, estimate'.average <= estimate'.max
  PROVE  CoDelInv'
<1>1. TypeOK'
  BY TakesOutKeeps DEF CoDelInv, TypeOK, Packet, Estimates
<1>2. (PacketsArePast /\ AverageIsBelow /\ CallsWhenReady /\ SendLeavesPacket)'
  BY TakesOutKeeps DEF CoDelInv, AverageIsBelow, CallsWhenReady, SendLeavesPacket
<1>3. (NoDropWhenIdle /\ LifoDropsWhenIdle)'
  BY TakesOutKeeps DEF NoDropWhenIdle, LifoDropsWhenIdle, Lifo
<1>4. FlowIsListed'
  BY TakesOutKeeps DEF CoDelInv, FlowIsListed, Fq
<1>5. QueueFits'
  <2>1. Len(packets') = Len(packets) - 1 /\ Len(packets') \in Nat
    BY TakesOutKeeps
  <2>2. Mode = "PACKETS" => Len(packets) <= MaxSize
    BY DEF CoDelInv, QueueFits
  <2>3. Len(packets) \in Nat /\ MaxSize \in Nat
    BY QueueAssumption DEF CoDelInv, TypeOK
  <2>4. call' # "none"
    BY DEF TakesOut
  <2> QED BY <2>1, <2>2, <2>3, <2>4 DEF QueueFits
<1> QED BY <1>1, <1>2, <1>3, <1>4, <1>5 DEF CoDelInv

LEMMA BeginsLoopInv ==
  ASSUME CoDelInv, BeginsLoop
  PROVE  CoDelInv'
<1> USE DEF BeginsLoop
<1>1. estimate' \in Estimates /\ estimate'.average <= estimate'.max
  BY TopEstimate DEF TakesOut
<1>2. ~ Lifo
  <2> SUFFICES ASSUME Lifo
               PROVE  ~ ShouldDrop(Top)
    OBVIOUS
  <2>1. call = "Send"
    BY DEF CoDelInv, LifoDropsWhenIdle, TakesOut, TypeOK
  <2> QED BY <2>1, IdleDropsNothing DEF TakesOut
<1>3. dropping' \in BOOLEAN /\ dropNext' \in Nat
  BY DEF CoDelInv, TypeOK
<1> QED BY <1>1, <1>2, <1>3, LoopGoesOnInv

LEMMA DropsInHandInv ==
  ASSUME CoDelInv, DropsInHand
  PROVE  CoDelInv'
<1>1. looping /\ ~ Lifo
  BY DEF DropsInHand, CoDelInv, LifoDropsWhenIdle
<1>2. CASE packets = <<>>
  <2> USE <1>2 DEF DropsInHand, NoPacket
  <2>1. flow' \in Flows
    BY FlowIdleIsSound DEF CoDelInv
  <2>2. TypeOK'
    BY <2>1 DEF CoDelInv, TypeOK, Flows, Packet
  <2>3. (PacketsArePast /\ AverageIsBelow /\ CallsWhenReady /\ SendLeavesPacket)'
    BY DEF CoDelInv, PacketsArePast, AverageIsBelow, CallsWhenReady, SendLeavesPacket
  <2>4. (NoDropWhenIdle /\ LifoDropsWhenIdle /\ FlowIsListed)'
    BY <1>1 DEF NoDropWhenIdle, LifoDropsWhenIdle, FlowIsListed, Lifo, Fq
  <2>5. QueueFits'
    BY QueueAssumption DEF CoDelInv, QueueFits
  <2> QED BY <2>2, <2>3, <2>4, <2>5 DEF CoDelInv
<1>3. CASE packets # <<>>
  <2> USE DEF DropsInHand
  <2>1. TakesOut /\ estimate' = EstimateOf(Top) /\ (DropsAndLeaves \/ DropsAndStays)
    BY <1>3
  <2>2. estimate' \in Estimates /\ estimate'.average <= estimate'.max
    BY <1>3, <2>1, TopEstimate
  <2>3. CASE DropsAndLeaves
    <3>1. dropNext' \in Nat /\ dropping' \in BOOLEAN /\ ~ dropping' /\ TransmitStart(Top)
      BY <2>3 DEF DropsAndLeaves, CoDelInv, TypeOK
    <3> QED BY <2>1, <2>2, <3>1, TransmitStartInv
  <2>4. CASE DropsAndStays
    <3>1. dropNext' \in Nat /\ dropping' \in BOOLEAN
      BY <2>4, QueueAssumption DEF DropsAndStays, CoDelInv, TypeOK
    <3>2. CASE TransmitStart(Top)
      BY <1>1, <2>1, <2>2, <3>1, <3>2, TransmitStartInv
    <3>3. CASE UNCHANGED <<looping, flow, txState, call, crashed>>
      BY <1>1, <2>1, <2>2, <3>1, <3>3, LoopGoesOnInv DEF CoDelInv, TypeOK
    <3> QED BY <2>4, <3>2, <3>3 DEF DropsAndStays
  <2> QED BY <2>1, <2>3, <2>4
<1> QED BY <1>2, <1>3

LEMMA NextInv ==
  ASSUME CoDelInv, [Next]_vars
  PROVE  CoDelInv'
<1>1. CASE \E size \in Sizes : SendRefused(size)
  BY <1>1, SendRefusedInv
<1>2. CASE \E size \in Sizes, age \in Ages : SendQueued(size, age) \/ SendNow(size, age)
  BY <1>2, SendQueuedInv, SendNowInv
<1>3. CASE TransmitComplete
  BY <1>3, TransmitCompleteInv
<1>4. CASE FindsEmpty
  BY <1>4, FindsEmptyInv
<1>5. CASE Passes
  BY <1>5, PassesInv
<1>6. CASE BeginsDropping
  BY <1>6, BeginsDroppingInv
<1>7. CASE BeginsLoop
  BY <1>7, BeginsLoopInv
<1>8. CASE DropsInHand
  BY <1>8, DropsInHandInv
<1>9. CASE Tick
  BY <1>9, TickInv
<1>10. CASE Done
  BY <1>10, DoneInv
<1>11. CASE UNCHANGED vars
  BY <1>11, StutterInv DEF vars, queueVars, deviceVars, CoDelInv, TypeOK
<1> QED BY <1>1, <1>2, <1>3, <1>4, <1>5, <1>6, <1>7, <1>8, <1>9, <1>10, <1>11 DEF Next

-----------------------------------------------------------------------------
(* The bytes in the queue are those of its packets. *)

LEMMA SizesAreCounts ==
  ASSUME TypeOK, NEW i \in 1 .. Len(packets)
  PROVE  packets[i].size \in Nat
<1>1. packets[i] \in Packet
  BY DEF TypeOK
<1>2. packets[i].size \in Sizes
  BY <1>1 DEF Packet
<1> QED BY <1>2, QueueAssumption

LEMMA PushCounts ==
  ASSUME CoDelInv, BytesCounted, NEW size \in Sizes, NEW age \in Ages, Push(size, age)
  PROVE  BytesCounted'
<1> DEFINE n == Len(packets)
<1>1. /\ n \in Nat /\ Len(packets') = n + 1 /\ size \in Int
      /\ \A i \in 1 .. n : packets'[i] = packets[i]
      /\ packets'[n + 1].size = size
  <2>1. n \in Nat /\ size \in Int
    BY QueueAssumption DEF CoDelInv, TypeOK
  <2>2. /\ Len(packets') = n + 1 /\ \A i \in 1 .. n : packets'[i] = packets[i]
        /\ packets'[Len(packets')].size = size
    BY PushKeeps DEF CoDelInv
  <2> QED BY <2>1, <2>2
<1>2. PICK total \in [0 .. n -> Int] :
        /\ total[0] = 0
        /\ \A i \in 1 .. n : total[i] = total[i - 1] + packets[i].size
        /\ SameCount(bytesInQueue, total[n])
  BY DEF BytesCounted
<1>3. bytesInQueue \in Int /\ bytesInQueue' = (bytesInQueue + size) % Modulus
  BY DEF CoDelInv, TypeOK, Push
<1> HIDE DEF n
<1> DEFINE after == [i \in 0 .. n + 1 |-> IF i = n + 1 THEN total[n] + size ELSE total[i]]
<1>4. after \in [0 .. n + 1 -> Int] /\ after[0] = 0 /\ after[n + 1] = total[n] + size
  BY <1>1, <1>2
<1>5. ASSUME NEW i \in 1 .. n + 1
      PROVE  after[i] = after[i - 1] + packets'[i].size
  <2>1. after[i - 1] = total[i - 1] /\ i - 1 \in 0 .. n
    BY <1>1
  <2>2. CASE i = n + 1
    BY <1>1, <1>4, <2>1, <2>2
  <2>3. CASE i \in 1 .. n
    <3>1. after[i] = total[i] /\ total[i] = total[i - 1] + packets[i].size
      BY <1>1, <1>2, <2>3
    <3> QED BY <1>1, <2>1, <2>3, <3>1
  <2> QED BY <1>1, <2>2, <2>3
<1>6. SameCount(bytesInQueue', total[n] + size)
  <2>1. total[n] \in Int /\ bytesInQueue + size \in Int /\ total[n] + size \in Int
    BY <1>1, <1>2, <1>3
  <2>2. SameCount(bytesInQueue + size, total[n] + size)
    BY <1>1, <1>2, <1>3, <2>1, SameAdds, SameIsReflexive
  <2> QED BY <1>3, <2>1, <2>2, RemainderIsSame, SameIsTransitive
<1> HIDE DEF after
<1>7. /\ after \in [0 .. Len(packets') -> Int] /\ after[0] = 0
      /\ \A i \in 1 .. Len(packets') : after[i] = after[i - 1] + packets'[i].size
      /\ SameCount(bytesInQueue', after[Len(packets')])
  BY <1>1, <1>4, <1>5, <1>6
<1> QED BY <1>7 DEF BytesCounted, SameCount

LEMMA PopCounts ==
  ASSUME CoDelInv, BytesCounted, packets # <<>>, Pop
  PROVE  BytesCounted'
<1> DEFINE n == Len(packets)
           k == Position
           size == Top.size
<1>1. /\ n \in Nat /\ Len(packets') = n - 1 /\ k \in 1 .. n
      /\ \A i \in 1 .. n - 1 : packets'[i] = packets[IF i < k THEN i ELSE i + 1]
      /\ packets[k].size = size
  <2>1. n \in Nat
    BY DEF CoDelInv, TypeOK
  <2>2. /\ Len(packets') = n - 1
        /\ \A i \in 1 .. Len(packets') : packets'[i] = packets[IF i < k THEN i ELSE i + 1]
    BY PopKeeps DEF CoDelInv
  <2>3. k \in 1 .. n /\ packets[k].size = size
    BY TopIsPacket DEF CoDelInv, Top
  <2> QED BY <2>1, <2>2, <2>3
<1>2. PICK total \in [0 .. n -> Int] :
        /\ total[0] = 0
        /\ \A i \in 1 .. n : total[i] = total[i - 1] + packets[i].size
        /\ SameCount(bytesInQueue, total[n])
  BY DEF BytesCounted
<1>3. /\ size \in Int /\ bytesInQueue \in Int
      /\ bytesInQueue' = (bytesInQueue - size) % Modulus
  <2>1. size \in Nat
    BY <1>1, SizesAreCounts DEF CoDelInv, Top
  <2> QED BY <2>1, QueueAssumption DEF CoDelInv, TypeOK, Pop
<1>4. \A i \in 1 .. n : packets[i].size \in Int
  BY SizesAreCounts DEF CoDelInv
<1> HIDE DEF n, k, size
<1> DEFINE after == [i \in 0 .. n - 1 |-> IF i < k THEN total[i] ELSE total[i + 1] - size]
<1>5. /\ after \in [0 .. n - 1 -> Int] /\ after[0] = 0
      /\ after[n - 1] = total[n] - size
  <2>0. n - 1 \in Nat /\ n - 1 \in 0 .. n /\ n \in 0 .. n /\ n \in 1 .. n
    BY <1>1
  <2>1. ASSUME NEW i \in 0 .. n - 1
        PROVE  total[i] \in Int /\ total[i + 1] - size \in Int
    <3>1. i \in 0 .. n /\ i + 1 \in 0 .. n
      BY <1>1
    <3>2. total[i] \in Int /\ total[i + 1] \in Int
      BY <1>2, <3>1
    <3> QED BY <1>3, <3>2
  <2>2. k = n => total[n - 1] = total[n] - size
    <3>1. total[n] = total[n - 1] + packets[n].size
      BY <1>2, <2>0
    <3> QED BY <1>1, <1>2, <1>3, <2>0, <3>1
  <2>3. after \in [0 .. n - 1 -> Int]
    BY <2>1
  <2>4. after[0] = 0
    BY <1>1, <1>2, <2>0
  <2>5. after[n - 1] = total[n] - size
    <3>1. n - 1 < k => k = n
      BY <1>1
    <3>2. (n - 1) + 1 = n
      BY <1>1
    <3> QED BY <2>0, <2>2, <3>1, <3>2
  <2> QED BY <2>3, <2>4, <2>5
<1>6. ASSUME NEW i \in 1 .. n - 1
      PROVE  after[i] = after[i - 1] + packets'[i].size
  <2>1. /\ i - 1 \in 0 .. n - 1 /\ i \in 1 .. n /\ i + 1 \in 1 .. n
        /\ (i + 1) - 1 = i /\ (i - 1) + 1 = i
    BY <1>1
  <2>2. /\ total[i - 1] \in Int /\ total[i] \in Int
        /\ total[i] = total[i - 1] + packets[i].size
        /\ total[i + 1] = total[i] + packets[i + 1].size
    <3>1. i - 1 \in 0 .. n /\ i \in 0 .. n
      BY <1>1
    <3> QED BY <1>2, <2>1, <3>1
  <2>3. packets[i].size \in Int /\ packets[i + 1].size \in Int
    BY <1>4, <2>1
  <2>4. /\ after[i] = IF i < k THEN total[i] ELSE total[i + 1] - size
        /\ after[i - 1] = IF i - 1 < k THEN total[i - 1] ELSE total[i] - size
        /\ packets'[i] = packets[IF i < k THEN i ELSE i + 1]
    BY <1>1, <2>1
  <2>5. i - 1 < k <=> i < k \/ i = k
    BY <1>1
  <2> HIDE DEF after
  <2>6. CASE i < k
    BY <2>2, <2>4, <2>5, <2>6
  <2>7. CASE i = k
    <3>1. ~ i < k
      BY <1>1, <2>7
    <3>2. packets[i].size = size
      BY <1>1, <2>7
    <3>3. /\ after[i] = total[i + 1] - size /\ after[i - 1] = total[i - 1]
          /\ packets'[i] = packets[i + 1]
      BY <2>4, <2>5, <2>7, <3>1
    <3>4. /\ packets[i].size \in Int /\ packets[i + 1].size \in Int /\ size \in Int
          /\ total[i + 1] = total[i - 1] + size + packets[i + 1].size
      BY <1>3, <2>2, <2>3, <3>2
    <3> QED BY <2>2, <3>3, <3>4
  <2>8. CASE ~ i < k /\ i # k
    BY <1>3, <2>2, <2>3, <2>4, <2>5, <2>8
  <2> QED BY <2>6, <2>7, <2>8
<1>7. SameCount(bytesInQueue', total[n] - size)
  <2>1. total[n] \in Int /\ bytesInQueue - size \in Int /\ total[n] - size \in Int
        /\ -size \in Int
    BY <1>1, <1>2, <1>3
  <2>2. SameCount(bytesInQueue - size, total[n] - size)
    <3>1. SameCount(bytesInQueue + (-size), total[n] + (-size))
      BY <1>2, <1>3, <2>1, SameAdds
    <3> QED BY <1>3, <2>1, <3>1
  <2> QED BY <1>3, <2>1, <2>2, RemainderIsSame, SameIsTransitive
<1> HIDE DEF after
<1>8. /\ after \in [0 .. Len(packets') -> Int] /\ after[0] = 0
      /\ \A i \in 1 .. Len(packets') : after[i] = after[i - 1] + packets'[i].size
      /\ SameCount(bytesInQueue', after[Len(packets')])
  BY <1>1, <1>5, <1>6, <1>7
<1> QED BY <1>8 DEF BytesCounted, SameCount

LEMMA NextCounts ==
  ASSUME CoDelInv, BytesCounted, [Next]_vars
  PROVE  BytesCounted'
<1>1. CASE UNCHANGED <<packets, bytesInQueue>>
  BY <1>1 DEF BytesCounted, SameCount
<1>2. CASE \E size \in Sizes, age \in Ages : Push(size, age)
  BY <1>2, PushCounts
<1>3. CASE TakesOut
  BY <1>3, PopCounts DEF TakesOut
<1>4. CASE \E size \in Sizes : SendRefused(size)
  BY <1>1, <1>4 DEF SendRefused, queueVars
<1>5. CASE \E size \in Sizes, age \in Ages : SendQueued(size, age) \/ SendNow(size, age)
  BY <1>2, <1>5 DEF SendQueued, SendNow
<1>6. CASE TransmitComplete \/ FindsEmpty
  BY <1>1, <1>6 DEF TransmitComplete, FindsEmpty
<1>7. CASE Passes \/ BeginsDropping \/ BeginsLoop
  BY <1>3, <1>7 DEF Passes, BeginsDropping, BeginsLoop
<1>8. CASE DropsInHand
  BY <1>1, <1>3, <1>8 DEF DropsInHand
<1>9. CASE Tick \/ Done \/ UNCHANGED vars
  BY <1>1, <1>9 DEF Tick, Done, vars, queueVars
<1> QED BY <1>4, <1>5, <1>6, <1>7, <1>8, <1>9 DEF Next

(* The packet that is dropped first leaves MinBytes behind. *)
LEMMA BeginningLeavesPackets ==
  ASSUME CoDelInv, BytesCounted, BytesCounted', BeginsDropping, ~ Fq, MinBytes > 0
  PROVE  packets' # <<>>
<1>1. ~ bytesInQueue' < MinBytes
  BY DEF BeginsDropping, EntersDropping, ShouldDrop, Below, Backlog
<1>2. bytesInQueue' \in 0 .. Modulus - 1 /\ bytesInQueue' # 0
  BY <1>1, TakesOutKeeps, QueueAssumption DEF BeginsDropping
<1> SUFFICES ASSUME packets' = <<>>
             PROVE  bytesInQueue' = 0
  BY <1>2
<1>3. Len(packets') = 0
  OBVIOUS
<1>4. SameCount(bytesInQueue', 0)
  BY <1>3 DEF BytesCounted, SameCount
<1> QED BY <1>2, <1>4, CountOfNone

LEMMA DroppingBegins ==
  ASSUME CoDelInv, [Next]_vars, dropping', ~ dropping
  PROVE  BeginsDropping
<1>1. ~ (\E size \in Sizes : SendRefused(size))
  BY DEF SendRefused, queueVars
<1>2. ~ (\E size \in Sizes, age \in Ages : SendQueued(size, age) \/ SendNow(size, age))
  BY DEF SendQueued, SendNow
<1>3. ~ TransmitComplete /\ ~ FindsEmpty
  BY DEF TransmitComplete, FindsEmpty
<1>4. ~ Passes /\ ~ BeginsLoop
  BY DEF Passes, BeginsLoop
<1>5. ~ DropsInHand
  BY DEF DropsInHand, DropsAndLeaves, DropsAndStays
<1>6. ~ Tick /\ ~ Done /\ ~ UNCHANGED vars
  BY DEF Tick, Done, vars, queueVars
<1> QED BY <1>1, <1>2, <1>3, <1>4, <1>5, <1>6 DEF Next

-----------------------------------------------------------------------------
(* The theorems. *)

(* The inductive invariant holds of every behaviour of the queues and the  *)
(* device, from Send, TransmitComplete and the steps of DoDequeue.         *)
THEOREM CoDelInvariance == Spec => []CoDelInv
<1>1. Init => CoDelInv
  BY InitInv
<1>2. CoDelInv /\ [Next]_vars => CoDelInv'
  BY NextInv
<1> QED BY <1>1, <1>2, PTL DEF Spec

(* The counts stay counts: no average, teta or time is negative or         *)
(* undefined, and the bytes wrap at the modulus.                           *)
THEOREM CoDelTypes == Spec => []TypeOK
<1>1. CoDelInv => TypeOK
  BY DEF CoDelInv
<1> QED BY <1>1, CoDelInvariance, PTL

(* With CoDelQueueLifo, alone or in Fq_CoDelQueue, Send's Dequeue always   *)
(* returns a packet: the dereference in line 545 of the device is safe.    *)
THEOREM LifoSendFindsPacket == Spec => []SendFindsPacket
<1>1. CoDelInv => SendFindsPacket
  BY DEF CoDelInv, LifoDropsWhenIdle, SendFindsPacket
<1> QED BY <1>1, CoDelInvariance, PTL

(* CoDelQueueLifo's loop of drops and its control law are never reached.   *)
THEOREM LifoNeverLoops == Spec => []LoopIsFifo
<1>1. CoDelInv => LoopIsFifo
  BY DEF CoDelInv, LifoDropsWhenIdle, LoopIsFifo
<1> QED BY <1>1, CoDelInvariance, PTL

(* An idle device's queue is never full (in packet mode): packets left     *)
(* behind by a drop cannot lock the device up.                             *)
THEOREM IdleDeviceHasRoom == Spec => []IdleHasRoom
<1>1. CoDelInv => IdleHasRoom
  BY DEF CoDelInv, QueueFits, IdleHasRoom, Idle
<1> QED BY <1>1, CoDelInvariance, PTL

(* Fq_CoDelQueue finds its flow whenever the device comes back for more.   *)
THEOREM BusyFlowIsListed == Spec => []FlowIsListed
<1>1. CoDelInv => FlowIsListed
  BY DEF CoDelInv
<1> QED BY <1>1, CoDelInvariance, PTL

(* m_bytesInQueue counts the packets that are in the queue, whatever       *)
(* enqueues, sends and drops came before: none is counted twice or missed. *)
THEOREM QueueBytesAreCounted == Spec => []BytesCounted
<1>1. Init => BytesCounted
  <2> SUFFICES ASSUME Init
               PROVE  BytesCounted
    OBVIOUS
  <2>1. Len(packets) = 0 /\ bytesInQueue = 0
    BY DEF Init
  <2>2. SameCount(0, 0)
    BY SameIsReflexive
  <2> DEFINE total == [i \in 0 .. 0 |-> 0]
  <2>3. total \in [0 .. 0 -> Int] /\ total[0] = 0
    OBVIOUS
  <2> HIDE DEF total
  <2>4. 1 .. 0 = {}
    OBVIOUS
  <2> QED BY <2>1, <2>2, <2>3, <2>4 DEF BytesCounted
<1>2. CoDelInv /\ BytesCounted /\ [Next]_vars => BytesCounted'
  BY NextCounts
<1> QED BY <1>1, <1>2, CoDelInvariance, PTL DEF Spec

(* The drop that begins the dropping state leaves at least one packet in   *)
(* the queue of CoDelQueue and CoDelQueueLifo, so an empty answer of       *)
(* Dequeue then does not mean an empty queue.                              *)
THEOREM FirstDropLeavesPackets == Spec => DropLeavesPackets
<1>1. CoDelInv /\ BytesCounted /\ BytesCounted' /\ [Next]_vars =>
        [~ Fq /\ MinBytes > 0 /\ dropping' /\ ~ dropping => packets' # <<>>]_vars
  BY DroppingBegins, BeginningLeavesPackets
<1> QED BY <1>1, CoDelInvariance, QueueBytesAreCounted, PTL DEF Spec, DropLeavesPackets
=============================================================================
