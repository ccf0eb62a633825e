----------------------------- MODULE CoDelDevice -----------------------------
(***************************************************************************)
(* A PointToPointNetDevice that sends from one of the CoDel queues.  The   *)
(* device takes a packet out when one is sent while it is idle and when it *)
(* has transmitted the last one; it does nothing else to find out whether  *)
(* packets wait.  How long a transmission takes is left open.              *)
(*                                                                         *)
(* An action is a call of the device; the DoDequeue in it runs in steps    *)
(* (call is not "none"), and nothing else happens until it has returned.   *)
(***************************************************************************)
EXTENDS CoDelQueue

CONSTANTS
  UninitBacklogs,   \* what the uninitialized Fq_CoDelQueue::backlog may hold
  MaxSends,         \* bound: packets sent
  Horizon           \* bound: time

ASSUME DeviceAssumption ==
  /\ UninitBacklogs \subseteq 0 .. Modulus - 1
  /\ MaxSends \in Nat /\ Horizon \in Nat

VARIABLES
  txState,   \* m_txMachineState
  call,      \* which function of the device waits for Dequeue
  looping,   \* DoDequeue is in its loop of drops, a packet in hand
  crashed,   \* Send has got no packet and dereferences a null pointer
  sends      \* packets sent so far

queueVars == <<packets, bytesInQueue, dropping, firstAbove, dropNext, estimate, flow>>
deviceVars == <<txState, call, looping, crashed>>
vars == <<discipline, now, queueVars, deviceVars, sends>>

Idle == txState = "READY" /\ call = "none" /\ ~ crashed

Init ==
  /\ discipline \in Disciplines
  /\ now = 0
  /\ packets = <<>> /\ bytesInQueue = 0
  /\ dropping = FALSE /\ firstAbove = 0 /\ dropNext = 0
  /\ estimate = [before |-> 0, rises |-> 0, max |-> 0, number |-> 0, average |-> 0,
                 teta |-> 0]
  /\ flow \in [list : {"none"}, deficit : {0}, backlog : UninitBacklogs]
  /\ txState = "READY" /\ call = "none" /\ looping = FALSE /\ crashed = FALSE
  /\ sends = 0

-----------------------------------------------------------------------------
(* The device. *)

Sending == call = "none" /\ ~ crashed /\ sends < MaxSends /\ sends' = sends + 1

(* A full queue refuses, whether or not the device is idle. *)
SendRefused(size) ==
  /\ Sending
  /\ Full(size)
  /\ UNCHANGED <<discipline, now, queueVars, deviceVars>>

SendQueued(size, age) ==
  /\ Sending
  /\ ~ Full(size)
  /\ txState = "BUSY"
  /\ Push(size, age)
  /\ flow' = FlowEnqueued(size)
  /\ UNCHANGED <<discipline, now, dropping, firstAbove, dropNext, estimate, deviceVars>>

SendNow(size, age) ==
  /\ Sending
  /\ ~ Full(size)
  /\ txState = "READY"
  /\ Push(size, age)
  /\ flow' = FlowScheduled(FlowEnqueued(size))
  /\ call' = "Send"
  /\ UNCHANGED <<discipline, now, dropping, firstAbove, dropNext, estimate, txState,
                 looping, crashed>>

TransmitComplete ==
  /\ call = "none"
  /\ txState = "BUSY"
  /\ txState' = "READY"
  /\ call' = "TransmitComplete"
  /\ flow' = FlowScheduled(flow)
  /\ UNCHANGED <<discipline, now, packets, bytesInQueue, dropping, firstAbove, dropNext,
                 estimate, looping, crashed, sends>>

(* Dequeue returns a packet, and TransmitStart sends it. *)
TransmitStart(p) ==
  /\ txState' = "BUSY"
  /\ call' = "none"
  /\ looping' = FALSE
  /\ flow' = FlowServed(p)
  /\ UNCHANGED crashed

(* Dequeue returns 0.  TransmitComplete takes that for an empty queue;     *)
(* Send does not expect it.                                                *)
NoPacket ==
  /\ crashed' = (call = "Send")
  /\ call' = "none"
  /\ looping' = FALSE
  /\ flow' = FlowIdle
  /\ UNCHANGED txState

-----------------------------------------------------------------------------
(* The steps of DoDequeue. *)

FindsEmpty ==
  /\ call # "none" /\ ~ looping
  /\ packets = <<>>
  /\ dropping' = FALSE
  /\ firstAbove' = 0
  /\ NoPacket
  /\ UNCHANGED <<discipline, now, packets, bytesInQueue, dropNext, estimate, sends>>

(* A packet is taken out and goes through ShouldDrop. *)
TakesOut ==
  /\ call # "none"
  /\ packets # <<>>
  /\ Pop
  /\ firstAbove' = FirstAbove(Top)
  /\ UNCHANGED <<discipline, now, sends>>

(* It is sent: it should not be dropped, or it is not yet time to. *)
Passes ==
  /\ TakesOut
  /\ ~ looping
  /\ ~ EntersDropping(Top)
  /\ ~ (dropping /\ ShouldDrop(Top) /\ now >= dropNext)
  /\ dropping' = (dropping /\ ShouldDrop(Top))
  /\ estimate' = EstimateOf(Top)
  /\ TransmitStart(Top)
  /\ UNCHANGED dropNext

(* Wrong variant of BeginsDropping: the second ShouldDrop, whose result    *)
(* nobody reads, is left out.                                              *)
BeginsDroppingOnce ==
  /\ TakesOut
  /\ ~ looping
  /\ EntersDropping(Top)
  /\ dropping' = TRUE
  /\ \E d \in ControlDelays : dropNext' = now + d
  /\ estimate' = EstimateOf(Top)
  /\ NoPacket

(* It is dropped and the dropping state begins.  ShouldDrop is called      *)
(* again for the same packet, and nothing is returned in its place.        *)
BeginsDropping ==
  /\ TakesOut
  /\ ~ looping
  /\ EntersDropping(Top)
  /\ dropping' = TRUE
  /\ \E d \in ControlDelays : dropNext' = now + d
  /\ estimate' = IF Lifo THEN Estimated(EstimateOf(Top), Sojourn(Top)) ELSE estimate
  /\ NoPacket

(* In the dropping state it is time for the next drop. *)
BeginsLoop ==
  /\ TakesOut
  /\ ~ looping
  /\ dropping /\ ShouldDrop(Top) /\ now >= dropNext
  /\ estimate' = EstimateOf(Top)
  /\ looping' = TRUE
  /\ UNCHANGED <<dropping, dropNext, flow, txState, call, crashed>>

(* The next packet ends the dropping state, or it is to be dropped, too,   *)
(* in the next turn of the loop if it is time to.                          *)
DropsAndLeaves ==
  /\ ~ ShouldDrop(Top)
  /\ dropping' = FALSE
  /\ TransmitStart(Top)
  /\ UNCHANGED dropNext

DropsAndStays ==
  /\ ShouldDrop(Top)
  /\ \E d \in ControlDelays : dropNext' = dropNext + d
  /\ IF DropsNext(dropNext', estimate')
     THEN UNCHANGED <<looping, flow, txState, call, crashed>>
     ELSE TransmitStart(Top)
  /\ UNCHANGED dropping

(* The packet in hand is dropped.  If none is left the dropping state is   *)
(* over; MinBytes keeps that from happening (see DropLeavesPackets).       *)
DropsInHand ==
  /\ looping
  /\ IF packets = <<>>
     THEN /\ dropping' = FALSE
          /\ NoPacket
          /\ UNCHANGED <<discipline, now, packets, bytesInQueue, firstAbove, dropNext,
                         estimate, sends>>
     ELSE /\ TakesOut
          /\ estimate' = EstimateOf(Top)
          /\ DropsAndLeaves \/ DropsAndStays

-----------------------------------------------------------------------------
Tick ==
  /\ call = "none" /\ ~ crashed
  /\ now < Horizon
  /\ now' = now + 1
  /\ UNCHANGED <<discipline, queueVars, deviceVars, sends>>

(* The run is over or the program has crashed. *)
Done ==
  /\ crashed \/ (Idle /\ sends = MaxSends /\ now = Horizon)
  /\ UNCHANGED vars

Next ==
  \/ \E size \in Sizes : SendRefused(size)
  \/ \E size \in Sizes, age \in Ages : SendQueued(size, age) \/ SendNow(size, age)
  \/ TransmitComplete
  \/ FindsEmpty \/ Passes \/ BeginsDropping \/ BeginsLoop \/ DropsInHand
  \/ Tick \/ Done

Spec == Init /\ [][Next]_vars

-----------------------------------------------------------------------------
TypeOK ==
  /\ discipline \in Disciplines
  /\ now \in Nat
  /\ packets \in Seq(Packet) /\ bytesInQueue \in 0 .. Modulus - 1
  /\ dropping \in BOOLEAN /\ firstAbove \in Nat /\ dropNext \in Nat
  /\ estimate \in [before : Nat, rises : Nat, max : Nat, number : Nat, average : Nat,
                   teta : Nat]
  /\ flow \in [list : {"none", "new", "old"}, deficit : Int, backlog : 0 .. Modulus - 1]
  /\ txState \in {"READY", "BUSY"}
  /\ call \in {"none", "Send", "TransmitComplete"}
  /\ looping \in BOOLEAN /\ crashed \in BOOLEAN
  /\ sends \in Nat

(* CoDelQueueLifo always has a packet for Send: the one just enqueued, or  *)
(* whichever is on top, is never dropped when the device was idle.  Send   *)
(* (line 545) uses the packet without a look.  With CoDelQueue it may get  *)
(* a null pointer: packets that a drop has left behind are taken first.    *)
SendFindsPacket == Lifo => ~ crashed

(* An idle device accepts a packet (in packet mode), although packets may  *)
(* have been left behind in its queue: were it full, Send would refuse all *)
(* packets from then on and nothing would take one out.                    *)
IdleHasRoom == Mode = "PACKETS" /\ MaxSize > 0 /\ Idle => Len(packets) < MaxSize

(* CoDelQueueLifo's dropping state lasts only while the device is idle: it *)
(* begins with a drop that leaves the device without a packet, and the     *)
(* next packet ends it.  So its loop of drops, with the control law, is    *)
(* never run.                                                              *)
LoopIsFifo == Lifo => ~ looping /\ (dropping => txState = "READY")

(* The drop that begins the dropping state leaves a packet in the queue,   *)
(* because the backlog it is judged by does not fall short of MinBytes, so *)
(* that the device, which gets no packet, falls idle before a queue that   *)
(* is not empty.  Fq_CoDelQueue may drop the last packet: its backlog      *)
(* still counts those that were dropped before.                            *)
DropLeavesPackets ==
  [][~ Fq /\ MinBytes > 0 /\ dropping' /\ ~ dropping => packets' # <<>>]_vars

(* The flow is in a list whenever the device may come back for a packet;   *)
(* it leaves the lists with packets in its queue when CoDel drops one.     *)
FlowIsListed == Fq /\ (txState = "BUSY" \/ call # "none") => flow.list # "none"

(* "No packet was on the queue, so we just exit" (line 286): a device that *)
(* falls idle has sent everything.  It does not hold: CoDel may drop one   *)
(* packet and return none with others in the queue.                        *)
IdleIsEmpty == Idle => packets = <<>>
=============================================================================
