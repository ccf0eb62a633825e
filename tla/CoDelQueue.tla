------------------------------ MODULE CoDelQueue ------------------------------
(***************************************************************************)
(* The CoDel queues of src/network/utils: CoDelQueue, first in first out,  *)
(* and CoDelQueueLifo, which the experiments compare it with: last in      *)
(* first out, and with an estimate of the delay (teta) in the place of     *)
(* CoDel's interval.  Fq_CoDelQueue puts a round robin over flows before   *)
(* CoDelQueueLifo; its hash function always returns 0, so there is one     *)
(* flow.                                                                   *)
(*                                                                         *)
(* This module is the queue; CoDelDevice adds the device that sends from   *)
(* it.  The control law's square root is a choice: it returns any of       *)
(* ControlDelays.  Time is that of codel_time_t.                           *)
(***************************************************************************)
EXTENDS Integers, Sequences

CONSTANTS
  Disciplines,     \* the queues to look at, a subset of AllDisciplines
  Sizes,           \* sizes of packets
  Ages,            \* what the first tag of an arriving packet says of its age
  Mode,            \* "PACKETS" or "BYTES", the unit of MaxSize
  MaxSize,         \* MaxPackets or MaxBytes
  MinBytes,
  Target,
  Interval,
  ControlDelays,   \* what ControlLaw adds
  Quantum,         \* of Fq_CoDelQueue
  Modulus          \* stands for 2^32

AllDisciplines == {"CoDelQueue", "CoDelQueueLifo", "Fq_CoDelQueue"}

ASSUME QueueAssumption ==
  /\ Disciplines \subseteq AllDisciplines
  /\ Sizes \subseteq Nat \ {0}
  /\ Ages \subseteq Nat /\ 0 \in Ages
  /\ Mode \in {"PACKETS", "BYTES"}
  /\ MaxSize \in Nat /\ MinBytes \in Nat
  /\ Target \in Nat \ {0} /\ Interval \in Nat \ {0} /\ Quantum \in Nat \ {0}
  /\ ControlDelays \subseteq 0 .. Interval
  /\ Modulus \in Nat \ {0}

VARIABLES
  discipline,     \* which queue it is
  now,
  packets,        \* m_packets, in the order of arrival
  bytesInQueue,   \* m_bytesInQueue
  dropping,       \* m_dropping
  firstAbove,     \* m_first_above_time, 0 for none
  dropNext,       \* m_drop_next
  estimate,       \* CoDelQueueLifo's t_before, ct_tmax, t_max, ct_npkt, t_average, teta
  flow            \* Fq_CoDelQueue: the flow's list and deficit, and the backlog

Packet == [size : Sizes, created : Int]

Lifo == discipline # "CoDelQueue"
Fq == discipline = "Fq_CoDelQueue"

Larger(a, b) == IF a > b THEN a ELSE b

-----------------------------------------------------------------------------
(* DoEnqueue. *)

(* Wrong variant of Full: one packet or byte too many. *)
FullLate(size) ==
  IF Mode = "PACKETS" THEN Len(packets) > MaxSize ELSE bytesInQueue + size > MaxSize

Full(size) ==
  IF Mode = "PACKETS" THEN Len(packets) >= MaxSize ELSE bytesInQueue + size >= MaxSize

(* Wrong variant of FlowEnqueued: the flow joins the new ones when nothing *)
(* is in its backlog, which drops are never taken off.                     *)
FlowEnqueuedEmpty(size) ==
  IF Fq
  THEN [list    |-> IF flow.backlog = 0 THEN "new" ELSE flow.list,
        deficit |-> IF flow.backlog = 0 THEN Quantum ELSE flow.deficit,
        backlog |-> (flow.backlog + size) % Modulus]
  ELSE flow

(* A flow that is in no list joins the new ones with a full quantum.       *)
FlowEnqueued(size) ==
  IF Fq
  THEN [list    |-> IF flow.list = "none" THEN "new" ELSE flow.list,
        deficit |-> IF flow.list = "none" THEN Quantum ELSE flow.deficit,
        backlog |-> (flow.backlog + size) % Modulus]
  ELSE flow

(* The tag that is read later is the first one, so a packet that has been  *)
(* in a CoDel queue on its way counts from there.                          *)
Push(size, age) ==
  /\ packets' = Append(packets, [size |-> size, created |-> now - age])
  /\ bytesInQueue' = (bytesInQueue + size) % Modulus

-----------------------------------------------------------------------------
(* DoDequeue. *)

(* Fq_CoDelQueue gives the flow a quantum, as often as it takes for its    *)
(* deficit to be positive, and moves it to the old flows.                  *)
FlowScheduled(f) ==
  IF Fq /\ f.list # "none" /\ f.deficit <= 0
  THEN [f EXCEPT !.list = "old",
                 !.deficit = @ + Quantum * ((Quantum - @) \div Quantum)]
  ELSE f

(* A flow that gives no packet leaves the lists. *)
FlowIdle == IF Fq THEN [flow EXCEPT !.list = "none"] ELSE flow

(* Wrong variant of FlowServed: the backlog does not wrap. *)
FlowServedPlain(p) ==
  IF Fq THEN [flow EXCEPT !.deficit = @ - p.size, !.backlog = @ - p.size] ELSE flow

FlowServed(p) ==
  IF Fq THEN [flow EXCEPT !.deficit = @ - p.size,
                          !.backlog = (@ - p.size) % Modulus]
        ELSE flow

Position == IF Lifo THEN Len(packets) ELSE 1

Top == packets[Position]

Pop ==
  /\ packets' = SubSeq(packets, 1, Position - 1) \o SubSeq(packets, Position + 1, Len(packets))
  /\ bytesInQueue' = (bytesInQueue - Top.size) % Modulus

(* *backlog: the queue's own bytes, or all those of Fq_CoDelQueue, where   *)
(* the packet in question still counts.                                    *)
Backlog == IF Fq THEN flow.backlog ELSE bytesInQueue'

(* The first part of CoDelQueueLifo::ShouldDrop: how often the delay rose  *)
(* in a row, and the relation of its maximum to its average.               *)
Estimated(e, sojourn) ==
  LET max == Larger(e.max, sojourn)
      average == ((e.average * e.number + sojourn) % Modulus) \div (e.number + 1)
  IN [before |-> sojourn, rises |-> IF sojourn > e.before THEN e.rises + 1 ELSE 0,
      max |-> max, number |-> e.number + 1, average |-> average,
      teta |-> (max + 1) \div (average + 1)]

Sojourn(p) == now - p.created

EstimateOf(p) == IF Lifo THEN Estimated(estimate, Sojourn(p)) ELSE estimate

(* Wrong variant of Below: the last bytes may be dropped, too. *)
BelowTarget(p) == Sojourn(p) < Target

(* Below target, or too little to bother. *)
Below(p) == Sojourn(p) < Target \/ Backlog < MinBytes

(* The verdict of ShouldDrop on the packet that was just taken out, and    *)
(* what it leaves in m_first_above_time.                                   *)
ShouldDrop(p) ==
  /\ ~ Below(p)
  /\ firstAbove # 0
  /\ IF Lifo THEN EstimateOf(p).rises > EstimateOf(p).teta ELSE now > firstAbove

FirstAbove(p) ==
  IF Below(p) THEN 0 ELSE IF firstAbove = 0 THEN now + Interval ELSE firstAbove

(* The dropping state begins soon after the last one or when the delay has *)
(* been above target for an interval.                                      *)
EntersDropping(p) ==
  /\ ShouldDrop(p)
  /\ ~ dropping
  /\ now - dropNext < Interval \/ now - firstAbove >= Interval

(* The condition of the loop of drops, after the packet's ShouldDrop.      *)
DropsNext(next, e) == now >= next \/ (Lifo /\ e.rises > e.teta)
=============================================================================
