----------------------------- MODULE MpTcpPaths -----------------------------
(***************************************************************************)
(* The network between the two ends of an MPTCP connection: one path per   *)
(* sub-flow, with data segments going one way and acknowledgements coming  *)
(* back.  It is a net device queue that drops what finds it full, and      *)
(* links that lose packets.  A DropTailQueue keeps the order of packets;   *)
(* a CoDelQueueLifo (one per slot of Fq_CoDelQueue) hands out the youngest *)
(* packet first, and over several such hops any order is possible.         *)
(***************************************************************************)
EXTENDS Integers, Sequences, SequencesExt

CONSTANTS
  MaxSubflows,  \* subflows.size(): the number of sub-flows
  QueueLimit,   \* m_maxPackets of a path's queue
  Reorder       \* TRUE if the queues of the paths are CoDelQueueLifo

ASSUME PathAssumption ==
  /\ MaxSubflows \in Nat \ {0}
  /\ QueueLimit \in Nat \ {0}
  /\ Reorder \in BOOLEAN

Subflows == 0 .. MaxSubflows - 1

VARIABLES
  dataPath,     \* dataPath[s]: the segments in transit on sub-flow s
  ackPath       \* ackPath[s]: the acknowledgement numbers in transit back

pathVars == <<dataPath, ackPath>>

PathInit ==
  /\ dataPath = [s \in Subflows |-> << >>]
  /\ ackPath  = [s \in Subflows |-> << >>]

(* A full queue drops the packet that arrives. *)
Enqueue(queue, packet) ==
  IF Len(queue) < QueueLimit THEN Append(queue, packet) ELSE queue

(* The positions from which a packet may leave the path next. *)
Leaving(queue) ==
  {i \in 1 .. Len(queue) : Reorder \/ i = 1}

LoseData(s) ==
  \E i \in Leaving(dataPath[s]) :
    /\ dataPath' = [dataPath EXCEPT ![s] = RemoveAt(@, i)]
    /\ UNCHANGED ackPath

LoseAck(s) ==
  \E i \in Leaving(ackPath[s]) :
    /\ ackPath' = [ackPath EXCEPT ![s] = RemoveAt(@, i)]
    /\ UNCHANGED dataPath
=============================================================================
