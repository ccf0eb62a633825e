SPECIFICATION Spec
CONSTANTS
  Disciplines = {"CoDelQueue", "CoDelQueueLifo", "Fq_CoDelQueue"}
  Sizes = {1}
  Ages = {0, 3, 6}
  Mode = "PACKETS"
  MaxSize = 3
  MinBytes = 1
  Target = 1
  Interval = 1
  ControlDelays = {0, 1}
  Quantum = 1
  Modulus = 12
  UninitBacklogs = {8}
  MaxSends = 6
  Horizon = 3
INVARIANT TypeOK
INVARIANT SendFindsPacket
INVARIANT IdleHasRoom
INVARIANT LoopIsFifo
INVARIANT FlowIsListed
PROPERTY DropLeavesPackets
