SPECIFICATION Spec
CONSTANTS
  Disciplines = {"CoDelQueueLifo"}
  Sizes = {1}
  Ages = {0}
  Mode = "PACKETS"
  MaxSize = 4
  MinBytes = 1
  Target = 1
  Interval = 1
  ControlDelays = {0, 1}
  Quantum = 2
  Modulus = 64
  UninitBacklogs = {0}
  MaxSends = 5
  Horizon = 5
INVARIANT IdleIsEmpty
