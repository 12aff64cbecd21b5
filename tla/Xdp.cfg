CONSTANTS
  MaxPolicies = 3
  Protocols = {6, 17}
  Ports = {1, 2}
SPECIFICATION MCFairSpec
INVARIANTS TypeOK PassJustified DropJustified
PROPERTY PacketDecided
CHECK_DEADLOCK FALSE
