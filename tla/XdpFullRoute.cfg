CONSTANTS
  MaxPolicies = 2
  Protocols = {6, 17}
  Ports = {1, 2}
SPECIFICATION MCSpec
INVARIANT DropJustifiedWhenFull
CHECK_DEADLOCK FALSE
