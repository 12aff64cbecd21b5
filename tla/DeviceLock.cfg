CONSTANTS
  Users = {u1}
  Addresses = {a1}
  Keys = {k1}
  Endpoints = {e1}
  Mfas = {m1}
  Nodes = {n1}
  Sessions = {s1}
  Self = n1
  Unset = unset
  NoNode = noNode
  NoEndpoint = noEndpoint
  Absent = absent
  Lockout = 2
SPECIFICATION Spec
PROPERTY LockedDeviceStaysLocked
