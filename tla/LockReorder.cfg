CONSTANTS
  Users = {u1}
  Addresses = {a1}
  Keys = {k1}
  Endpoints = {e1}
  Mfas = {m1}
  Nodes = {n1}
  Acls = {acl1}
  Self = n1
  Unset = unset
  NoNode = noNode
  NoEndpoint = noEndpoint
  NoAddress = noAddress
  Absent = absent
  Lockout = 1
  MaxPending = 3
  Workloads = {{"lock", "login"}}
SPECIFICATION Spec
INVARIANT AccountLockHolds
