CONSTANTS
  Users = {u1, u2}
  Addresses = {a1, a2}
  Keys = {k1, k2}
  Endpoints = {e1}
  Mfas = {m1}
  Nodes = {n1}
  Acls = {acl1}
  Unset = unset
  NoNode = noNode
  NoEndpoint = noEndpoint
  NoAddress = noAddress
  Absent = absent
  Lockout = 2
SPECIFICATION FirewallSpec
SYMMETRY Symmetry
INVARIANTS FirewallTypeOK EntriesTracked EntriesOwned
PROPERTY UnlockEndsSessions
