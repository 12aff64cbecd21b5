CONSTANTS
  Users = {u1, u2}
  Addresses = {a1}
  Keys = {k1, k2}
  Endpoints = {e1}
  Mfas = {m1}
  Nodes = {n1, n2}
  Acls = {acl1, acl2}
  Self = n1
  Unset = unset
  NoNode = noNode
  NoEndpoint = noEndpoint
  NoAddress = noAddress
  Absent = absent
  Lockout = 1
  MaxPending = 2
  Workloads = {
    {"lock", "user", "device", "key", "acl"},
    {"lock", "device", "key", "login", "restart"},
    {"user", "others", "device", "login", "logout"},
    {"lock", "login", "logout", "attempt", "roam", "nodes"},
    {"lock", "login", "logout", "mfa", "timeout", "nodes"},
    {"login", "logout", "attempt", "timeout"}}
SPECIFICATION Spec
SYMMETRY Symmetry
INVARIANTS SyncTypeOK SessionsBacked MirrorsEtcd ReplaceFindsMap LoginsTakeEffect
PROPERTY CallsAllowed
