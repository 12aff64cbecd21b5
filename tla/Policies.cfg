CONSTANTS
  Users = {u1, u2}
  GroupNames = {g1}
  Admins = {e1, e2}
  Acls = {acl1, acl2}
  MaxWrites = 3
  Absent = absent
  Workloads = {
    {"group", "crash", "login"},
    {"group", "user"},
    {"acl", "login", "user"},
    {"acl", "dns"},
    {"login", "fail"},
    {"acl", "user", "fail"}}
CHECK_DEADLOCK FALSE
SPECIFICATION Spec
INVARIANTS TypeOK MembershipsAgree InstalledIsCurrent
PROPERTY InstalledCatchesUp
