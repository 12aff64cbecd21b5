CONSTANTS
  u1 = u1
  u2 = u2
  t1 = t1
  t2 = t2
  Users = {u1, u2}
  Last = 3
  Server = 2
  Requests = {r1, r2}
  Tokens = {t1, t2}
  Uses = {2}
  Renewed = {t1}
  Deleted = {u1}
  FirstTokens <- TokenEach
  Absent = absent
  Workloads = {
    {"fail", "lapse", "late"},
    {"fail", "mobile"},
    {"remove", "lapse"},
    {"delete", "halfway"},
    {"token"}}
CHECK_DEADLOCK FALSE
SPECIFICATION Spec
INVARIANTS TypeOK AddressLeadsToDevice TokenUsesBounded FailedLeaveNoDevice DevicesHaveUsers
PROPERTY RegistrationEnds
