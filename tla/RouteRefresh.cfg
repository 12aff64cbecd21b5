CONSTANTS
  Parts = {"routes"}
  Updaters = {"add", "first"}
  Creators = {"first"}
  Values <- ValuesDef
  Missing = missing
  Error = error
  Mutate <- MutateDef
  MaxRevision = 5
  AdminNames = {"bob", "bobby"}
  Begins <- BeginsDef
  Passwords = {p1}
  Browsers = {b1, b2}
  NoAdmin = noAdmin
  AdminLockout = 2
  Mfa = {webauthn, oidc}
  Fallible = {oidc}
  Oidc = oidc
  ByIssuer = {webauthn}
  Broken = broken
  MaxSaves = 2
  Nodes = {n1, n2}
  Migrating = {n1, n2}
  OldUsers = {u1, u2}
  JsonNames = {acl1}
  Section <- SectionDef
  Order <- OrderDef
  Nothing = nothing
  SettingSaves = 2
  RouteKeys = {"host", "other", "net"}
  Above <- AboveDef
  Targets = {"host", "other", "net", "name"}
  HostNames = {"name"}
  Resolve <- ResolveDef
  Lists <- ListsDef
  MaxPolicies = 2
  MaxRoutes = 2
  Agents = {a1, a2}
  SecurityKeys = {k1}
  Counterless = {}
  MaxIds = 2
  MaxChallenges = 4
  MaxPresses = 3
SPECIFICATION Spec
CHECK_DEADLOCK FALSE
INVARIANT DeniedStaysDenied
