CONSTANTS
  Handlers = {h1, h2}
  Serving = {h1}
  Router = router
  NoSocket = noSocket
  MaxReports = 2
  MaxWatchers = 2
SPECIFICATION MCSpec
CHECK_DEADLOCK FALSE
INVARIANTS NodeTypeOK NodeAsRemembered
PROPERTIES ServiceFollowsHealth ClosedConnectionsEnd
