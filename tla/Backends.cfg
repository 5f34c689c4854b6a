SPECIFICATION FairSpec
CONSTANTS
  Proc = {p1, p2}
  None = None
  MaxConnections = 3
INVARIANTS TypeOK NoConnectionLeft ControlConnectionReady
PROPERTIES CallsKeepPromise HealthyConnectionKept CallReturns
