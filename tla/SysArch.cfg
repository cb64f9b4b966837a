CONSTANTS
  Thread = {app}
  Tcpip = tcpip
  None = None
  Message = {m1, m2}
  MBOX_SIZE = 1
  TICK_MS = 2
  WIDTH = 4
  Timeouts = {1, 3}
  MaxNest = 2
  MaxLag = 2
SPECIFICATION FairSpec
INVARIANTS CoreCheckExact OneOwner WaitsExact
PROPERTY CallsReturn
