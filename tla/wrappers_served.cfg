\* The Unix wrapper, started with descriptor 0 open or closed.
SPECIFICATION FairSpec
CONSTANTS
  Platforms = {"unix"}
  Clients = {c1}
  None = None
  Backlog = 1
  MaxFd = 2
  BindTries = 1
  MaxOps = 1
  Conns = {e1}
  MaxConn = 1
  MaxPacket = 1
  NoSlot = NoSlot
PROPERTY EveryClientServed
\* The process may exit, and does nothing more then.
CHECK_DEADLOCK FALSE
