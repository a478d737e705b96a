\* Two clients that come, go and reset at any time; a listening socket that
\* may get the descriptor 0; a table of two slots for three connections.
SPECIFICATION FairSpec
CONSTANTS
  Platforms = {"unix", "win32", "particle"}
  Clients = {c1, c2}
  None = None
  Backlog = 2
  MaxFd = 3
  BindTries = 2
  MaxOps = 2
  Conns = {e1, e2, e3}
  MaxConn = 2
  MaxPacket = 1
  NoSlot = NoSlot
INVARIANTS
  TypeOK
  DescriptorsHeld
  SlotsOwned
PROPERTY ClientsServed
\* The process may exit, and does nothing more then.
CHECK_DEADLOCK FALSE
