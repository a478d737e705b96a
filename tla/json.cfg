SPECIFICATION FairSpec
CONSTANTS
  NUL = NUL
  Bytes <- MCBytes
  Bodies <- MCBodies
  Documents <- MCDocuments
  NameSize = 3
  ValueSize = 4
  MaxCalls = 4
  LevelMod = 4
INVARIANTS
  TypeOK
  Terminated
  NextItemEachCall
PROPERTY CallsReturn
