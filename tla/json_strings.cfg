SPECIFICATION Spec
CONSTANTS
  NUL = NUL
  Bytes <- MCBytes
  Bodies <- MCNoBodies
  Documents <- MCObjects
  NameSize = 3
  ValueSize = 4
  MaxCalls = 4
  LevelMod = 4
INVARIANT ReadsJson
