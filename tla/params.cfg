SPECIFICATION FairSpec
CONSTANTS
  NUL = NUL
  UrlBufferSize = 8
  Bytes <- MCBytes
  Tokens <- MCTokens
  PostTokens <- MCPostTokens
  Bodies <- MCBodies
  Decoded <- MCDecoded
  NameSize = 2
  ValueSize = 2
  MaxCalls = 3
  StartMod = 18
INVARIANTS
  TypeOK
  ReadsInBuffer
  OnlyTerminatorBehind
  NextParamEachCall
PROPERTY CallsReturn
