SPECIFICATION Spec
CONSTANTS
  NUL = NUL
  UrlBufferSize = 8
  Bytes <- MCBytes
  Tokens <- MCTokens
  PostTokens <- MCPostTokens
  Bodies <- MCBodies
  Decoded <- MCDecoded
  NameSize = 2
  ValueSize = 2
  MaxCalls = 3
  StartMod = 18
INVARIANT ParamsFromTheUrl
