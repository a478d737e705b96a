SPECIFICATION FairSpec
CONSTANTS
  NUL = NUL
  UrlBufferSize = 2
  MethodSize = 3
  VersionSize = 3
  NameSize = 3
  ValueSize = 3
  Supported <- MCSupported
  ClientBytes <- MCBytes
  Garbage <- MCFewGarbage
  Fails <- MCError
  MaxInput = 5
PROPERTY EveryRequestEnds
