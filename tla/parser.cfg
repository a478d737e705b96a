\* Buffers that overflow, reads that time out or fail anywhere, any number of
\* requests.
SPECIFICATION FairSpec
CONSTANTS
  NUL = NUL
  UrlBufferSize = 3
  MethodSize = 3
  VersionSize = 3
  NameSize = 3
  ValueSize = 3
  Supported <- MCSupported
  ClientBytes <- MCBytes
  Garbage <- MCGarbage
  Fails <- MCAnyFail
  MaxInput = 9
INVARIANTS
  TypeOK
  UrlBufferClean
  HeadEndsAtBlankLine
  UrlStored
PROPERTY ParsingEnds
