\* Every token over "/", a letter and "?" that fits an eight-byte buffer.
SPECIFICATION Spec
CONSTANTS
  NUL = NUL
  UrlBufferSize = 8
  ApiSize = 2
  Bytes <- MCBytes
  Requests <- MCRequests
INVARIANT LevelsNotEmpty
CHECK_DEADLOCK FALSE
