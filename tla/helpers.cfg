\* Every token over "/", a letter and "?" that fits an eight-byte buffer, and two
\* levels; inputs of up to two groups over bytes with each kind of high and low
\* bits, output buffers from one byte to more than the longest output.
SPECIFICATION HelpersSpec
CONSTANTS
  NUL = NUL
  UrlBufferSize = 8
  ApiSize = 2
  Bytes <- MCBytes
  Requests <- MCRequests
  ByteSet = {0, 3, 77, 127, 130, 255}
  MaxLen = 4
  MaxOut = 9
INVARIANTS
  TypeOK
  Alternating
  LevelsAreComponents
  AgreesWithServer
  EncodesBase64
  DecodesBase64
  StopsAtForeign
\* The loop over a URL stops when it is done.
CHECK_DEADLOCK FALSE
