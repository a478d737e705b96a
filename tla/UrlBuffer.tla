------------------------------ MODULE UrlBuffer ------------------------------
(***************************************************************************)
(* The URL buffer _attoHTTP_url and the C string operations on it, shared  *)
(* by the byte-level parser and the request lifecycle.  The buffer is a    *)
(* function from 0..UrlBufferSize-1 to bytes.  Byte strings that are not   *)
(* in a buffer are sequences.                                              *)
(***************************************************************************)
EXTENDS Integers, Sequences

CONSTANTS
  NUL,            \* the byte 0
  UrlBufferSize   \* ATTOHTTP_URL_BUFFER_SIZE

ASSUME UrlBufferAssumption == UrlBufferSize \in Nat \ {0, 1}

UrlIndex == 0..UrlBufferSize - 1

\* strncpy into, and strncmp over, n bytes: only the first n bytes count.
Cut(s, n) == IF Len(s) <= n THEN s ELSE SubSeq(s, 1, n)

\* The bytes of s before the first b.
Before(s, b) ==
  IF \E i \in 1..Len(s) : s[i] = b
  THEN SubSeq(s, 1, (CHOOSE i \in 1..Len(s) :
                        s[i] = b /\ \A j \in 1..i-1 : s[j] # b) - 1)
  ELSE s

\* The path of a URL token.
PathOf(tok) == Before(tok, "?")

\* The number of bytes before the first NUL of a buffer.
StrLen(buf) ==
  CHOOSE n \in DOMAIN buf : buf[n] = NUL /\ \A j \in 0..n-1 : buf[j] # NUL

\* The C string a buffer holds.
CString(buf) == [i \in 1..StrLen(buf) |-> buf[i - 1]]

\* What _attoHTTPParseURL makes of the buffer old when the client sends tok:
\* "?" becomes NUL and the part that does not fit is dropped.  When the
\* stream ends inside the token (eof), one byte that was never received, the
\* one that happens to be in the buffer, is counted in.
StoredLenPastEnd(tok, eof) ==
  LET n == Len(Cut(tok, UrlBufferSize - 1))
  IN IF eof THEN n + 1 ELSE n
StoredLen(tok, eof) ==
  LET n == Len(Cut(tok, UrlBufferSize - 1))
  IN IF eof /\ n < UrlBufferSize - 1 THEN n + 1 ELSE n

Stored(old, tok, eof) ==
  [i \in UrlIndex |->
     IF i < Len(Cut(tok, UrlBufferSize - 1))
     THEN IF tok[i + 1] = "?" THEN NUL ELSE tok[i + 1]
     ELSE IF i = StoredLen(tok, eof) THEN NUL ELSE old[i]]

\* The slashes _attoHTTPFindAPICallback meets in a buffer of which len bytes
\* are in use, and the buffer once it has turned them into terminators.
Slashes(buf, len) ==
  {i \in UrlIndex : i < StrLen(buf) /\ i < len /\ buf[i] = "/"}
Split(buf, len) ==
  [i \in UrlIndex |-> IF i \in Slashes(buf, len) THEN NUL ELSE buf[i]]
=============================================================================
