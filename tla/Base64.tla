------------------------------- MODULE Base64 -------------------------------
(***************************************************************************)
(* attoHTTPBase64Encode and attoHTTPBase64Decode as functions of the input *)
(* and of the size of the output buffer, against the bits RFC 2045 takes.  *)
(* Bytes and characters are numbers.  Both functions store while there is  *)
(* room, and so store the first olen bytes of what they would store in a   *)
(* buffer of any size.                                                     *)
(***************************************************************************)
EXTENDS Integers, Sequences

CONSTANTS
  ByteSet,     \* the bytes inputs are made of
  MaxLen,      \* bound on the length of an input
  MaxOut       \* bound on the size of an output buffer

VARIABLES
  input,       \* the bytes to encode
  olen         \* the size of the output buffer

base64Vars == <<input, olen>>

ASSUME Base64Assumption ==
  ByteSet \subseteq 0..255 /\ MaxLen \in Nat /\ MaxOut \in Nat \ {0}

Shortened(s, n) == SubSeq(s, 1, IF n < Len(s) THEN n ELSE Len(s))
Stripped(s, n) == SubSeq(s, 1, Len(s) - n)

\* base64data, with the padding behind the sixty-four.
Pad == 64
Base64Data(c) ==
  CASE c \in 0..25 -> 65 + c [] c \in 26..51 -> 97 + (c - 26)
    [] c \in 52..61 -> 48 + (c - 52) [] c = 62 -> 43 [] c = 63 -> 47
    [] c = Pad -> 61

\* 2^n
Power(n) == <<1, 2, 4, 8, 16, 32, 64, 128>>[n + 1]

\* The operators of C on six bits.  The input is of signed bytes, so a shift to
\* the right extends the sign.
Signed(b) == IF b < 128 THEN b ELSE b - 256
Right(b, n) == (Signed(b) \div Power(n)) % 64
Left(b, n) == (b * Power(n)) % 64
Or(x, y) ==
  LET bit(p) == IF 1 \in {(x \div p) % 2, (y \div p) % 2} THEN p ELSE 0
  IN bit(32) + bit(16) + bit(8) + bit(4) + bit(2) + bit(1)

\* The four characters for the bytes at i, i + 1 and i + 2, as far as they are
\* in the input.
EncodeGroup(in, i) ==
  LET n == Len(in) - i + 1
  IN << Right(in[i], 2),
        IF n > 1 THEN Or(Left(in[i], 4), Right(in[i + 1], 4)) ELSE Left(in[i], 4),
        IF n > 2 THEN Or(Left(in[i + 1], 2), Right(in[i + 2], 6))
        ELSE IF n > 1 THEN Left(in[i + 1], 2) ELSE Pad,
        IF n > 2 THEN in[i + 2] % 64 ELSE Pad >>
\* The loop: four characters for every three bytes begun.
EncodeAll(in) ==
  [k \in 1..4 * ((Len(in) + 2) \div 3) |->
     Base64Data(EncodeGroup(in, 3 * ((k - 1) \div 4) + 1)[((k - 1) % 4) + 1])]

\* The string returned: a buffer that is full loses its last byte to the
\* terminator.
TerminatedBehind(s, n) == Shortened(s, n)
Terminated(s, n) == Shortened(s, n - 1)

Encode(in, n) == Terminated(EncodeAll(in), n)

-----------------------------------------------------------------------------
\* _attoHTTPBase64DecodeChar: 64 for the padding, 65 for any other character.
Foreign == 65
LettersOnly(c) ==
  CASE c \in 65..90 -> c - 65 [] c \in 97..122 -> c - 97 + 26
    [] c = 43 -> 62 [] c = 47 -> 63 [] c = 61 -> Pad [] OTHER -> Foreign
ForeignIsZero(c) ==
  CASE c \in 65..90 -> c - 65 [] c \in 97..122 -> c - 97 + 26
    [] c \in 48..57 -> c - 48 + 52 [] c = 43 -> 62 [] c = 47 -> 63
    [] c = 61 -> Pad [] OTHER -> 0
DecodeChar(c) ==
  CASE c \in 65..90 -> c - 65 [] c \in 97..122 -> c - 97 + 26
    [] c \in 48..57 -> c - 48 + 52 [] c = 43 -> 62 [] c = 47 -> 63
    [] c = 61 -> Pad [] OTHER -> Foreign

\* The bytes of the four characters from i on: up to the first of the last
\* three that is missing, padding or foreign.  The first is not checked.
DecodeGroup(in, i) ==
  LET c == [k \in 0..3 |-> IF i + k <= Len(in) THEN DecodeChar(in[i + k]) ELSE Foreign]
      b1 == ((c[0] * 4) % 256) + ((c[1] \div 16) % 4)
      b2 == ((c[1] * 16) % 256) + ((c[2] \div 4) % 16)
      b3 == ((c[2] * 64) % 256) + (c[3] % 64)
  IN IF c[1] >= 64 THEN <<>>
     ELSE IF c[2] >= 64 THEN <<b1>>
     ELSE IF c[3] >= 64 THEN <<b1, b2>> ELSE <<b1, b2, b3>>

\* The loop ends with the first four characters that are not three bytes; none
\* are left behind the input.
IsLast(in, g) ==
  /\ Len(DecodeGroup(in, 4 * g + 1)) < 3
  /\ \A h \in 0..g - 1 : Len(DecodeGroup(in, 4 * h + 1)) = 3
DecodeAll(in) ==
  LET last == CHOOSE g \in 0..Len(in) : IsLast(in, g)
  IN [k \in 1..3 * last + Len(DecodeGroup(in, 4 * last + 1)) |->
        DecodeGroup(in, 4 * ((k - 1) \div 3) + 1)[((k - 1) % 3) + 1]]
Decode(in, n) == Terminated(DecodeAll(in), n)

-----------------------------------------------------------------------------
\* Every input is built byte by byte, then the next one begins.
Base64Init == input = <<>> /\ olen \in 1..MaxOut
Grow(b) == Len(input) < MaxLen /\ input' = Append(input, b) /\ UNCHANGED olen
Restart == input # <<>> /\ input' = <<>> /\ UNCHANGED olen
Base64Next == (\E b \in ByteSet : Grow(b)) \/ Restart
Base64Spec == Base64Init /\ [][Base64Next]_base64Vars

-----------------------------------------------------------------------------
\* RFC 2045: the bits of the input in groups of six, filled up with zeros, and
\* padding up to a multiple of four characters.
Bit(in, j) ==
  IF j >= 8 * Len(in) THEN 0 ELSE (in[(j \div 8) + 1] \div Power(7 - (j % 8))) % 2
Sextet(in, k) ==
  LET b(j) == Bit(in, 6 * (k - 1) + j)
  IN 32 * b(0) + 16 * b(1) + 8 * b(2) + 4 * b(3) + 2 * b(4) + b(5)
Base64Of(in) ==
  [k \in 1..4 * ((Len(in) + 2) \div 3) |->
     Base64Data(IF 6 * (k - 1) >= 8 * Len(in) THEN Pad ELSE Sextet(in, k))]

(* attoHTTPBase64Encode is base64, cut to the buffer, for bytes below 128; *)
(* the first of each three may be any.                                     *)
EncodesBase64 ==
  (\A k \in 1..Len(input) : k % 3 # 1 => input[k] < 128)
    => Encode(input, olen) = Shortened(Base64Of(input), olen - 1)

(* attoHTTPBase64Decode gives the bytes back, whatever they are, with all, *)
(* some or none of the padding, cut to the buffer.                         *)
DecodesBase64 ==
  \A p \in 0..(3 - (Len(input) % 3)) % 3 :
    Decode(Stripped(Base64Of(input), p), olen) = Shortened(input, olen - 1)

(* Decoding stops at a character that is not of base64, with the bytes     *)
(* that are whole before it, unless it is the first of its four.           *)
StopsAtForeign ==
  \A k \in 1..Len(Base64Of(input)) :
    k % 4 # 1 => Decode([Base64Of(input) EXCEPT ![k] = 0], olen)
                   = Shortened(Shortened(input, (6 * (k - 1)) \div 8), olen - 1)
=============================================================================
