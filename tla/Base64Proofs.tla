---------------------------- MODULE Base64Proofs ----------------------------
(***************************************************************************)
(* attoHTTPBase64Encode and attoHTTPBase64Decode are RFC 2045, for every   *)
(* input and every size of the output buffer.  The proofs go four          *)
(* characters, or three bytes, at a time.                                  *)
(***************************************************************************)
EXTENDS Base64, TLAPS

Byte == 0..255

(* The i-th byte of the input, zero behind its end.                        *)
Octet(in, i) == IF i \in 1..Len(in) THEN in[i] ELSE 0

LEMMA OctetTyped ==
  ASSUME NEW in \in Seq(Byte), NEW i \in Int
  PROVE  Octet(in, i) \in Byte /\ Octet(in, i) \in 0..255
<1>1. i \in 1..Len(in) => in[i] \in Byte
  OBVIOUS
<1> QED
  BY <1>1 DEF Octet, Byte

LEMMA Powers ==
  /\ Power(0) = 1 /\ Power(1) = 2 /\ Power(2) = 4 /\ Power(3) = 8
  /\ Power(4) = 16 /\ Power(5) = 32 /\ Power(6) = 64 /\ Power(7) = 128
BY DEF Power

-----------------------------------------------------------------------------
(***************************************************************************)
(* The reference, four sextets at a time                                   *)
(***************************************************************************)
BitsAre(in, q, b) ==
  /\ Bit(in, 8 * q + 0) = (b \div 128) % 2
  /\ Bit(in, 8 * q + 1) = (b \div 64) % 2
  /\ Bit(in, 8 * q + 2) = (b \div 32) % 2
  /\ Bit(in, 8 * q + 3) = (b \div 16) % 2
  /\ Bit(in, 8 * q + 4) = (b \div 8) % 2
  /\ Bit(in, 8 * q + 5) = (b \div 4) % 2
  /\ Bit(in, 8 * q + 6) = (b \div 2) % 2
  /\ Bit(in, 8 * q + 7) = (b \div 1) % 2

LEMMA BitOfOctet ==
  ASSUME NEW in \in Seq(Byte), NEW q \in Nat, NEW b \in 0..255, Octet(in, q + 1) = b,
         NEW r \in 0..7
  PROVE  Bit(in, 8 * q + r) = (b \div Power(7 - r)) % 2
<1>1. (8 * q + r) \div 8 = q /\ (8 * q + r) % 8 = r
  OBVIOUS
<1>2. CASE 8 * q + r >= 8 * Len(in)
  <2>1. b = 0
    BY <1>2 DEF Octet
  <2>2. Power(7 - r) \in {1, 2, 4, 8, 16, 32, 64, 128}
    BY Powers
  <2>3. (b \div Power(7 - r)) % 2 = 0
    BY <2>1, <2>2
  <2> QED
    BY <1>2, <2>3 DEF Bit
<1>3. CASE ~(8 * q + r >= 8 * Len(in))
  <2>1. b = in[q + 1]
    BY <1>3 DEF Octet
  <2> QED
    BY <1>1, <1>3, <2>1 DEF Bit
<1> QED
  BY <1>2, <1>3

LEMMA BitsOfOctet ==
  ASSUME NEW in \in Seq(Byte), NEW q \in Nat, NEW b \in 0..255, Octet(in, q + 1) = b
  PROVE  BitsAre(in, q, b)
<1>1. /\ 7 - 0 = 7 /\ 7 - 1 = 6 /\ 7 - 2 = 5 /\ 7 - 3 = 4
      /\ 7 - 4 = 3 /\ 7 - 5 = 2 /\ 7 - 6 = 1 /\ 7 - 7 = 0
  OBVIOUS
<1> DEFINE Holds(r) == Bit(in, 8 * q + r) = (b \div Power(7 - r)) % 2
<1>2. \A r \in 0..7 : Holds(r)
  BY BitOfOctet, Zenon
<1> HIDE DEF Holds
<1>3. Bit(in, 8 * q + 0) = (b \div 128) % 2
  <2>1. 0 \in 0..7 /\ Power(7 - 0) = 128
    BY <1>1, Powers
  <2>2. Bit(in, 8 * q + 0) = (b \div Power(7 - 0)) % 2
    <3>1. Holds(0)
      BY <1>2, <2>1
    <3> QED
      BY <3>1 DEF Holds
  <2> QED
    BY <2>1, <2>2
<1>4. Bit(in, 8 * q + 1) = (b \div 64) % 2
  <2>1. 1 \in 0..7 /\ Power(7 - 1) = 64
    BY <1>1, Powers
  <2>2. Bit(in, 8 * q + 1) = (b \div Power(7 - 1)) % 2
    <3>1. Holds(1)
      BY <1>2, <2>1
    <3> QED
      BY <3>1 DEF Holds
  <2> QED
    BY <2>1, <2>2
<1>5. Bit(in, 8 * q + 2) = (b \div 32) % 2
  <2>1. 2 \in 0..7 /\ Power(7 - 2) = 32
    BY <1>1, Powers
  <2>2. Bit(in, 8 * q + 2) = (b \div Power(7 - 2)) % 2
    <3>1. Holds(2)
      BY <1>2, <2>1
    <3> QED
      BY <3>1 DEF Holds
  <2> QED
    BY <2>1, <2>2
<1>6. Bit(in, 8 * q + 3) = (b \div 16) % 2
  <2>1. 3 \in 0..7 /\ Power(7 - 3) = 16
    BY <1>1, Powers
  <2>2. Bit(in, 8 * q + 3) = (b \div Power(7 - 3)) % 2
    <3>1. Holds(3)
      BY <1>2, <2>1
    <3> QED
      BY <3>1 DEF Holds
  <2> QED
    BY <2>1, <2>2
<1>7. Bit(in, 8 * q + 4) = (b \div 8) % 2
  <2>1. 4 \in 0..7 /\ Power(7 - 4) = 8
    BY <1>1, Powers
  <2>2. Bit(in, 8 * q + 4) = (b \div Power(7 - 4)) % 2
    <3>1. Holds(4)
      BY <1>2, <2>1
    <3> QED
      BY <3>1 DEF Holds
  <2> QED
    BY <2>1, <2>2
<1>8. Bit(in, 8 * q + 5) = (b \div 4) % 2
  <2>1. 5 \in 0..7 /\ Power(7 - 5) = 4
    BY <1>1, Powers
  <2>2. Bit(in, 8 * q + 5) = (b \div Power(7 - 5)) % 2
    <3>1. Holds(5)
      BY <1>2, <2>1
    <3> QED
      BY <3>1 DEF Holds
  <2> QED
    BY <2>1, <2>2
<1>9. Bit(in, 8 * q + 6) = (b \div 2) % 2
  <2>1. 6 \in 0..7 /\ Power(7 - 6) = 2
    BY <1>1, Powers
  <2>2. Bit(in, 8 * q + 6) = (b \div Power(7 - 6)) % 2
    <3>1. Holds(6)
      BY <1>2, <2>1
    <3> QED
      BY <3>1 DEF Holds
  <2> QED
    BY <2>1, <2>2
<1>10. Bit(in, 8 * q + 7) = (b \div 1) % 2
  <2>1. 7 \in 0..7 /\ Power(7 - 7) = 1
    BY <1>1, Powers
  <2>2. Bit(in, 8 * q + 7) = (b \div Power(7 - 7)) % 2
    <3>1. Holds(7)
      BY <1>2, <2>1
    <3> QED
      BY <3>1 DEF Holds
  <2> QED
    BY <2>1, <2>2
<1> QED
  BY <1>3, <1>4, <1>5, <1>6, <1>7, <1>8, <1>9, <1>10 DEF BitsAre

(* A byte, one bit after the other.                                        *)
Halves(b) ==
  /\ b = 2 * (b \div 2) + ((b \div 1) % 2)
  /\ b \div 2 = 2 * (b \div 4) + ((b \div 2) % 2)
  /\ b \div 4 = 2 * (b \div 8) + ((b \div 4) % 2)
  /\ b \div 8 = 2 * (b \div 16) + ((b \div 8) % 2)
  /\ b \div 16 = 2 * (b \div 32) + ((b \div 16) % 2)
  /\ b \div 32 = 2 * (b \div 64) + ((b \div 32) % 2)
  /\ b \div 64 = 2 * (b \div 128) + ((b \div 64) % 2)
  /\ b \div 128 = (b \div 128) % 2
  /\ b % 4 = b - 4 * (b \div 4) /\ b % 16 = b - 16 * (b \div 16)
  /\ b % 64 = b - 64 * (b \div 64)

LEMMA ByteHalves == ASSUME NEW b \in 0..255 PROVE Halves(b)
BY DEF Halves

(* Three bytes, and their four sextets.                                    *)
OctetsAre(in, g, b1, b2, b3) ==
  /\ Octet(in, 3 * g + 1) = b1
  /\ Octet(in, 3 * g + 2) = b2
  /\ Octet(in, 3 * g + 3) = b3
SextetsAre(in, g, b1, b2, b3) ==
  /\ Sextet(in, 4 * g + 1) = b1 \div 4
  /\ Sextet(in, 4 * g + 2) = 16 * (b1 % 4) + (b2 \div 16)
  /\ Sextet(in, 4 * g + 3) = 4 * (b2 % 16) + (b3 \div 64)
  /\ Sextet(in, 4 * g + 4) = b3 % 64

LEMMA GroupSextets ==
  ASSUME NEW in \in Seq(Byte), NEW g \in Nat,
         NEW b1 \in 0..255, NEW b2 \in 0..255, NEW b3 \in 0..255,
         OctetsAre(in, g, b1, b2, b3)
  PROVE  SextetsAre(in, g, b1, b2, b3)
<1>1. PICK q1 \in Nat : q1 = 3 * g
  OBVIOUS
<1>2. PICK q2 \in Nat : q2 = 3 * g + 1
  OBVIOUS
<1>3. PICK q3 \in Nat : q3 = 3 * g + 2
  OBVIOUS
<1>4. BitsAre(in, q1, b1)
  <2>1. Octet(in, q1 + 1) = b1
    <3>1. q1 + 1 = 3 * g + 1
      BY <1>1
    <3> QED
      BY <3>1 DEF OctetsAre
  <2> QED
    BY <1>1, <2>1, BitsOfOctet, Zenon
<1>5. BitsAre(in, q2, b2)
  <2>1. Octet(in, q2 + 1) = b2
    <3>1. q2 + 1 = 3 * g + 2
      BY <1>2
    <3> QED
      BY <3>1 DEF OctetsAre
  <2> QED
    BY <1>2, <2>1, BitsOfOctet, Zenon
<1>6. BitsAre(in, q3, b3)
  <2>1. Octet(in, q3 + 1) = b3
    <3>1. q3 + 1 = 3 * g + 3
      BY <1>3
    <3> QED
      BY <3>1 DEF OctetsAre
  <2> QED
    BY <1>3, <2>1, BitsOfOctet, Zenon
<1>7. Sextet(in, 4 * g + 1) = b1 \div 4
  <2>1. /\ 6 * ((4 * g + 1) - 1) + 0 = 8 * q1 + 0
        /\ 6 * ((4 * g + 1) - 1) + 1 = 8 * q1 + 1
        /\ 6 * ((4 * g + 1) - 1) + 2 = 8 * q1 + 2
        /\ 6 * ((4 * g + 1) - 1) + 3 = 8 * q1 + 3
        /\ 6 * ((4 * g + 1) - 1) + 4 = 8 * q1 + 4
        /\ 6 * ((4 * g + 1) - 1) + 5 = 8 * q1 + 5
    BY <1>1
  <2>2. Sextet(in, 4 * g + 1) =
          32 * Bit(in, 8 * q1 + 0) + 16 * Bit(in, 8 * q1 + 1)
          + 8 * Bit(in, 8 * q1 + 2) + 4 * Bit(in, 8 * q1 + 3)
          + 2 * Bit(in, 8 * q1 + 4) + Bit(in, 8 * q1 + 5)
    BY <2>1, Zenon DEF Sextet
  <2>3. Sextet(in, 4 * g + 1) =
          32 * ((b1 \div 128) % 2) + 16 * ((b1 \div 64) % 2)
          + 8 * ((b1 \div 32) % 2) + 4 * ((b1 \div 16) % 2)
          + 2 * ((b1 \div 8) % 2) + ((b1 \div 4) % 2)
    BY <1>4, <2>2, Zenon DEF BitsAre
  <2>4. b1 \div 4 =
          32 * ((b1 \div 128) % 2) + 16 * ((b1 \div 64) % 2)
          + 8 * ((b1 \div 32) % 2) + 4 * ((b1 \div 16) % 2)
          + 2 * ((b1 \div 8) % 2) + ((b1 \div 4) % 2)
    <3>1. Halves(b1)
      BY ByteHalves, Zenon
    <3> QED
      BY <3>1 DEF Halves
  <2> QED
    BY <2>3, <2>4, ZenonT(30)
<1>8. Sextet(in, 4 * g + 2) = 16 * (b1 % 4) + (b2 \div 16)
  <2>1. /\ 6 * ((4 * g + 2) - 1) + 0 = 8 * q1 + 6
        /\ 6 * ((4 * g + 2) - 1) + 1 = 8 * q1 + 7
        /\ 6 * ((4 * g + 2) - 1) + 2 = 8 * q2 + 0
        /\ 6 * ((4 * g + 2) - 1) + 3 = 8 * q2 + 1
        /\ 6 * ((4 * g + 2) - 1) + 4 = 8 * q2 + 2
        /\ 6 * ((4 * g + 2) - 1) + 5 = 8 * q2 + 3
    BY <1>1, <1>2
  <2>2. Sextet(in, 4 * g + 2) =
          32 * Bit(in, 8 * q1 + 6) + 16 * Bit(in, 8 * q1 + 7)
          + 8 * Bit(in, 8 * q2 + 0) + 4 * Bit(in, 8 * q2 + 1)
          + 2 * Bit(in, 8 * q2 + 2) + Bit(in, 8 * q2 + 3)
    BY <2>1, ZenonT(30) DEF Sextet
  <2>3. Sextet(in, 4 * g + 2) =
          32 * ((b1 \div 2) % 2) + 16 * ((b1 \div 1) % 2)
          + 8 * ((b2 \div 128) % 2) + 4 * ((b2 \div 64) % 2)
          + 2 * ((b2 \div 32) % 2) + ((b2 \div 16) % 2)
    BY <1>4, <1>5, <2>2, Zenon DEF BitsAre
  <2>4. 16 * (b1 % 4) =
          32 * ((b1 \div 2) % 2) + 16 * ((b1 \div 1) % 2)
    <3>1. Halves(b1)
      BY ByteHalves, Zenon
    <3> QED
      BY <3>1 DEF Halves
  <2>5. b2 \div 16 =
          8 * ((b2 \div 128) % 2) + 4 * ((b2 \div 64) % 2)
          + 2 * ((b2 \div 32) % 2) + ((b2 \div 16) % 2)
    <3>1. Halves(b2)
      BY ByteHalves, Zenon
    <3> QED
      BY <3>1 DEF Halves
  <2> QED
    BY <2>3, <2>4, <2>5
<1>9. Sextet(in, 4 * g + 3) = 4 * (b2 % 16) + (b3 \div 64)
  <2>1. /\ 6 * ((4 * g + 3) - 1) + 0 = 8 * q2 + 4
        /\ 6 * ((4 * g + 3) - 1) + 1 = 8 * q2 + 5
        /\ 6 * ((4 * g + 3) - 1) + 2 = 8 * q2 + 6
        /\ 6 * ((4 * g + 3) - 1) + 3 = 8 * q2 + 7
        /\ 6 * ((4 * g + 3) - 1) + 4 = 8 * q3 + 0
        /\ 6 * ((4 * g + 3) - 1) + 5 = 8 * q3 + 1
    BY <1>2, <1>3
  <2>2. Sextet(in, 4 * g + 3) =
          32 * Bit(in, 8 * q2 + 4) + 16 * Bit(in, 8 * q2 + 5)
          + 8 * Bit(in, 8 * q2 + 6) + 4 * Bit(in, 8 * q2 + 7)
          + 2 * Bit(in, 8 * q3 + 0) + Bit(in, 8 * q3 + 1)
    BY <2>1, Zenon DEF Sextet
  <2>3. Sextet(in, 4 * g + 3) =
          32 * ((b2 \div 8) % 2) + 16 * ((b2 \div 4) % 2)
          + 8 * ((b2 \div 2) % 2) + 4 * ((b2 \div 1) % 2)
          + 2 * ((b3 \div 128) % 2) + ((b3 \div 64) % 2)
    BY <1>5, <1>6, <2>2, Zenon DEF BitsAre
  <2>4. 4 * (b2 % 16) =
          32 * ((b2 \div 8) % 2) + 16 * ((b2 \div 4) % 2)
          + 8 * ((b2 \div 2) % 2) + 4 * ((b2 \div 1) % 2)
    <3>1. Halves(b2)
      BY ByteHalves, Zenon
    <3> QED
      BY <3>1 DEF Halves
  <2>5. b3 \div 64 =
          2 * ((b3 \div 128) % 2) + ((b3 \div 64) % 2)
    <3>1. Halves(b3)
      BY ByteHalves, Zenon
    <3> QED
      BY <3>1 DEF Halves
  <2> QED
    BY <2>3, <2>4, <2>5
<1>10. Sextet(in, 4 * g + 4) = b3 % 64
  <2>1. /\ 6 * ((4 * g + 4) - 1) + 0 = 8 * q3 + 2
        /\ 6 * ((4 * g + 4) - 1) + 1 = 8 * q3 + 3
        /\ 6 * ((4 * g + 4) - 1) + 2 = 8 * q3 + 4
        /\ 6 * ((4 * g + 4) - 1) + 3 = 8 * q3 + 5
        /\ 6 * ((4 * g + 4) - 1) + 4 = 8 * q3 + 6
        /\ 6 * ((4 * g + 4) - 1) + 5 = 8 * q3 + 7
    BY <1>3
  <2>2. Sextet(in, 4 * g + 4) =
          32 * Bit(in, 8 * q3 + 2) + 16 * Bit(in, 8 * q3 + 3)
          + 8 * Bit(in, 8 * q3 + 4) + 4 * Bit(in, 8 * q3 + 5)
          + 2 * Bit(in, 8 * q3 + 6) + Bit(in, 8 * q3 + 7)
    BY <2>1, ZenonT(30) DEF Sextet
  <2>3. Sextet(in, 4 * g + 4) =
          32 * ((b3 \div 32) % 2) + 16 * ((b3 \div 16) % 2)
          + 8 * ((b3 \div 8) % 2) + 4 * ((b3 \div 4) % 2)
          + 2 * ((b3 \div 2) % 2) + ((b3 \div 1) % 2)
    BY <1>6, <2>2, Zenon DEF BitsAre
  <2>4. b3 % 64 =
          32 * ((b3 \div 32) % 2) + 16 * ((b3 \div 16) % 2)
          + 8 * ((b3 \div 8) % 2) + 4 * ((b3 \div 4) % 2)
          + 2 * ((b3 \div 2) % 2) + ((b3 \div 1) % 2)
    <3>1. Halves(b3)
      BY ByteHalves, Zenon
    <3> QED
      BY <3>1 DEF Halves
  <2> QED
    BY <2>3, <2>4
<1> QED
  BY <1>7, <1>8, <1>9, <1>10 DEF SextetsAre

LEMMA Group ==
  ASSUME NEW in \in Seq(Byte), NEW g \in Nat
  PROVE  \E b1, b2, b3 \in 0..255 :
           OctetsAre(in, g, b1, b2, b3) /\ SextetsAre(in, g, b1, b2, b3)
<1>1. 3 * g + 1 \in Int /\ 3 * g + 2 \in Int /\ 3 * g + 3 \in Int
  OBVIOUS
<1>2. PICK b1 \in 0..255 : b1 = Octet(in, 3 * g + 1)
  BY <1>1, OctetTyped, Zenon
<1>3. PICK b2 \in 0..255 : b2 = Octet(in, 3 * g + 2)
  BY <1>1, OctetTyped, Zenon
<1>4. PICK b3 \in 0..255 : b3 = Octet(in, 3 * g + 3)
  BY <1>1, OctetTyped, Zenon
<1>5. OctetsAre(in, g, b1, b2, b3)
  BY <1>2, <1>3, <1>4 DEF OctetsAre
<1>6. SextetsAre(in, g, b1, b2, b3)
  BY <1>2, <1>3, <1>4, <1>5, GroupSextets
<1> QED
  BY <1>2, <1>3, <1>4, <1>5, <1>6

(* Every position is one of the four of its group.                         *)
LEMMA InGroup ==
  ASSUME NEW k \in Nat \ {0}
  PROVE  \E g \in Nat : \E r \in 1..4 :
           k = 4 * g + r /\ (k - 1) \div 4 = g /\ ((k - 1) % 4) + 1 = r
<1> WITNESS (k - 1) \div 4 \in Nat
<1> WITNESS ((k - 1) % 4) + 1 \in 1..4
<1> QED
  OBVIOUS

SixBits == 0..63

LEMMA SextetTyped ==
  ASSUME NEW in \in Seq(Byte), NEW k \in Nat \ {0}
  PROVE  Sextet(in, k) \in 0..63
<1>1. PICK g \in Nat : \E r \in 1..4 : k = 4 * g + r
  BY InGroup, Zenon
<1>2. PICK r \in 1..4 : k = 4 * g + r
  BY <1>1
<1>3. PICK b1, b2, b3 \in 0..255 : SextetsAre(in, g, b1, b2, b3)
  BY <1>1, Group
<1>4. b1 \div 4 \in SixBits /\ 16 * (b1 % 4) + (b2 \div 16) \in SixBits
  BY DEF SixBits
<1>5. 4 * (b2 % 16) + (b3 \div 64) \in SixBits /\ b3 % 64 \in SixBits
  BY DEF SixBits
<1>6. \A t \in 1..4 : Sextet(in, 4 * g + t) \in SixBits
  <2>1. Sextet(in, 4 * g + 1) \in SixBits /\ Sextet(in, 4 * g + 2) \in SixBits
    BY <1>3, <1>4, Zenon DEF SextetsAre
  <2>2. Sextet(in, 4 * g + 3) \in SixBits /\ Sextet(in, 4 * g + 4) \in SixBits
    BY <1>3, <1>5, Zenon DEF SextetsAre
  <2> QED
    BY <2>1, <2>2
<1>7. Sextet(in, k) \in SixBits
  BY <1>2, <1>6, Zenon
<1> QED
  BY <1>7 DEF SixBits

-----------------------------------------------------------------------------
(***************************************************************************)
(* Encoding                                                                *)
(***************************************************************************)
(* A shift to the right of a byte below 128, or by two, keeps clear of     *)
(* what the shift to the left of the byte before it has left.              *)
LEMMA FirstSextet == ASSUME NEW a \in 0..255 PROVE Right(a, 2) = a \div 4
BY Powers DEF Right, Signed

LEMMA LastBits ==
  ASSUME NEW a \in 0..255
  PROVE  Left(a, 4) = 16 * (a % 4) /\ Left(a, 2) = 4 * (a % 16)
BY Powers DEF Left

LEMMA FirstBits ==
  ASSUME NEW b \in 0..127
  PROVE  Right(b, 4) = b \div 16 /\ Right(b, 6) = b \div 64
BY Powers DEF Right, Signed

LEMMA OrAdds ==
  ASSUME NEW a \in 0..255, NEW b \in 0..127
  PROVE  /\ Or(Left(a, 4), Right(b, 4)) = 16 * (a % 4) + (b \div 16)
         /\ Or(Left(a, 2), Right(b, 6)) = 4 * (a % 16) + (b \div 64)
<1>1. ASSUME NEW x \in 0..3, NEW y \in 0..15 PROVE Or(16 * x, y) = 16 * x + y
  BY DEF Or
<1>2. ASSUME NEW x \in 0..15, NEW y \in 0..3 PROVE Or(4 * x, y) = 4 * x + y
  BY DEF Or
<1>3. a % 4 \in 0..3 /\ a % 16 \in 0..15 /\ b \div 16 \in 0..15 /\ b \div 64 \in 0..3
  OBVIOUS
<1>4. Or(16 * (a % 4), b \div 16) = 16 * (a % 4) + (b \div 16)
  BY <1>1, <1>3
<1>5. Or(4 * (a % 16), b \div 64) = 4 * (a % 16) + (b \div 64)
  BY <1>2, <1>3
<1> QED
  <2>1. Left(a, 4) = 16 * (a % 4) /\ Left(a, 2) = 4 * (a % 16)
    BY LastBits
  <2>2. Right(b, 4) = b \div 16 /\ Right(b, 6) = b \div 64
    BY FirstBits
  <2> QED
    BY <1>4, <1>5, <2>1, <2>2

(* One round of the loop.                                                  *)
LEMMA EncodedGroup ==
  ASSUME NEW in \in Seq(Byte), NEW g \in Nat, 3 * g + 1 <= Len(in),
         \A k \in 1..Len(in) : k % 3 # 1 => in[k] < 128,
         NEW e, e = EncodeGroup(in, 3 * g + 1)
  PROVE  /\ e[1] = Sextet(in, 4 * g + 1)
         /\ e[2] = Sextet(in, 4 * g + 2)
         /\ e[3] = IF 3 * g + 2 <= Len(in) THEN Sextet(in, 4 * g + 3) ELSE Pad
         /\ e[4] = IF 3 * g + 3 <= Len(in) THEN Sextet(in, 4 * g + 4) ELSE Pad
<1>1. PICK b1, b2, b3 \in 0..255 :
        OctetsAre(in, g, b1, b2, b3) /\ SextetsAre(in, g, b1, b2, b3)
  BY Group
<1>2. PICK i \in Nat : i = 3 * g + 1 /\ i + 1 = 3 * g + 2 /\ i + 2 = 3 * g + 3
  OBVIOUS
<1>3. Len(in) \in Nat
  OBVIOUS
<1>4. in[i] = b1
  <2>1. i \in 1..Len(in)
    BY <1>2, <1>3
  <2> QED
    BY <1>1, <1>2, <2>1 DEF OctetsAre, Octet
<1>5. ASSUME i + 1 <= Len(in) PROVE in[i + 1] = b2 /\ b2 \in 0..127
  <2>1. i + 1 \in 1..Len(in) /\ (i + 1) % 3 # 1
    BY <1>2, <1>3, <1>5
  <2>2. in[i + 1] = b2
    BY <1>1, <1>2, <2>1 DEF OctetsAre, Octet
  <2>3. in[i + 1] < 128
    BY <2>1
  <2> QED
    BY <2>2, <2>3
<1>6. ASSUME i + 2 <= Len(in) PROVE in[i + 2] = b3 /\ b3 \in 0..127
  <2>1. i + 2 \in 1..Len(in) /\ (i + 2) % 3 # 1
    BY <1>2, <1>3, <1>6
  <2>2. in[i + 2] = b3
    BY <1>1, <1>2, <2>1 DEF OctetsAre, Octet
  <2>3. in[i + 2] < 128
    BY <2>1
  <2> QED
    BY <2>2, <2>3
<1>7. e[1] = Sextet(in, 4 * g + 1)
  <2>1. e[1] = Right(b1, 2)
    BY <1>2, <1>4 DEF EncodeGroup
  <2> QED
    BY <1>1, <2>1, FirstSextet, Zenon DEF SextetsAre
<1>8. CASE i + 2 <= Len(in)
  <2>1. i + 1 <= Len(in) /\ Len(in) - i + 1 > 2 /\ Len(in) - i + 1 > 1
    BY <1>2, <1>3, <1>8
  <2>2. /\ e[2] = Or(Left(b1, 4), Right(b2, 4))
        /\ e[3] = Or(Left(b2, 2), Right(b3, 6))
        /\ e[4] = b3 % 64
    BY <1>2, <1>4, <1>5, <1>6, <1>8, <2>1 DEF EncodeGroup
  <2>3. /\ e[2] = 16 * (b1 % 4) + (b2 \div 16)
        /\ e[3] = 4 * (b2 % 16) + (b3 \div 64)
    BY <1>5, <1>6, <1>8, <2>1, <2>2, OrAdds
  <2>4. 3 * g + 2 <= Len(in) /\ 3 * g + 3 <= Len(in)
    BY <1>2, <1>8, <2>1
  <2> QED
    BY <1>1, <1>7, <2>2, <2>3, <2>4 DEF SextetsAre
<1>9. CASE i + 1 <= Len(in) /\ ~(i + 2 <= Len(in))
  <2>1. ~(Len(in) - i + 1 > 2) /\ Len(in) - i + 1 > 1
    BY <1>2, <1>3, <1>9
  <2>2. /\ e[2] = Or(Left(b1, 4), Right(b2, 4))
        /\ e[3] = Left(b2, 2)
        /\ e[4] = Pad
    BY <1>2, <1>4, <1>5, <1>9, <2>1 DEF EncodeGroup
  <2>3. b3 = 0
    BY <1>1, <1>2, <1>3, <1>9 DEF OctetsAre, Octet
  <2>4. /\ e[2] = 16 * (b1 % 4) + (b2 \div 16)
        /\ e[3] = 4 * (b2 % 16) + (b3 \div 64)
    <3>1. e[2] = 16 * (b1 % 4) + (b2 \div 16)
      BY <1>5, <1>9, <2>2, OrAdds
    <3>2. Left(b2, 2) = 4 * (b2 % 16)
      BY LastBits, Zenon
    <3>3. 4 * (b2 % 16) + (b3 \div 64) = 4 * (b2 % 16)
      BY <2>3
    <3> QED
      BY <2>2, <3>1, <3>2, <3>3
  <2>5. 3 * g + 2 <= Len(in) /\ ~(3 * g + 3 <= Len(in))
    BY <1>2, <1>9
  <2> QED
    BY <1>1, <1>7, <2>2, <2>4, <2>5 DEF SextetsAre
<1>10. CASE ~(i + 1 <= Len(in))
  <2>1. ~(Len(in) - i + 1 > 2) /\ ~(Len(in) - i + 1 > 1)
    BY <1>2, <1>3, <1>10
  <2>2. e[2] = Left(b1, 4) /\ e[3] = Pad /\ e[4] = Pad
    BY <1>2, <1>4, <2>1 DEF EncodeGroup
  <2>3. b2 = 0
    BY <1>1, <1>2, <1>3, <1>10 DEF OctetsAre, Octet
  <2>4. e[2] = 16 * (b1 % 4) + (b2 \div 16)
    <3>1. Left(b1, 4) = 16 * (b1 % 4)
      BY LastBits, Zenon
    <3>2. 16 * (b1 % 4) + (b2 \div 16) = 16 * (b1 % 4)
      BY <2>3
    <3> QED
      BY <2>2, <3>1, <3>2
  <2>5. ~(3 * g + 2 <= Len(in)) /\ ~(3 * g + 3 <= Len(in))
    BY <1>2, <1>3, <1>10
  <2> QED
    BY <1>1, <1>7, <2>2, <2>4, <2>5 DEF SextetsAre
<1> QED
  BY <1>8, <1>9, <1>10

LEMMA EncodesAll ==
  ASSUME NEW in \in Seq(Byte), \A k \in 1..Len(in) : k % 3 # 1 => in[k] < 128
  PROVE  EncodeAll(in) = Base64Of(in)
<1>1. SUFFICES ASSUME NEW k \in 1..4 * ((Len(in) + 2) \div 3)
      PROVE  EncodeGroup(in, 3 * ((k - 1) \div 4) + 1)[((k - 1) % 4) + 1]
               = IF 6 * (k - 1) >= 8 * Len(in) THEN Pad ELSE Sextet(in, k)
  BY DEF EncodeAll, Base64Of
<1>2. Len(in) \in Nat /\ k \in Nat \ {0}
  OBVIOUS
<1>3. PICK g \in Nat : \E r \in 1..4 :
        k = 4 * g + r /\ (k - 1) \div 4 = g /\ ((k - 1) % 4) + 1 = r
  BY <1>2, InGroup, Zenon
<1>4. PICK r \in 1..4 : k = 4 * g + r /\ (k - 1) \div 4 = g /\ ((k - 1) % 4) + 1 = r
  BY <1>3
<1>5. 3 * g + 1 <= Len(in)
  BY <1>2, <1>4
<1>6. PICK e : e = EncodeGroup(in, 3 * g + 1)
  OBVIOUS
<1>7. /\ e[1] = Sextet(in, 4 * g + 1)
      /\ e[2] = Sextet(in, 4 * g + 2)
      /\ e[3] = IF 3 * g + 2 <= Len(in) THEN Sextet(in, 4 * g + 3) ELSE Pad
      /\ e[4] = IF 3 * g + 3 <= Len(in) THEN Sextet(in, 4 * g + 4) ELSE Pad
  BY <1>3, <1>5, <1>6, EncodedGroup, ZenonT(30)
<1>8. e[r] = IF 6 * (k - 1) >= 8 * Len(in) THEN Pad ELSE Sextet(in, k)
  <2>1. CASE r = 1
    <3>1. ~(6 * (k - 1) >= 8 * Len(in))
      BY <1>2, <1>4, <1>5, <2>1
    <3> QED
      BY <1>4, <1>7, <2>1, <3>1
  <2>2. CASE r = 2
    <3>1. ~(6 * (k - 1) >= 8 * Len(in))
      BY <1>2, <1>4, <1>5, <2>2
    <3> QED
      BY <1>4, <1>7, <2>2, <3>1
  <2>3. CASE r = 3
    <3>1. 6 * (k - 1) >= 8 * Len(in) <=> ~(3 * g + 2 <= Len(in))
      BY <1>2, <1>4, <1>5, <2>3
    <3> QED
      BY <1>4, <1>7, <2>3, <3>1
  <2>4. CASE r = 4
    <3>1. 6 * (k - 1) >= 8 * Len(in) <=> ~(3 * g + 3 <= Len(in))
      BY <1>2, <1>4, <1>5, <2>4
    <3> QED
      BY <1>4, <1>7, <2>4, <3>1
  <2> QED
    BY <2>1, <2>2, <2>3, <2>4
<1> QED
  BY <1>4, <1>6, <1>8

-----------------------------------------------------------------------------
(***************************************************************************)
(* Decoding                                                                *)
(***************************************************************************)
LEMMA DecodesChar ==
  /\ \A c \in 0..64 : DecodeChar(Base64Data(c)) = c
  /\ DecodeChar(0) = Foreign
<1>1. ASSUME NEW c \in 0..25 PROVE DecodeChar(Base64Data(c)) = c
  BY DEF DecodeChar, Base64Data
<1>2. ASSUME NEW c \in 26..51 PROVE DecodeChar(Base64Data(c)) = c
  BY DEF DecodeChar, Base64Data
<1>3. ASSUME NEW c \in 52..61 PROVE DecodeChar(Base64Data(c)) = c
  BY DEF DecodeChar, Base64Data
<1>4. DecodeChar(Base64Data(62)) = 62 /\ DecodeChar(Base64Data(63)) = 63
  BY DEF DecodeChar, Base64Data, Pad
<1>5. DecodeChar(Base64Data(64)) = 64
  BY DEF DecodeChar, Base64Data, Pad
<1>6. DecodeChar(0) = Foreign
  BY DEF DecodeChar
<1>7. ASSUME NEW c \in 0..64
      PROVE  c \in 0..25 \/ c \in 26..51 \/ c \in 52..61 \/ c = 62 \/ c = 63 \/ c = 64
  OBVIOUS
<1> QED
  BY <1>1, <1>2, <1>3, <1>4, <1>5, <1>6, <1>7

(* The k-th character of s, decoded, or what stands for a missing one.     *)
CharAt(s, k) == IF k <= Len(s) THEN DecodeChar(s[k]) ELSE Foreign

(* What four characters give.                                              *)
Quad(c0, c1, c2, c3) ==
  LET b1 == ((c0 * 4) % 256) + ((c1 \div 16) % 4)
      b2 == ((c1 * 16) % 256) + ((c2 \div 4) % 16)
      b3 == ((c2 * 64) % 256) + (c3 % 64)
  IN IF c1 >= 64 THEN <<>>
     ELSE IF c2 >= 64 THEN <<b1>>
     ELSE IF c3 >= 64 THEN <<b1, b2>> ELSE <<b1, b2, b3>>

LEMMA DecodedGroup ==
  ASSUME NEW s, NEW i \in Nat
  PROVE  DecodeGroup(s, i) =
           Quad(CharAt(s, i), CharAt(s, i + 1), CharAt(s, i + 2), CharAt(s, i + 3))
<1> DEFINE c == [k \in 0..3 |-> IF i + k <= Len(s) THEN DecodeChar(s[i + k]) ELSE Foreign]
<1>1. /\ c[0] = CharAt(s, i) /\ c[1] = CharAt(s, i + 1)
      /\ c[2] = CharAt(s, i + 2) /\ c[3] = CharAt(s, i + 3)
  <2>1. i + 0 = i
    OBVIOUS
  <2>2. \A k \in 0..3 : c[k] = CharAt(s, i + k)
    BY DEF CharAt
  <2>3. c[0] = CharAt(s, i + 0) /\ c[1] = CharAt(s, i + 1)
        /\ c[2] = CharAt(s, i + 2) /\ c[3] = CharAt(s, i + 3)
    BY <2>2
  <2> QED
    BY <2>1, <2>3
<1>2. DecodeGroup(s, i) = Quad(c[0], c[1], c[2], c[3])
  BY DEF DecodeGroup, Quad
<1> HIDE DEF c
<1> QED
  BY <1>1, <1>2

(* The sextets that hold a byte.                                           *)
FirstIn(b1, b2, c0, c1) ==
  c0 = b1 \div 4 /\ c1 = 16 * (b1 % 4) + (b2 \div 16)
SecondIn(b1, b2, b3, c1, c2) ==
  c1 = 16 * (b1 % 4) + (b2 \div 16) /\ c2 = 4 * (b2 % 16) + (b3 \div 64)
ThirdIn(b2, b3, c2, c3) ==
  c2 = 4 * (b2 % 16) + (b3 \div 64) /\ c3 = b3 % 64
(* What Quad makes of them.                                                *)
FirstOut(b1, c0, c1) ==
  ((c0 * 4) % 256) + ((c1 \div 16) % 4) = b1 /\ c1 < 64
SecondOut(b2, c1, c2) ==
  ((c1 * 16) % 256) + ((c2 \div 4) % 16) = b2 /\ c2 < 64
ThirdOut(b3, c2, c3) ==
  ((c2 * 64) % 256) + (c3 % 64) = b3 /\ c3 < 64

LEMMA FirstByte ==
  ASSUME NEW b1 \in 0..255, NEW b2 \in 0..255, NEW c0, NEW c1,
         FirstIn(b1, b2, c0, c1)
  PROVE  FirstOut(b1, c0, c1)
<1>1. (c0 * 4) % 256 = 4 * (b1 \div 4)
  BY DEF FirstIn
<1>2. (c1 \div 16) % 4 = b1 % 4
  BY DEF FirstIn
<1>3. c1 < 64
  BY DEF FirstIn
<1> QED
  BY <1>1, <1>2, <1>3 DEF FirstOut

LEMMA SecondByte ==
  ASSUME NEW b1 \in 0..255, NEW b2 \in 0..255, NEW b3 \in 0..255, NEW c1, NEW c2,
         SecondIn(b1, b2, b3, c1, c2)
  PROVE  SecondOut(b2, c1, c2)
<1>1. (c1 * 16) % 256 = 16 * (b2 \div 16)
  BY DEF SecondIn
<1>2. (c2 \div 4) % 16 = b2 % 16
  BY DEF SecondIn
<1>3. c2 < 64
  BY DEF SecondIn
<1> QED
  BY <1>1, <1>2, <1>3 DEF SecondOut

LEMMA ThirdByte ==
  ASSUME NEW b2 \in 0..255, NEW b3 \in 0..255, NEW c2, NEW c3,
         ThirdIn(b2, b3, c2, c3)
  PROVE  ThirdOut(b3, c2, c3)
<1>1. (c2 * 64) % 256 = 64 * (b3 \div 64)
  BY DEF ThirdIn
<1>2. c3 % 64 = b3 % 64
  BY DEF ThirdIn
<1>3. c3 < 64
  BY DEF ThirdIn
<1> QED
  BY <1>1, <1>2, <1>3 DEF ThirdOut

(* The first m characters of s are sextets of the input, as many as lie in *)
(* it, and the next one ends the text.                                     *)
Encodes(s, in, m) ==
  /\ m \in Nat /\ Len(s) \in Nat /\ m <= Len(s)
  /\ (6 * m) \div 8 <= Len(in)
  /\ \A k \in 1..m : CharAt(s, k) = Sextet(in, k)
  /\ CharAt(s, m + 1) \in {Pad, Foreign}
  /\ m % 4 = 0 => m = Len(s)

(* One round of the loop: three bytes, or those that are whole before the  *)
(* text ends.                                                              *)
LEMMA DecodedOctets ==
  ASSUME NEW in \in Seq(Byte), NEW s, NEW m, Encodes(s, in, m),
         \A k \in Nat : CharAt(s, k) \in 0..65,
         NEW g \in Nat, 4 * g <= m,
         NEW d, d = DecodeGroup(s, 4 * g + 1)
  PROVE  \E n \in 0..3 :
           /\ Len(d) = n
           /\ n = IF 4 * g + 4 <= m THEN 3 ELSE (6 * m) \div 8 - 3 * g
           /\ \A t \in 1..n : d[t] = Octet(in, 3 * g + t)
<1>1. PICK b1, b2, b3 \in 0..255 :
        OctetsAre(in, g, b1, b2, b3) /\ SextetsAre(in, g, b1, b2, b3)
  BY Group
<1>2. m \in Nat /\ Len(s) \in Nat /\ m <= Len(s)
  BY DEF Encodes
<1>3. PICK i \in Nat : i = 4 * g + 1 /\ i + 1 \in Nat /\ i + 2 \in Nat /\ i + 3 \in Nat
  OBVIOUS
<1>4. PICK c0 \in 0..65 : c0 = CharAt(s, i)
  BY <1>3, Zenon
<1>5. PICK c1 \in 0..65 : c1 = CharAt(s, i + 1)
  BY <1>3, Zenon
<1>6. PICK c2 \in 0..65 : c2 = CharAt(s, i + 2)
  BY <1>3, Zenon
<1>7. PICK c3 \in 0..65 : c3 = CharAt(s, i + 3)
  BY <1>3, Zenon
<1>8. d = Quad(c0, c1, c2, c3)
  <2>1. d = DecodeGroup(s, i)
    BY <1>3
  <2> QED
    BY <1>3, <1>4, <1>5, <1>6, <1>7, <2>1, DecodedGroup
<1>9. \A k \in 1..m : CharAt(s, k) = Sextet(in, k)
  BY DEF Encodes
<1>10. /\ Sextet(in, i) = b1 \div 4
       /\ Sextet(in, i + 1) = 16 * (b1 % 4) + (b2 \div 16)
       /\ Sextet(in, i + 2) = 4 * (b2 % 16) + (b3 \div 64)
       /\ Sextet(in, i + 3) = b3 % 64
  <2>1. i + 1 = 4 * g + 2 /\ i + 2 = 4 * g + 3 /\ i + 3 = 4 * g + 4
    BY <1>3
  <2> QED
    BY <1>1, <1>3, <2>1 DEF SextetsAre
<1>11. /\ i <= m => c0 = b1 \div 4
       /\ i + 1 <= m => c1 = 16 * (b1 % 4) + (b2 \div 16)
       /\ i + 2 <= m => c2 = 4 * (b2 % 16) + (b3 \div 64)
       /\ i + 3 <= m => c3 = b3 % 64
  <2>1. /\ i <= m => i \in 1..m
        /\ i + 1 <= m => i + 1 \in 1..m
        /\ i + 2 <= m => i + 2 \in 1..m
        /\ i + 3 <= m => i + 3 \in 1..m
    BY <1>2, <1>3
  <2> QED
    BY <1>4, <1>5, <1>6, <1>7, <1>9, <1>10, <2>1, Zenon
<1>12. CharAt(s, m + 1) >= 64
  BY DEF Encodes, Pad, Foreign
<1>13. /\ Octet(in, 3 * g + 1) = b1 /\ Octet(in, 3 * g + 2) = b2
       /\ Octet(in, 3 * g + 3) = b3
  BY <1>1 DEF OctetsAre
<1>14. CASE 4 * g + 4 <= m
  <2>1. i <= m /\ i + 1 <= m /\ i + 2 <= m /\ i + 3 <= m
    BY <1>2, <1>3, <1>14
  <2>2. FirstOut(b1, c0, c1)
    <3>1. FirstIn(b1, b2, c0, c1)
      BY <1>11, <2>1 DEF FirstIn
    <3> QED
      BY <3>1, FirstByte, Zenon
  <2>3. SecondOut(b2, c1, c2)
    <3>1. SecondIn(b1, b2, b3, c1, c2)
      BY <1>11, <2>1 DEF SecondIn
    <3> QED
      BY <3>1, SecondByte, Zenon
  <2>4. ThirdOut(b3, c2, c3)
    <3>1. ThirdIn(b2, b3, c2, c3)
      BY <1>11, <2>1 DEF ThirdIn
    <3> QED
      BY <3>1, ThirdByte, Zenon
  <2>5. d = <<b1, b2, b3>>
    BY <1>8, <2>2, <2>3, <2>4 DEF Quad, FirstOut, SecondOut, ThirdOut
  <2>6. Len(d) = 3 /\ \A t \in 1..3 : d[t] = Octet(in, 3 * g + t)
    BY <1>13, <2>5
  <2> QED
    BY <1>14, <2>6
<1>15. CASE m = 4 * g
  <2>1. c1 >= 64
    <3>1. ~(i + 1 <= Len(s))
      BY <1>2, <1>3, <1>15 DEF Encodes
    <3> QED
      BY <1>5, <3>1 DEF CharAt, Foreign
  <2>2. d = <<>> /\ (6 * m) \div 8 - 3 * g = 0
    BY <1>8, <1>15, <2>1 DEF Quad
  <2> QED
    BY <1>15, <2>2
<1>16. CASE m = 4 * g + 1
  <2>1. c1 >= 64
    BY <1>3, <1>5, <1>12, <1>16
  <2>2. d = <<>> /\ (6 * m) \div 8 - 3 * g = 0
    BY <1>8, <1>16, <2>1 DEF Quad
  <2> QED
    BY <1>16, <2>2
<1>17. CASE m = 4 * g + 2
  <2>1. i <= m /\ i + 1 <= m /\ m + 1 = i + 2
    BY <1>3, <1>17
  <2>2. FirstOut(b1, c0, c1)
    <3>1. FirstIn(b1, b2, c0, c1)
      BY <1>11, <2>1 DEF FirstIn
    <3> QED
      BY <3>1, FirstByte, Zenon
  <2>3. c2 >= 64
    BY <1>6, <1>12, <2>1
  <2>4. d = <<b1>> /\ (6 * m) \div 8 - 3 * g = 1
    BY <1>8, <1>17, <2>2, <2>3 DEF Quad, FirstOut
  <2>5. Len(d) = 1 /\ \A t \in 1..1 : d[t] = Octet(in, 3 * g + t)
    BY <1>13, <2>4
  <2> QED
    BY <1>17, <2>4, <2>5
<1>18. CASE m = 4 * g + 3
  <2>1. i <= m /\ i + 1 <= m /\ i + 2 <= m /\ m + 1 = i + 3
    BY <1>3, <1>18
  <2>2. FirstOut(b1, c0, c1)
    <3>1. FirstIn(b1, b2, c0, c1)
      BY <1>11, <2>1 DEF FirstIn
    <3> QED
      BY <3>1, FirstByte, Zenon
  <2>3. SecondOut(b2, c1, c2)
    <3>1. SecondIn(b1, b2, b3, c1, c2)
      BY <1>11, <2>1 DEF SecondIn
    <3> QED
      BY <3>1, SecondByte, Zenon
  <2>4. c3 >= 64
    BY <1>7, <1>12, <2>1
  <2>5. d = <<b1, b2>> /\ (6 * m) \div 8 - 3 * g = 2
    BY <1>8, <1>18, <2>2, <2>3, <2>4 DEF Quad, FirstOut, SecondOut
  <2>6. Len(d) = 2 /\ \A t \in 1..2 : d[t] = Octet(in, 3 * g + t)
    BY <1>13, <2>5
  <2> QED
    BY <1>18, <2>5, <2>6
<1> QED
  BY <1>2, <1>14, <1>15, <1>16, <1>17, <1>18

LEMMA CutIs ==
  ASSUME NEW in \in Seq(Byte), NEW n \in Nat
  PROVE  /\ n <= Len(in) => Shortened(in, n) = [k \in 1..n |-> in[k]]
         /\ n >= Len(in) => Shortened(in, n) = in
BY DEF Shortened

(* The loop leaves what is whole of the input.                             *)
LEMMA DecodesAll ==
  ASSUME NEW in \in Seq(Byte), NEW s, NEW m, Encodes(s, in, m),
         \A k \in Nat : CharAt(s, k) \in 0..65
  PROVE  DecodeAll(s) = Shortened(in, (6 * m) \div 8)
<1>1. m \in Nat /\ Len(s) \in Nat /\ m <= Len(s) /\ (6 * m) \div 8 <= Len(in)
  BY DEF Encodes
<1>2. PICK q \in Nat : 4 * q <= m /\ m <= 4 * q + 3
  <2>1. m \div 4 \in Nat /\ 4 * (m \div 4) <= m /\ m <= 4 * (m \div 4) + 3
    BY <1>1
  <2> QED
    BY <2>1
<1> DEFINE G(h) == DecodeGroup(s, 4 * h + 1)
<1>3. ASSUME NEW h \in Nat, h <= q
      PROVE  /\ Len(G(h)) \in 0..3
             /\ Len(G(h)) = IF h < q THEN 3 ELSE (6 * m) \div 8 - 3 * q
             /\ \A t \in 1..Len(G(h)) : G(h)[t] = Octet(in, 3 * h + t)
  <2>1. 4 * h <= m /\ (4 * h + 4 <= m <=> h < q)
    BY <1>1, <1>2, <1>3
  <2>2. PICK n \in 0..3 :
           /\ Len(G(h)) = n
           /\ n = IF 4 * h + 4 <= m THEN 3 ELSE (6 * m) \div 8 - 3 * h
           /\ \A t \in 1..n : G(h)[t] = Octet(in, 3 * h + t)
    BY <2>1, DecodedOctets
  <2>3. ~(h < q) => h = q
    BY <1>2, <1>3
  <2> QED
    BY <2>1, <2>2, <2>3, Zenon
<1>4. /\ (6 * m) \div 8 - 3 * q < 3 /\ (6 * m) \div 8 \in Nat
      /\ q \in Nat /\ q <= q /\ ~(q < q) /\ q \in 0..Len(s)
  BY <1>1, <1>2
<1> HIDE DEF G
<1> DEFINE L(h) == Len(G(h))
<1>5. /\ L(q) = (6 * m) \div 8 - 3 * q /\ L(q) \in 0..3
       /\ \A h \in 0..q - 1 : L(h) = 3
  <2>1. Len(G(q)) = (6 * m) \div 8 - 3 * q /\ Len(G(q)) \in 0..3
    BY <1>3, <1>4
  <2>2. ASSUME NEW h \in 0..q - 1 PROVE Len(G(h)) = 3
    <3>1. h \in Nat /\ h <= q /\ h < q
      BY <1>2
    <3> QED
      BY <1>3, <3>1
  <2> QED
    BY <2>1, <2>2
<1>6. ASSUME NEW g \in Nat
       PROVE  IsLast(s, g) <=> L(g) < 3 /\ \A h \in 0..g - 1 : L(h) = 3
  BY DEF IsLast, G
<1>7. ASSUME NEW h \in Nat, h <= q PROVE \A t \in 1..L(h) : G(h)[t] = Octet(in, 3 * h + t)
  BY <1>3, <1>7
<1> HIDE DEF L
<1>8. \A g \in 0..Len(s) : IsLast(s, g) <=> g = q
  <2> SUFFICES ASSUME NEW g \in 0..Len(s) PROVE IsLast(s, g) <=> g = q
    OBVIOUS
  <2>1. L(q) < 3
    BY <1>4, <1>5
  <2>2. IsLast(s, q)
    BY <1>4, <1>5, <1>6, <2>1
  <2>3. ASSUME IsLast(s, g) PROVE g = q
    <3>1. L(g) < 3 /\ \A h \in 0..g - 1 : L(h) = 3
      BY <1>6, <2>3
    <3>2. ~(g < q)
      <4>1. ASSUME g < q PROVE g \in 0..q - 1
        BY <1>2, <4>1
      <4> QED
        BY <1>5, <3>1, <4>1
    <3>3. ~(q < g)
      <4>1. ASSUME q < g PROVE q \in 0..g - 1
        BY <1>2, <4>1
      <4> QED
        BY <2>1, <3>1, <4>1
    <3> QED
      BY <1>2, <3>2, <3>3
  <2> QED
    BY <2>2, <2>3
<1>9. (CHOOSE g \in 0..Len(s) : IsLast(s, g)) = q
  BY <1>4, <1>8
<1>10. PICK n \in Nat : n = (6 * m) \div 8 /\ n = 3 * q + L(q) /\ n <= Len(in)
  BY <1>1, <1>4, <1>5
<1>11. DecodeAll(s) = [k \in 1..n |-> G((k - 1) \div 3)[((k - 1) % 3) + 1]]
  BY <1>9, <1>10, Zenon DEF DecodeAll, G, L
<1>12. ASSUME NEW k \in 1..n
      PROVE  G((k - 1) \div 3)[((k - 1) % 3) + 1] = in[k]
  <2>1. PICK h \in Nat : h = (k - 1) \div 3
    OBVIOUS
  <2>2. PICK t \in 1..3 : t = ((k - 1) % 3) + 1
    OBVIOUS
  <2>3. k = 3 * h + t
    BY <2>1, <2>2
  <2>4. h <= q
    BY <1>2, <1>10, <1>5, <1>4, <2>1, <2>2, <2>3
  <2>5. t \in 1..L(h)
    <3>1. CASE h < q
      <4>1. h \in 0..q - 1
        BY <1>2, <3>1
      <4> QED
        BY <1>5, <4>1
    <3>2. CASE ~(h < q)
      <4>1. h = q
        BY <1>2, <2>4, <3>2
      <4> QED
        BY <1>10, <1>5, <2>3, <4>1
    <3> QED
      BY <3>1, <3>2
  <2>6. G(h)[t] = Octet(in, 3 * h + t)
    BY <1>7, <2>4, <2>5
  <2>7. Octet(in, k) = in[k]
    BY <1>10 DEF Octet
  <2> QED
    BY <2>1, <2>2, <2>3, <2>6, <2>7, ZenonT(30)
<1>13. DecodeAll(s) = [k \in 1..n |-> in[k]]
  BY <1>11, <1>12
<1> QED
  BY <1>10, <1>13, CutIs, Zenon

-----------------------------------------------------------------------------
(***************************************************************************)
(* The text of an input: so many sextets, then padding                     *)
(***************************************************************************)
Chars(in) == 4 * ((Len(in) + 2) \div 3)
Sextets(in) == (8 * Len(in) + 5) \div 6

LEMMA SextetsFit ==
  ASSUME NEW in \in Seq(Byte)
  PROVE  /\ Len(in) \in Nat /\ Chars(in) \in Nat /\ Sextets(in) \in Nat
         /\ Chars(in) - Sextets(in) = (3 - (Len(in) % 3)) % 3
         /\ Sextets(in) <= Chars(in)
         /\ (6 * Sextets(in)) \div 8 = Len(in)
         /\ Chars(in) % 4 = 0
         /\ Sextets(in) % 4 = 0 => Sextets(in) = Chars(in)
<1>1. PICK l \in Nat : l = Len(in)
  OBVIOUS
<1>2. PICK a \in Nat : l = 3 * a \/ l = 3 * a + 1 \/ l = 3 * a + 2
  <2>1. l \div 3 \in Nat /\ (l = 3 * (l \div 3) \/ l = 3 * (l \div 3) + 1
                             \/ l = 3 * (l \div 3) + 2)
    OBVIOUS
  <2> QED
    BY <2>1
<1>3. CASE l = 3 * a
  <2>1. /\ 4 * ((l + 2) \div 3) = 4 * a /\ (8 * l + 5) \div 6 = 4 * a
        /\ (3 - (l % 3)) % 3 = 0
    BY <1>3
  <2> QED
    BY <1>1, <1>3, <2>1 DEF Chars, Sextets
<1>4. CASE l = 3 * a + 1
  <2>1. /\ 4 * ((l + 2) \div 3) = 4 * a + 4 /\ (8 * l + 5) \div 6 = 4 * a + 2
        /\ (3 - (l % 3)) % 3 = 2
    BY <1>4
  <2> QED
    BY <1>1, <1>4, <2>1 DEF Chars, Sextets
<1>5. CASE l = 3 * a + 2
  <2>1. /\ 4 * ((l + 2) \div 3) = 4 * a + 4 /\ (8 * l + 5) \div 6 = 4 * a + 3
        /\ (3 - (l % 3)) % 3 = 1
    BY <1>5
  <2> QED
    BY <1>1, <1>5, <2>1 DEF Chars, Sextets
<1> QED
  BY <1>2, <1>3, <1>4, <1>5

LEMMA TextChars ==
  ASSUME NEW in \in Seq(Byte), NEW B, B = Base64Of(in)
  PROVE  /\ Len(B) = Chars(in) /\ DOMAIN B = 1..Chars(in)
         /\ \A k \in 1..Chars(in) :
              DecodeChar(B[k]) = IF k <= Sextets(in) THEN Sextet(in, k) ELSE Pad
<1>1. Len(in) \in Nat /\ Chars(in) \in Nat /\ Sextets(in) \in Nat
  BY SextetsFit
<1>2. B = [k \in 1..Chars(in) |->
             Base64Data(IF 6 * (k - 1) >= 8 * Len(in) THEN Pad ELSE Sextet(in, k))]
  BY DEF Base64Of, Chars
<1>3. ASSUME NEW k \in 1..Chars(in)
      PROVE  DecodeChar(B[k]) = IF k <= Sextets(in) THEN Sextet(in, k) ELSE Pad
  <2>1. 6 * (k - 1) >= 8 * Len(in) <=> ~(k <= Sextets(in))
    BY <1>1 DEF Sextets
  <2>2. B[k] = Base64Data(IF k <= Sextets(in) THEN Sextet(in, k) ELSE Pad)
    BY <1>2, <2>1
  <2>3. Sextet(in, k) \in 0..63
    <3>1. k \in Nat \ {0}
      BY <1>1
    <3> QED
      BY <3>1, SextetTyped, Zenon
  <2>4. CASE k <= Sextets(in)
    <3>1. Sextet(in, k) \in 0..64
      BY <2>3
    <3> QED
      BY <2>2, <2>4, <3>1, DecodesChar, Zenon
  <2>5. CASE ~(k <= Sextets(in))
    <3>1. Pad \in 0..64
      BY DEF Pad
    <3> QED
      BY <2>2, <2>5, <3>1, DecodesChar, Zenon
  <2> QED
    BY <2>4, <2>5
<1> QED
  BY <1>1, <1>2, <1>3

LEMMA DecodeCharTyped == \A c : DecodeChar(c) \in 0..65
BY DEF DecodeChar, Pad, Foreign

LEMMA CharTyped == ASSUME NEW s PROVE \A k \in Nat : CharAt(s, k) \in 0..65
BY DecodeCharTyped DEF CharAt, Foreign

(* Without some of its padding, a text still decodes to the whole input.   *)
LEMMA DecodesStripped ==
  ASSUME NEW in \in Seq(Byte), NEW p \in 0..(3 - (Len(in) % 3)) % 3
  PROVE  DecodeAll(Stripped(Base64Of(in), p)) = in
<1>1. PICK B : B = Base64Of(in)
  OBVIOUS
<1>2. PICK N \in Nat : N = Chars(in)
  BY SextetsFit
<1>3. PICK M \in Nat : M = Sextets(in)
  BY SextetsFit
<1>4. (6 * M) \div 8 = Len(in) /\ (M % 4 = 0 => M = N)
  BY <1>2, <1>3, SextetsFit
<1>5. M <= N /\ p \in 0..N - M /\ p \in Nat /\ M <= N - p /\ N - p \in Nat
  <2>1. M <= N /\ N - M = (3 - (Len(in) % 3)) % 3
    BY <1>2, <1>3, SextetsFit
  <2>2. p \in 0..N - M
    BY <2>1
  <2> QED
    BY <1>2, <1>3, <2>1, <2>2
<1>6. /\ Len(B) = N /\ DOMAIN B = 1..N
      /\ \A k \in 1..N : DecodeChar(B[k]) = IF k <= M THEN Sextet(in, k) ELSE Pad
  BY <1>1, <1>2, <1>3, TextChars
<1>7. PICK s : s = Stripped(B, p)
  OBVIOUS
<1>8. Len(s) = N - p /\ \A k \in 1..N - p : s[k] = B[k]
  <2>1. s = SubSeq(B, 1, N - p)
    BY <1>6, <1>7 DEF Stripped
  <2>2. \A k \in 1..N - p : k \in 1..N
    BY <1>2, <1>5
  <2>3. s = [k \in 1..N - p |-> B[k]]
    BY <1>5, <2>1, <2>2
  <2> QED
    BY <1>5, <2>3
<1>9. Encodes(s, in, M)
  <2>1. ASSUME NEW k \in 1..M PROVE CharAt(s, k) = Sextet(in, k)
    <3>1. k \in 1..N - p /\ k \in 1..N /\ k <= M /\ k <= N - p
      BY <1>2, <1>3, <1>5
    <3> QED
      BY <1>6, <1>8, <3>1 DEF CharAt
  <2>2. CharAt(s, M + 1) \in {Pad, Foreign}
    <3>1. CASE M + 1 <= N - p
      <4>1. M + 1 \in 1..N - p /\ M + 1 \in 1..N /\ ~(M + 1 <= M)
        BY <1>2, <1>3, <1>5, <3>1
      <4> QED
        BY <1>6, <1>8, <3>1, <4>1 DEF CharAt
    <3>2. CASE ~(M + 1 <= N - p)
      BY <1>8, <3>2 DEF CharAt
    <3> QED
      BY <3>1, <3>2
  <2>3. N - p \in Nat /\ M <= N - p /\ (M % 4 = 0 => M = N - p)
    <3>1. M = N => M = N - p
      BY <1>2, <1>3, <1>5
    <3> QED
      BY <1>4, <1>5, <3>1
  <2>4. M \in Nat /\ (6 * M) \div 8 <= Len(in)
    BY <1>3, <1>4, SextetsFit
  <2> QED
    BY <1>8, <2>1, <2>2, <2>3, <2>4 DEF Encodes
<1>10. DecodeAll(s) = Shortened(in, Len(in))
  <2>1. DecodeAll(s) = Shortened(in, (6 * M) \div 8)
    BY <1>9, CharTyped, DecodesAll
  <2> QED
    BY <1>4, <2>1
<1>11. Shortened(in, Len(in)) = in
  BY SextetsFit, CutIs
<1> QED
  BY <1>1, <1>7, <1>10, <1>11

(* A text with a foreign character decodes to what is whole before it.     *)
LEMMA DecodesUpToForeign ==
  ASSUME NEW in \in Seq(Byte), NEW k \in 1..Len(Base64Of(in)), k % 4 # 1
  PROVE  DecodeAll([Base64Of(in) EXCEPT ![k] = 0]) = Shortened(in, (6 * (k - 1)) \div 8)
<1>1. PICK B : B = Base64Of(in)
  OBVIOUS
<1>2. PICK N \in Nat : N = Chars(in)
  BY SextetsFit
<1>3. PICK M \in Nat : M = Sextets(in)
  BY SextetsFit
<1>4. (6 * M) \div 8 = Len(in) /\ (M % 4 = 0 => M = N) /\ N % 4 = 0
  BY <1>2, <1>3, SextetsFit
<1>5. M <= N
  BY <1>2, <1>3, SextetsFit
<1>6. /\ Len(B) = N /\ DOMAIN B = 1..N
      /\ \A j \in 1..N : DecodeChar(B[j]) = IF j <= M THEN Sextet(in, j) ELSE Pad
  BY <1>1, <1>2, <1>3, TextChars
<1>7. k \in 1..N
  BY <1>1, <1>6
<1>8. PICK s : s = [B EXCEPT ![k] = 0]
  BY Zenon
<1>9. /\ Len(s) = N /\ s[k] = 0
      /\ \A j \in 1..N : j # k => s[j] = B[j]
  BY <1>2, <1>6, <1>7, <1>8
<1>10. PICK m \in Nat : m = IF k - 1 <= M THEN k - 1 ELSE M
  BY <1>7, <1>3
<1>11. m <= M /\ m < k /\ m < N /\ m % 4 # 0
  <2>1. (k - 1) % 4 # 0
    BY <1>7
  <2>2. m <= M /\ m < k
    BY <1>7, <1>10, <1>3
  <2>3. CASE k - 1 <= M
    BY <1>2, <1>7, <1>10, <2>1, <2>2, <2>3
  <2>4. CASE ~(k - 1 <= M)
    <3>1. m = M /\ M < N
      BY <1>2, <1>7, <1>10, <1>3, <2>4
    <3> QED
      BY <1>2, <1>3, <1>4, <2>2, <3>1
  <2> QED
    BY <2>3, <2>4
<1>12. Encodes(s, in, m)
  <2>1. ASSUME NEW j \in 1..m PROVE CharAt(s, j) = Sextet(in, j)
    <3>1. j \in 1..N /\ j # k /\ j <= M /\ j <= N
      BY <1>2, <1>7, <1>11, <1>3
    <3> QED
      BY <1>6, <1>9, <3>1 DEF CharAt
  <2>2. CharAt(s, m + 1) \in {Pad, Foreign}
    <3>1. m + 1 \in 1..N /\ m + 1 <= N
      BY <1>2, <1>11
    <3>2. CASE m + 1 = k
      BY <1>9, <3>1, <3>2, DecodesChar, Zenon DEF CharAt
    <3>3. CASE m + 1 # k
      <4>1. ~(m + 1 <= M)
        BY <1>7, <1>10, <1>3, <3>3
      <4> QED
        BY <1>6, <1>9, <3>1, <3>3, <4>1 DEF CharAt
    <3> QED
      BY <3>2, <3>3
  <2>3. (6 * m) \div 8 <= Len(in)
    <3>1. (6 * m) \div 8 <= (6 * M) \div 8
      BY <1>11, <1>3
    <3> QED
      BY <1>4, <3>1
  <2>4. m <= N
    BY <1>2, <1>11
  <2> QED
    BY <1>2, <1>9, <1>11, <2>1, <2>2, <2>3, <2>4 DEF Encodes
<1>13. DecodeAll(s) = Shortened(in, (6 * m) \div 8)
  BY <1>12, CharTyped, DecodesAll, Zenon
<1>14. Shortened(in, (6 * m) \div 8) = Shortened(in, (6 * (k - 1)) \div 8)
  <2>1. CASE k - 1 <= M
    BY <1>10, <2>1
  <2>2. CASE ~(k - 1 <= M)
    <3>1. (6 * m) \div 8 = Len(in)
      BY <1>10, <1>4, <2>2
    <3>2. (6 * (k - 1)) \div 8 \in Nat /\ (6 * M) \div 8 <= (6 * (k - 1)) \div 8
      BY <1>7, <1>3, <2>2
    <3>3. Len(in) \in Nat
      OBVIOUS
    <3>4. (6 * (k - 1)) \div 8 >= Len(in) /\ Len(in) \in Nat /\ Len(in) >= Len(in)
      BY <1>4, <3>2, <3>3
    <3>5. Shortened(in, (6 * (k - 1)) \div 8) = in
      BY <3>2, <3>4, CutIs
    <3>6. Shortened(in, Len(in)) = in
      BY <3>4, CutIs, ZenonT(30)
    <3> QED
      BY <3>1, <3>5, <3>6
  <2> QED
    BY <2>1, <2>2
<1> QED
  BY <1>1, <1>8, <1>13, <1>14

-----------------------------------------------------------------------------
(***************************************************************************)
(* The theorems                                                            *)
(***************************************************************************)
Typed == input \in Seq(Byte) /\ olen \in 1..MaxOut

LEMMA AlwaysTyped == Base64Spec => []Typed
<1>1. Base64Init => Typed
  BY Base64Assumption DEF Base64Init, Typed
<1>2. Typed /\ [Base64Next]_base64Vars => Typed'
  <2> SUFFICES ASSUME Typed, [Base64Next]_base64Vars PROVE Typed'
    OBVIOUS
  <2>1. ASSUME NEW b \in ByteSet, Grow(b) PROVE Typed'
    <3>1. b \in Byte
      BY Base64Assumption DEF Byte
    <3> QED
      BY <2>1, <3>1 DEF Grow, Typed
  <2>2. CASE Restart
    BY <2>2 DEF Restart, Typed
  <2>3. CASE UNCHANGED base64Vars
    BY <2>3 DEF base64Vars, Typed
  <2> QED
    BY <2>1, <2>2, <2>3 DEF Base64Next
<1> QED
  BY <1>1, <1>2, PTL DEF Base64Spec

(* attoHTTPBase64Encode: whatever the bytes of the input, as long as those *)
(* it shifts with their sign are below 128, what it returns is RFC 2045,   *)
(* cut to the buffer.                                                      *)
THEOREM EncodesEveryInput == Base64Spec => []EncodesBase64
<1>1. Typed => EncodesBase64
  BY EncodesAll DEF Typed, EncodesBase64, Encode, Terminated
<1> QED
  BY <1>1, AlwaysTyped, PTL

(* attoHTTPBase64Decode: the text of every input, with all, some or none   *)
(* of its padding, decodes to the input, cut to the buffer.                *)
THEOREM DecodesEveryInput == Base64Spec => []DecodesBase64
<1>1. Typed => DecodesBase64
  BY DecodesStripped DEF Typed, DecodesBase64, Decode, Terminated
<1> QED
  BY <1>1, AlwaysTyped, PTL

(* attoHTTPBase64Decode: a character that is not of base64 ends it with    *)
(* the bytes that are whole before it, unless it is the first of its four. *)
THEOREM StopsInEveryInput == Base64Spec => []StopsAtForeign
<1>1. Typed => StopsAtForeign
  BY DecodesUpToForeign, ZenonT(30) DEF Typed, StopsAtForeign, Decode, Terminated
<1> QED
  BY <1>1, AlwaysTyped, PTL
=============================================================================
