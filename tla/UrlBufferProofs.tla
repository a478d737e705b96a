-------------------------- MODULE UrlBufferProofs --------------------------
(***************************************************************************)
(* What the C string operators of UrlBuffer return, for every buffer size  *)
(* and every set of bytes: the lemmas the proofs about the request         *)
(* lifecycle and about the levels of a URL share.                          *)
(***************************************************************************)
EXTENDS UrlBuffer, SequenceTheorems, WellFoundedInduction, TLAPS

LEMMA BufferSize ==
  /\ UrlBufferSize \in Nat /\ UrlBufferSize >= 2
  /\ 0 \in UrlIndex /\ UrlBufferSize - 1 \in UrlIndex
BY UrlBufferAssumption DEF UrlIndex

(* A set of natural numbers that is not empty has a least element: where a *)
(* search from 0 upwards stops.                                            *)
LEMMA LeastNumber ==
  ASSUME NEW T, T \subseteq Nat, T # {}
  PROVE  \E x \in T : \A y \in T : x <= y
<1> DEFINE R == {ss \in Nat \X Nat : ss[1] < ss[2]}
<1>1. IsWellFoundedOn(R, Nat)
  BY NatLessThanWellFounded DEF OpToRel
<1>2. PICK x \in T : \A y \in T : ~(<<y, x>> \in R)
  <2> HIDE DEF R
  <2> QED
    BY <1>1, WFMin, Zenon
<1>3. ASSUME NEW y \in T PROVE x <= y
  <2>1. x \in Nat /\ y \in Nat
    OBVIOUS
  <2>2. <<y, x>> \in Nat \X Nat /\ <<y, x>>[1] = y /\ <<y, x>>[2] = x
    BY <2>1
  <2>3. ~(y < x)
    BY <1>2, <2>2
  <2> QED
    BY <2>1, <2>3
<1> QED
  BY <1>3

-----------------------------------------------------------------------------
(* Cut keeps the first n elements.                                         *)
LEMMA CutProperties ==
  ASSUME NEW S, NEW s \in Seq(S), NEW n \in Nat
  PROVE  /\ Cut(s, n) \in Seq(S)
         /\ Len(Cut(s, n)) = IF Len(s) <= n THEN Len(s) ELSE n
         /\ \A i \in 1..Len(Cut(s, n)) : Cut(s, n)[i] = s[i]
<1>1. CASE Len(s) <= n
  BY <1>1 DEF Cut
<1>2. CASE ~(Len(s) <= n)
  <2>1. n \in Int /\ Len(s) \in Nat /\ 1..n \subseteq 1..Len(s)
    BY <1>2
  <2>2. \A i \in 1..n : s[i] \in S
    BY <2>1, ElementOfSeq
  <2>3. /\ SubSeq(s, 1, n) \in Seq(S)
        /\ Len(SubSeq(s, 1, n)) = (IF 1 <= n THEN n - 1 + 1 ELSE 0)
        /\ \A i \in 1..n - 1 + 1 : SubSeq(s, 1, n)[i] = s[1 + i - 1]
    BY <2>1, <2>2, SubSeqProperties
  <2>4. Cut(s, n) = SubSeq(s, 1, n)
    BY <1>2 DEF Cut
  <2>5. Len(SubSeq(s, 1, n)) = n
    BY <2>3
  <2>6. \A i \in 1..n : i \in 1..n - 1 + 1 /\ 1 + i - 1 = i
    OBVIOUS
  <2>7. \A i \in 1..n : SubSeq(s, 1, n)[i] = s[i]
    BY <2>3, <2>6
  <2> QED
    BY <1>2, <2>3, <2>4, <2>5, <2>7
<1> QED
  BY <1>1, <1>2

(* The number of bytes of a token that are stored, and what is counted.    *)
LEMMA StoredLenInBuffer ==
  ASSUME NEW S, NEW tok \in Seq(S), NEW eof
  PROVE  /\ Len(Cut(tok, UrlBufferSize - 1)) \in 0..UrlBufferSize - 1
         /\ Len(Cut(tok, UrlBufferSize - 1)) <= Len(tok)
         /\ StoredLen(tok, eof) \in UrlIndex
<1> DEFINE n == Len(Cut(tok, UrlBufferSize - 1))
<1>1. UrlBufferSize - 1 \in Nat
  BY BufferSize
<1>2. n = IF Len(tok) <= UrlBufferSize - 1 THEN Len(tok) ELSE UrlBufferSize - 1
  BY <1>1, CutProperties
<1>3. Len(tok) \in Nat
  OBVIOUS
<1>4. n \in 0..UrlBufferSize - 1 /\ n <= Len(tok)
  BY <1>1, <1>2, <1>3
<1> HIDE DEF n
<1>5. (IF eof /\ n < UrlBufferSize - 1 THEN n + 1 ELSE n) \in UrlIndex
  BY <1>1, <1>4 DEF UrlIndex
<1> QED
  BY <1>4, <1>5 DEF StoredLen, n

(* _attoHTTPParseURL leaves bytes of the token, terminators and old bytes. *)
LEMMA StoredProperties ==
  ASSUME NEW S, NEW old \in [UrlIndex -> S \cup {NUL}],
         NEW tok \in Seq(S \cup {"?"}), NEW eof
  PROVE  Stored(old, tok, eof) \in [UrlIndex -> S \cup {NUL}]
<1> DEFINE n == Len(Cut(tok, UrlBufferSize - 1))
           s == Stored(old, tok, eof)
<1>1. n \in 0..UrlBufferSize - 1 /\ n <= Len(tok)
  BY StoredLenInBuffer
<1>2. ASSUME NEW i \in UrlIndex PROVE s[i] \in S \cup {NUL}
  <2>1. CASE i < n
    <3>1. i + 1 \in 1..Len(tok)
      BY <1>1, <2>1, BufferSize DEF UrlIndex
    <3>2. tok[i + 1] \in S \cup {"?"}
      BY <3>1, ElementOfSeq, Zenon
    <3>3. s[i] = IF tok[i + 1] = "?" THEN NUL ELSE tok[i + 1]
      BY <2>1, Zenon DEF Stored
    <3> QED
      BY <3>2, <3>3, Zenon
  <2>2. CASE ~(i < n)
    <3>1. old[i] \in S \cup {NUL}
      BY Zenon
    <3>2. s[i] = IF i = StoredLen(tok, eof) THEN NUL ELSE old[i]
      BY <2>2, Zenon DEF Stored
    <3> QED
      BY <3>1, <3>2, Zenon
  <2> QED
    BY <2>1, <2>2
<1>3. s = [i \in UrlIndex |-> s[i]]
  BY Zenon DEF Stored
<1> HIDE DEF s
<1>4. s \in [UrlIndex -> S \cup {NUL}]
  BY <1>2, <1>3, Zenon
<1> QED
  BY <1>4 DEF s

(* The last byte stays a terminator.                                       *)
LEMMA StoredTerminated ==
  ASSUME NEW S, NEW tok \in Seq(S), NEW old, NEW eof,
         old[UrlBufferSize - 1] = NUL
  PROVE  Stored(old, tok, eof)[UrlBufferSize - 1] = NUL
<1>1. ~(UrlBufferSize - 1 < Len(Cut(tok, UrlBufferSize - 1)))
  BY StoredLenInBuffer, BufferSize
<1> QED
  BY <1>1, BufferSize, Zenon DEF Stored

(* Splitting a URL at its slashes only adds terminators.                   *)
LEMMA SplitProperties ==
  ASSUME NEW S, NEW buf \in [UrlIndex -> S], NEW len,
         NUL \in S, buf[UrlBufferSize - 1] = NUL
  PROVE  /\ Split(buf, len) \in [UrlIndex -> S]
         /\ Split(buf, len)[UrlBufferSize - 1] = NUL
BY BufferSize, Zenon DEF Split

(* A buffer that ends with a terminator holds a string.                    *)
LEMMA StrLenProperties ==
  ASSUME NEW buf, DOMAIN buf = UrlIndex, buf[UrlBufferSize - 1] = NUL
  PROVE  /\ StrLen(buf) \in UrlIndex /\ buf[StrLen(buf)] = NUL
         /\ \A j \in 0..StrLen(buf) - 1 : buf[j] # NUL
<1> DEFINE T == {i \in UrlIndex : buf[i] = NUL}
<1>1. T \subseteq Nat /\ T # {}
  BY BufferSize DEF UrlIndex
<1>2. PICK x \in T : \A y \in T : x <= y
  BY <1>1, LeastNumber
<1>3. \A j \in 0..x - 1 : buf[j] # NUL
  <2> TAKE j \in 0..x - 1
  <2>1. x \in UrlIndex
    BY <1>2
  <2>2. j \in UrlIndex /\ ~(x <= j)
    BY <2>1, BufferSize DEF UrlIndex
  <2> QED
    BY <1>2, <2>2
<1>4. x \in UrlIndex /\ buf[x] = NUL
  BY <1>2
<1> HIDE DEF T
<1>5. \E n \in UrlIndex : buf[n] = NUL /\ \A j \in 0..n - 1 : buf[j] # NUL
  BY <1>3, <1>4
<1> QED
  BY <1>5, Zenon DEF StrLen

-----------------------------------------------------------------------------
(* Before stops at the first b.                                            *)
LEMMA BeforeProperties ==
  ASSUME NEW S, NEW s \in Seq(S), NEW b
  PROVE  /\ Before(s, b) \in Seq(S)
         /\ Len(Before(s, b)) \in 0..Len(s)
         /\ \A i \in 1..Len(Before(s, b)) : Before(s, b)[i] = s[i] /\ s[i] # b
         /\ Len(Before(s, b)) < Len(s) => s[Len(Before(s, b)) + 1] = b
<1>1. Len(s) \in Nat
  OBVIOUS
<1>2. CASE \A i \in 1..Len(s) : s[i] # b
  <2>1. Before(s, b) = s
    BY <1>2, Zenon DEF Before
  <2> QED
    BY <1>1, <1>2, <2>1
<1>3. CASE \E i \in 1..Len(s) : s[i] = b
  <2> DEFINE T == {i \in 1..Len(s) : s[i] = b}
             First(i) == s[i] = b /\ \A j \in 1..i - 1 : s[j] # b
             p == CHOOSE i \in 1..Len(s) : First(i)
  <2>1. T \subseteq Nat /\ T # {}
    BY <1>1, <1>3
  <2>2. PICK x \in T : \A y \in T : x <= y
    BY <2>1, LeastNumber
  <2>3. x \in 1..Len(s) /\ s[x] = b
    BY <2>2
  <2>4. \A j \in 1..x - 1 : s[j] # b
    <3> TAKE j \in 1..x - 1
    <3>1. j \in 1..Len(s) /\ ~(x <= j)
      BY <1>1, <2>3
    <3> QED
      BY <2>2, <3>1
  <2> HIDE DEF T
  <2>5. First(x)
    BY <2>3, <2>4
  <2>6. p \in 1..Len(s) /\ First(p)
    <3> HIDE DEF First
    <3> QED
      BY <2>3, <2>5, Zenon
  <2>7. Before(s, b) = SubSeq(s, 1, p - 1)
    BY <1>3, Zenon DEF Before
  <2> HIDE DEF p
  <2>8. p \in Nat /\ p - 1 \in 0..Len(s) - 1 /\ 1..p - 1 \subseteq 1..Len(s)
    BY <1>1, <2>6
  <2>9. \A i \in 1..p - 1 : s[i] \in S
    BY <2>8, ElementOfSeq
  <2>10. /\ SubSeq(s, 1, p - 1) \in Seq(S)
         /\ Len(SubSeq(s, 1, p - 1)) = (IF 1 <= p - 1 THEN p - 1 - 1 + 1 ELSE 0)
         /\ \A i \in 1..p - 1 - 1 + 1 : SubSeq(s, 1, p - 1)[i] = s[1 + i - 1]
    BY <2>8, <2>9, SubSeqProperties
  <2>11. Len(SubSeq(s, 1, p - 1)) = p - 1
    BY <2>8, <2>10
  <2>12. \A i \in 1..p - 1 : i \in 1..p - 1 - 1 + 1 /\ 1 + i - 1 = i
    BY <2>8
  <2>13. \A i \in 1..p - 1 : SubSeq(s, 1, p - 1)[i] = s[i]
    BY <2>10, <2>12
  <2>14. p - 1 + 1 = p
    BY <2>8
  <2> QED
    BY <1>1, <2>6, <2>7, <2>8, <2>10, <2>11, <2>13, <2>14
<1> QED
  BY <1>2, <1>3

(* Storing the token once more changes nothing: what a buffer holds of the *)
(* token does not depend on what was in it before.                         *)
LEMMA StoredAgain ==
  ASSUME NEW old, NEW tok, NEW eof
  PROVE  Stored(old, tok, eof) = Stored(Stored(old, tok, eof), tok, eof)
<1> DEFINE s == Stored(old, tok, eof)
<1>1. ASSUME NEW i \in UrlIndex PROVE s[i] = Stored(s, tok, eof)[i]
  BY Zenon DEF Stored
<1>2. /\ s = [i \in UrlIndex |-> s[i]]
      /\ Stored(s, tok, eof) = [i \in UrlIndex |-> Stored(s, tok, eof)[i]]
  BY Zenon DEF Stored
<1> HIDE DEF s
<1>3. s = Stored(s, tok, eof)
  BY <1>1, <1>2, Zenon
<1> QED
  BY <1>3 DEF s

(* The bytes of a buffer that holds a token: those that were received, and *)
(* a terminator after them if the token was received whole.                *)
LEMMA StoredByte ==
  ASSUME NEW tok, NEW old, NEW eof, NEW i \in UrlIndex,
         i < Len(Cut(tok, UrlBufferSize - 1))
  PROVE  Stored(old, tok, eof)[i] = IF tok[i + 1] = "?" THEN NUL ELSE tok[i + 1]
BY Zenon DEF Stored

LEMMA StoredEnd ==
  ASSUME NEW tok, NEW old, NEW eof, ~eof,
         Len(Cut(tok, UrlBufferSize - 1)) \in UrlIndex
  PROVE  /\ Stored(old, tok, eof)[Len(Cut(tok, UrlBufferSize - 1))] = NUL
         /\ StoredLen(tok, eof) = Len(Cut(tok, UrlBufferSize - 1))
<1> DEFINE n == Len(Cut(tok, UrlBufferSize - 1))
<1>1. StoredLen(tok, eof) = n
  BY Zenon DEF StoredLen
<1>2. ~(n < n)
  <2>1. n \in Int
    BY BufferSize DEF UrlIndex
  <2> HIDE DEF n
  <2> QED
    BY <2>1
<1> QED
  BY <1>1, <1>2, Zenon DEF Stored

(* The C string of a buffer, as a sequence.                                *)
LEMMA CStringProperties ==
  ASSUME NEW S, NEW buf \in [UrlIndex -> S \cup {NUL}],
         buf[UrlBufferSize - 1] = NUL
  PROVE  /\ CString(buf) \in Seq(S)
         /\ Len(CString(buf)) = StrLen(buf)
         /\ \A i \in 1..StrLen(buf) : CString(buf)[i] = buf[i - 1]
<1> DEFINE n == StrLen(buf)
           c == CString(buf)
<1>1. n \in UrlIndex /\ \A j \in 0..n - 1 : buf[j] # NUL
  BY StrLenProperties
<1>2. c = [i \in 1..n |-> buf[i - 1]]
  BY DEF CString
<1> HIDE DEF n, c
<1>3. n \in Nat /\ \A i \in 1..n : i - 1 \in 0..n - 1 /\ i - 1 \in UrlIndex
  BY <1>1, BufferSize DEF UrlIndex
<1>4. \A i \in 1..n : buf[i - 1] \in S
  BY <1>1, <1>3
<1>5. c \in [1..n -> S]
  BY <1>2, <1>4
<1>6. c \in Seq(S) /\ Len(c) = n
  BY <1>3, <1>5, SeqDef, LenProperties
<1>7. \A i \in 1..n : c[i] = buf[i - 1]
  BY <1>2
<1> QED
  BY <1>6, <1>7 DEF n, c

(* A buffer into which a whole token was stored holds the path of what     *)
(* fits of it: the "?" and everything behind it are out of sight.          *)
LEMMA StoredPath ==
  ASSUME NEW S, NEW tok \in Seq(S \cup {"?"}), NEW buf \in [UrlIndex -> S \cup {NUL}],
         NEW eof, ~eof, NUL \notin S, "?" \notin S, buf[UrlBufferSize - 1] = NUL,
         buf = Stored(buf, tok, eof)
  PROVE  /\ CString(buf) = PathOf(Cut(tok, UrlBufferSize - 1))
         /\ StrLen(buf) <= Len(Cut(tok, UrlBufferSize - 1))
<1> DEFINE t == Cut(tok, UrlBufferSize - 1)
           p == PathOf(t)
           n == StrLen(buf)
<1>1. /\ t \in Seq(S \cup {"?"}) /\ \A i \in 1..Len(t) : t[i] = tok[i]
      /\ Len(t) \in 0..UrlBufferSize - 1 /\ Len(t) \in Nat /\ Len(t) <= Len(tok)
  <2>1. UrlBufferSize - 1 \in Nat
    BY BufferSize
  <2>2. t \in Seq(S \cup {"?"}) /\ \A i \in 1..Len(t) : t[i] = tok[i]
    BY <2>1, CutProperties
  <2>3. Len(t) \in 0..UrlBufferSize - 1 /\ Len(t) <= Len(tok)
    BY StoredLenInBuffer
  <2> HIDE DEF t
  <2> QED
    BY <2>1, <2>2, <2>3
<1>2. /\ \A i \in 0..Len(t) - 1 :
           buf[i] = IF tok[i + 1] = "?" THEN NUL ELSE tok[i + 1]
      /\ buf[Len(t)] = NUL
  <2>1. Len(t) \in UrlIndex
    BY <1>1 DEF UrlIndex
  <2>2. buf[Len(t)] = NUL
    <3>1. Stored(buf, tok, eof)[Len(t)] = NUL
      BY <2>1, StoredEnd
    <3> QED
      BY <3>1, Zenon
  <2>3. ASSUME NEW i \in 0..Len(t) - 1
        PROVE  buf[i] = IF tok[i + 1] = "?" THEN NUL ELSE tok[i + 1]
    <3>1. i \in UrlIndex /\ i < Len(t)
      <4> HIDE DEF t
      <4> QED
        BY <1>1, BufferSize DEF UrlIndex
    <3>2. Stored(buf, tok, eof)[i] = IF tok[i + 1] = "?" THEN NUL ELSE tok[i + 1]
      BY <3>1, StoredByte
    <3> QED
      BY <3>2, Zenon
  <2> QED
    BY <2>2, <2>3, Zenon
<1> HIDE DEF t
<1>3. /\ p \in Seq(S \cup {"?"}) /\ Len(p) \in 0..Len(t)
      /\ \A i \in 1..Len(p) : p[i] = t[i] /\ t[i] # "?"
      /\ Len(p) < Len(t) => t[Len(p) + 1] = "?"
  BY <1>1, BeforeProperties DEF PathOf
<1> HIDE DEF p
<1>4. \A i \in 1..Len(p) : buf[i - 1] = p[i] /\ buf[i - 1] # NUL
  <2> TAKE i \in 1..Len(p)
  <2>1. i - 1 \in 0..Len(t) - 1 /\ i - 1 + 1 = i /\ i \in 1..Len(t)
    BY <1>1, <1>3
  <2>2. tok[i] = p[i] /\ tok[i] # "?"
    BY <1>1, <1>3, <2>1
  <2>3. buf[i - 1] = tok[i]
    BY <1>2, <2>1, <2>2
  <2>4. i \in 1..Len(tok)
    BY <1>1, <2>1
  <2>5. tok[i] \in S \cup {"?"}
    BY <2>4, ElementOfSeq
  <2> QED
    BY <2>2, <2>3, <2>5
<1>5. buf[Len(p)] = NUL
  <2>1. CASE Len(p) = Len(t)
    BY <1>2, <2>1
  <2>2. CASE Len(p) # Len(t)
    <3>1. Len(p) \in 0..Len(t) - 1 /\ Len(p) + 1 \in 1..Len(t) /\ Len(p) < Len(t)
      BY <1>1, <1>3, <2>2
    <3>2. tok[Len(p) + 1] = "?"
      BY <1>1, <1>3, <3>1
    <3> QED
      BY <1>2, <3>1, <3>2
  <2> QED
    BY <2>1, <2>2
<1>6. n \in UrlIndex /\ buf[n] = NUL /\ \A j \in 0..n - 1 : buf[j] # NUL
  BY StrLenProperties
<1>7. CString(buf) \in Seq(S) /\ Len(CString(buf)) = n
      /\ \A i \in 1..n : CString(buf)[i] = buf[i - 1]
  BY CStringProperties
<1> HIDE DEF n
<1>8. n = Len(p)
  <2>1. n \in Nat /\ Len(p) \in Nat
    BY <1>1, <1>3, <1>6, BufferSize DEF UrlIndex
  <2>2. ~(n < Len(p))
    <3>1. SUFFICES ASSUME n < Len(p) PROVE FALSE
      OBVIOUS
    <3>2. PICK i \in 1..Len(p) : i - 1 = n
      BY <2>1, <3>1
    <3>3. buf[i - 1] # NUL
      BY <1>4
    <3> QED
      BY <1>6, <3>2, <3>3
  <2>3. ~(Len(p) < n)
    <3>1. SUFFICES ASSUME Len(p) < n PROVE FALSE
      OBVIOUS
    <3>2. Len(p) \in 0..n - 1
      BY <2>1, <3>1
    <3> QED
      BY <1>5, <1>6, <3>2
  <2>4. \A k \in Nat : n \in Nat /\ ~(n < k) /\ ~(k < n) => n = k
    OBVIOUS
  <2> QED
    BY <2>1, <2>2, <2>3, <2>4, Zenon
<1>9. CString(buf) = p
  <2> DEFINE c == CString(buf)
  <2>1. \A i \in 1..n : c[i] = p[i]
    BY <1>4, <1>7, <1>8
  <2>2. c \in Seq(S) /\ p \in Seq(S \cup {"?"}) /\ Len(c) = Len(p)
    BY <1>3, <1>7, <1>8
  <2> HIDE DEF c
  <2>3. c \in Seq(S \cup {"?"})
    BY <2>2, Zenon, SeqMonotonic
  <2>4. c = p
    BY <1>8, <2>1, <2>2, <2>3, SeqEqual
  <2> QED
    BY <2>4 DEF c
<1> QED
  BY <1>3, <1>8, <1>9 DEF p, n, t

(* A slash with a byte behind it that counts as received was sent by the   *)
(* client, before any "?": the one byte StoredLen may count although it    *)
(* was never received is the last one.                                     *)
LEMMA SlashWasSent ==
  ASSUME NEW S, NEW tok \in Seq(S), NEW buf, NEW eof,
         DOMAIN buf = UrlIndex, buf[UrlBufferSize - 1] = NUL,
         buf = Stored(buf, tok, eof),
         NEW i \in Slashes(buf, StoredLen(tok, eof)), StoredLen(tok, eof) - i > 1
  PROVE  \E j \in DOMAIN PathOf(Cut(tok, UrlBufferSize - 1)) :
            PathOf(Cut(tok, UrlBufferSize - 1))[j] = "/"
<1> DEFINE t == Cut(tok, UrlBufferSize - 1)
           p == PathOf(t)
<1>1. /\ t \in Seq(S) /\ \A j \in 1..Len(t) : t[j] = tok[j]
      /\ Len(t) \in 0..UrlBufferSize - 1 /\ Len(t) \in Nat
  <2>1. UrlBufferSize - 1 \in Nat
    BY BufferSize
  <2>2. t \in Seq(S) /\ \A j \in 1..Len(t) : t[j] = tok[j]
    BY <2>1, CutProperties
  <2>3. Len(t) \in 0..UrlBufferSize - 1 /\ Len(t) <= Len(tok)
    BY StoredLenInBuffer
  <2> HIDE DEF t
  <2> QED
    BY <2>1, <2>2, <2>3
<1>2. i \in UrlIndex /\ i < StrLen(buf) /\ buf[i] = "/"
  BY DEF Slashes
<1>3. StrLen(buf) \in UrlIndex /\ \A j \in 0..StrLen(buf) - 1 : buf[j] # NUL
  BY StrLenProperties
<1>4. i \in Nat /\ i + 1 \in 1..Len(t)
  <2>1. StoredLen(tok, eof) \in {Len(t), Len(t) + 1}
    BY Zenon DEF StoredLen
  <2> HIDE DEF t
  <2> QED
    BY <1>1, <1>2, <2>1, BufferSize DEF UrlIndex
<1>5. ASSUME NEW j \in 0..i PROVE t[j + 1] # "?" /\ buf[j] = t[j + 1]
  <2>1. j \in UrlIndex /\ j < Len(t) /\ j + 1 \in 1..Len(t)
    <3> HIDE DEF t
    <3> QED
      BY <1>1, <1>2, <1>4, BufferSize DEF UrlIndex
  <2>2. Stored(buf, tok, eof)[j] = IF tok[j + 1] = "?" THEN NUL ELSE tok[j + 1]
    BY <2>1, StoredByte
  <2>3. j \in 0..StrLen(buf) - 1
    BY <1>2, <1>3, <1>4, BufferSize DEF UrlIndex
  <2>4. buf[j] # NUL
    BY <1>3, <2>3
  <2>5. buf[j] = Stored(buf, tok, eof)[j]
    BY Zenon
  <2>6. t[j + 1] = tok[j + 1]
    BY <1>1, <2>1
  <2> HIDE DEF t
  <2> QED
    BY <2>2, <2>4, <2>5, <2>6, Zenon
<1> HIDE DEF t
<1>6. /\ p \in Seq(S) /\ Len(p) \in 0..Len(t)
      /\ \A j \in 1..Len(p) : p[j] = t[j] /\ t[j] # "?"
      /\ Len(p) < Len(t) => t[Len(p) + 1] = "?"
  BY <1>1, BeforeProperties DEF PathOf
<1> HIDE DEF p
<1>7. i + 1 \in 1..Len(p)
  <2>1. SUFFICES ASSUME Len(p) \in 0..i PROVE FALSE
    BY <1>1, <1>4, <1>6
  <2>2. Len(p) < Len(t)
    BY <1>1, <1>4, <2>1
  <2> QED
    BY <1>5, <1>6, <2>1, <2>2
<1>8. p[i + 1] = "/"
  <2>1. i \in 0..i
    BY <1>4
  <2>2. t[i + 1] = "/"
    BY <1>2, <1>5, <2>1
  <2> QED
    BY <1>6, <1>7, <2>2
<1>9. i + 1 \in DOMAIN p
  BY <1>6, <1>7, LenProperties
<1> QED
  BY <1>8, <1>9 DEF p, t

(* A token is "/" exactly if its path is and nothing else was sent.        *)
LEMMA RootPath ==
  ASSUME NEW S, NEW t \in Seq(S)
  PROVE  (t = <<"/">>) <=> (PathOf(t) = <<"/">> /\ Len(t) = 1)
<1> DEFINE p == PathOf(t)
<1>1. /\ p \in Seq(S) /\ Len(p) \in 0..Len(t) /\ Len(t) \in Nat
      /\ \A j \in 1..Len(p) : p[j] = t[j] /\ t[j] # "?"
      /\ Len(p) < Len(t) => t[Len(p) + 1] = "?"
  BY BeforeProperties DEF PathOf
<1> HIDE DEF p
<1>2. ASSUME Len(t) = 1, Len(p) = 1 PROVE t = p
  <2>1. \A j \in 1..Len(t) : t[j] = p[j]
    BY <1>1, <1>2
  <2> QED
    BY <1>1, <1>2, <2>1, SeqEqual
<1>3. ASSUME t = <<"/">> PROVE p = <<"/">> /\ Len(t) = 1
  <2>1. Len(t) = 1 /\ t[1] # "?"
    BY <1>3
  <2>2. Len(p) = 1
    <3>1. SUFFICES ASSUME Len(p) = 0 PROVE FALSE
      BY <1>1, <2>1
    <3>2. t[0 + 1] = "?" /\ 0 + 1 = 1
      BY <1>1, <2>1, <3>1
    <3> QED
      BY <2>1, <3>2
  <2> QED
    BY <1>2, <1>3, <2>1, <2>2
<1>4. ASSUME p = <<"/">>, Len(t) = 1 PROVE t = <<"/">>
  <2>1. Len(p) = 1
    BY <1>4
  <2> QED
    BY <1>2, <1>4, <2>1
<1> QED
  BY <1>3, <1>4 DEF p
=============================================================================
