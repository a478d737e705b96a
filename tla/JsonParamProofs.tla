-------------------------- MODULE JsonParamProofs --------------------------
(***************************************************************************)
(* Proofs about JsonParam, for every body, every size of the callback's    *)
(* buffers and any number of calls and requests.                           *)
(***************************************************************************)
EXTENDS JsonParam, SequenceTheorems, TLAPS

(***************************************************************************)
(* The inductive invariant.  While a call runs, what is stored and what is *)
(* left add up to the caller's size, and one byte is left; the divider     *)
(* takes what is left of the name away.                                    *)
(***************************************************************************)
NameRoom ==
  IF divider THEN nameLen = 0 /\ Len(name) < NameSize
  ELSE nameLen >= 1 /\ Len(name) + nameLen = NameSize
ValueRoom == valueLen >= 1 /\ Len(value) + valueLen = ValueSize
Room == pc = "read" => NameRoom /\ ValueRoom
IInv == TypeOK /\ Room /\ Terminated

LEMMA Constants ==
  /\ NUL \notin Bytes
  /\ "\n" \in Bytes /\ "{" \in Bytes /\ "}" \in Bytes /\ "[" \in Bytes /\ "]" \in Bytes
  /\ \A i \in 1..10 : Digit[i] \in Bytes
  /\ Bodies \subseteq Seq(Bytes \cup {NUL})
  /\ \A d \in Documents : Text(d) \in Seq(Bytes \cup {NUL})
  /\ NameSize \in 1..255 /\ ValueSize \in 1..255
  /\ MaxCalls \in Nat
  /\ LevelMod \in 3..256
<1>1. Seq(Bytes) \subseteq Seq(Bytes \cup {NUL})
  OBVIOUS
<1>2. \A i \in 1..10 : Digit[i] \in {Digit[j] : j \in 1..10}
  OBVIOUS
<1> QED
  BY <1>1, <1>2, JsonParamAssumption

LEMMA Sizes ==
  /\ NameSize \in Nat /\ NameSize >= 1 /\ ValueSize \in Nat /\ ValueSize >= 1
  /\ MaxCalls \in Nat
  /\ LevelMod \in Nat /\ LevelMod > 2 /\ LevelMod <= 256
<1>1. NameSize \in 1..255 /\ ValueSize \in 1..255 /\ MaxCalls \in Nat /\ LevelMod \in 3..256
  BY JsonParamAssumption, Zenon
<1> QED
  BY <1>1

(* What Cut returns is no longer than asked for and than what it cuts.     *)
LEMMA CutBounds ==
  ASSUME NEW S, NEW s \in Seq(S), NEW n \in Nat
  PROVE  /\ Cut(s, n) \in Seq(S)
         /\ Len(Cut(s, n)) <= n /\ Len(Cut(s, n)) <= Len(s)
<1> DEFINE m == IF n < Len(s) THEN n ELSE Len(s)
<1>1. m \in Nat /\ m <= n /\ m <= Len(s)
  OBVIOUS
<1> HIDE DEF m
<1>2. SubSeq(s, 1, m) \in Seq(S) /\ Len(SubSeq(s, 1, m)) = m
  BY <1>1, SubSeqProperties
<1>3. Cut(s, n) = SubSeq(s, 1, m)
  BY DEF Cut, m
<1> QED
  BY <1>1, <1>2, <1>3

(* The eight-bit counters stay eight-bit counters.                         *)
LEMMA CountersWrap ==
  ASSUME NEW l \in 0..LevelMod - 1
  PROVE  Up(l) \in 0..LevelMod - 1 /\ Down(l) \in 0..LevelMod - 1
<1>1. LevelMod \in Nat /\ LevelMod > 2
  BY Sizes
<1> QED
  BY <1>1 DEF Up, Down

LEMMA DecimalIsText ==
  ASSUME NEW k \in 0..255
  PROVE  Decimal(k) \in Seq(Bytes)
<1>1. /\ (k \div 100) + 1 \in 1..10
      /\ ((k \div 10) % 10) + 1 \in 1..10
      /\ (k % 10) + 1 \in 1..10
  OBVIOUS
<1> DEFINE a == Digit[(k \div 100) + 1]
           b == Digit[((k \div 10) % 10) + 1]
           c == Digit[(k % 10) + 1]
<1>2. a \in Bytes /\ b \in Bytes /\ c \in Bytes
  BY <1>1, Constants
<1>3. Decimal(k) = (IF k >= 100 THEN <<a>> ELSE <<>>)
                   \o (IF k >= 10 THEN <<b>> ELSE <<>>) \o <<c>>
  BY DEF Decimal
<1> HIDE DEF a, b, c
<1>4. (IF k >= 100 THEN <<a>> ELSE <<>>) \in Seq(Bytes)
      /\ (IF k >= 10 THEN <<b>> ELSE <<>>) \in Seq(Bytes)
      /\ <<c>> \in Seq(Bytes)
  BY <1>2
<1> QED
  BY <1>3, <1>4, ConcatProperties

(* Where a call returns, the terminator has room.                          *)
LEMMA ReturnKeeps ==
  ASSUME TypeOK,
         NEW n \in Seq(Bytes), Len(n) < NameSize,
         NEW v \in Seq(Bytes), Len(v) < ValueSize,
         Return(n, v)
  PROVE  /\ pc' = "callback"
         /\ name' \in Seq(Bytes) /\ Len(name') < NameSize
         /\ value' \in Seq(Bytes) /\ (NameSize <= ValueSize => Len(value') < ValueSize)
         /\ counter' \in 0..LevelMod - 1
         /\ done' \in BOOLEAN
<1>1. NameSize - 1 \in Nat /\ NameSize \in Nat /\ ValueSize \in Nat
  BY Sizes
<1>2. counter \in 0..LevelMod - 1 /\ counter \in 0..255
  <2>1. counter \in 0..LevelMod - 1
    BY DEF TypeOK
  <2> QED
    BY <2>1, Sizes
<1>3. pc' = "callback" /\ done' \in BOOLEAN
  BY DEF Return, TypeOK
<1>4. CASE ~divider /\ n # <<>>
  <2>1. name' = Cut(Decimal(counter), NameSize - 1) /\ value' = Cut(n, ValueSize)
        /\ counter' = Up(counter)
    BY <1>4 DEF Return
  <2>2. name' \in Seq(Bytes) /\ Len(name') <= NameSize - 1
    BY <1>1, <1>2, <2>1, CutBounds, DecimalIsText
  <2>3. value' \in Seq(Bytes) /\ Len(value') <= Len(n)
    BY <1>1, <2>1, CutBounds
  <2>4. counter' \in 0..LevelMod - 1
    BY <1>2, <2>1, CountersWrap
  <2>5. Len(name') \in Nat /\ Len(value') \in Nat /\ Len(n) \in Nat
    BY <2>2, <2>3, LenProperties
  <2> QED
    BY <1>1, <1>3, <2>2, <2>3, <2>4, <2>5
<1>5. CASE ~(~divider /\ n # <<>>)
  BY <1>2, <1>3, <1>5 DEF Return
<1> QED
  BY <1>4, <1>5

-----------------------------------------------------------------------------
(* What every step of the loop leaves alone or only consumes.              *)
LEMMA ReadCTyped ==
  ASSUME TypeOK, NEW c \in Bytes \cup {NUL}, ReadC(c), PushC(c)
  PROVE  /\ body' \in Seq(Bytes \cup {NUL})
         /\ whole' \in BOOLEAN
         /\ extra' \in {NUL, "\n", "}"}
<1>1. extra' \in {NUL, "\n", "}"}
  BY DEF PushC
<1>2. body \in Seq(Bytes \cup {NUL}) /\ whole \in BOOLEAN
  BY DEF TypeOK
<1>3. body' \in Seq(Bytes \cup {NUL})
  <2>1. body' = body \/ (body # <<>> /\ body' = Tail(body))
    BY Zenon DEF ReadC
  <2> QED
    BY <1>2, <2>1
<1>4. whole' \in BOOLEAN
  BY <1>2, Zenon DEF ReadC
<1> QED
  BY <1>1, <1>3, <1>4

(* A step that goes on: the invariant of the loop.                         *)
LEMMA GoOnKeeps ==
  ASSUME TypeOK, Room, pc = "read", GoOn,
         UNCHANGED <<name, value, valueLen>>,
         \/ UNCHANGED <<nameLen, divider>>
         \/ divider' = TRUE /\ nameLen' = 0
  PROVE  /\ pc' = "read" /\ NameRoom' /\ ValueRoom'
         /\ nameLen' \in 0..NameSize /\ divider' \in BOOLEAN
<1>1. NameRoom /\ ValueRoom /\ Len(name) \in Nat
  <2>1. name \in Seq(Bytes)
    BY DEF TypeOK
  <2> QED
    BY <2>1 DEF Room
<1>2. divider \in BOOLEAN /\ nameLen \in 0..NameSize
  BY DEF TypeOK
<1>3. pc' = "read" /\ ValueRoom'
  BY <1>1 DEF GoOn, ValueRoom
<1>4. Len(name) < NameSize
  BY <1>1, <1>2, Sizes DEF NameRoom
<1>5. CASE UNCHANGED <<nameLen, divider>>
  BY <1>1, <1>2, <1>3, <1>5 DEF NameRoom
<1>6. CASE divider' = TRUE /\ nameLen' = 0
  <2>1. NameRoom'
    BY <1>4, <1>6 DEF NameRoom
  <2>2. 0 \in 0..NameSize
    BY Sizes
  <2> QED
    BY <1>3, <1>6, <2>1, <2>2
<1> QED
  BY <1>5, <1>6

(* A character that is stored leaves room for the terminator.              *)
LEMMA StoresKeeps ==
  ASSUME TypeOK, Room, pc = "read", NEW c \in Bytes, Stores
  PROVE  /\ NameAfter(c) \in Seq(Bytes) /\ ValueAfter(c) \in Seq(Bytes)
         /\ nameLen' \in 0..NameSize /\ valueLen' \in 0..ValueSize
         /\ Len(ValueAfter(c)) + valueLen' = ValueSize /\ valueLen' >= 1
         /\ IF divider THEN nameLen' = 0 /\ Len(NameAfter(c)) < NameSize
            ELSE nameLen' >= 1 /\ Len(NameAfter(c)) + nameLen' = NameSize
<1>1. /\ name \in Seq(Bytes) /\ value \in Seq(Bytes)
      /\ nameLen \in 0..NameSize /\ valueLen \in 0..ValueSize
      /\ Len(name) \in Nat /\ Len(value) \in Nat
  <2>1. name \in Seq(Bytes) /\ value \in Seq(Bytes)
    BY DEF TypeOK
  <2>2. nameLen \in 0..NameSize /\ valueLen \in 0..ValueSize
    BY DEF TypeOK
  <2> QED
    BY <2>1, <2>2
<1>2. NameRoom /\ ValueRoom
  BY DEF Room
<1>3. Append(name, c) \in Seq(Bytes) /\ Len(Append(name, c)) = Len(name) + 1
      /\ Append(value, c) \in Seq(Bytes) /\ Len(Append(value, c)) = Len(value) + 1
  BY <1>1
<1>4. CASE divider
  <2>1. NameAfter(c) = name /\ nameLen' = nameLen
    BY <1>4 DEF NameAfter, Stores
  <2>2. CASE valueLen > 1
    <3>1. ValueAfter(c) = Append(value, c) /\ valueLen' = valueLen - 1
      BY <1>4, <2>2 DEF ValueAfter, Stores, StoreFits
    <3> QED
      BY <1>1, <1>2, <1>3, <1>4, <2>1, <2>2, <3>1, Sizes DEF NameRoom, ValueRoom
  <2>3. CASE ~(valueLen > 1)
    <3>1. ValueAfter(c) = value /\ valueLen' = valueLen
      BY <1>4, <2>3 DEF ValueAfter, Stores, StoreFits
    <3> QED
      BY <1>1, <1>2, <1>4, <2>1, <3>1, Sizes DEF NameRoom, ValueRoom
  <2> QED
    BY <2>2, <2>3
<1>5. CASE ~divider
  <2>1. ValueAfter(c) = value /\ valueLen' = valueLen
    BY <1>5 DEF ValueAfter, Stores
  <2>2. CASE nameLen > 1
    <3>1. NameAfter(c) = Append(name, c) /\ nameLen' = nameLen - 1
      BY <1>5, <2>2 DEF NameAfter, Stores, StoreFits
    <3>2. nameLen' \in 0..NameSize /\ nameLen' >= 1
          /\ Len(NameAfter(c)) + nameLen' = NameSize
      <4>1. Len(name) + nameLen = NameSize
        BY <1>2, <1>5 DEF NameRoom
      <4>2. Len(NameAfter(c)) = Len(name) + 1
        BY <1>3, <3>1
      <4>3. nameLen \in Nat /\ Len(name) \in Nat /\ NameSize \in Nat
        BY <1>1, Sizes
      <4> QED
        BY <2>2, <3>1, <4>1, <4>2, <4>3
    <3> QED
      BY <1>1, <1>2, <1>3, <1>5, <2>1, <3>1, <3>2 DEF ValueRoom
  <2>3. CASE ~(nameLen > 1)
    <3>1. NameAfter(c) = name /\ nameLen' = nameLen
      BY <1>5, <2>3 DEF NameAfter, Stores, StoreFits
    <3> QED
      BY <1>1, <1>2, <1>5, <2>1, <3>1, Sizes DEF NameRoom, ValueRoom
  <2> QED
    BY <2>2, <2>3
<1> QED
  BY <1>4, <1>5

-----------------------------------------------------------------------------
(* The kinds of steps of the loop.                                         *)
LEMMA ReadGoesOn ==
  ASSUME IInv, pc = "read", NEW c \in Bytes \cup {NUL},
         Divider(c) \/ Ignored(c) \/ Quote(c) \/ Open(c)
  PROVE  /\ pc' = "read" /\ NameRoom' /\ ValueRoom'
         /\ name' = name /\ value' = value /\ valueLen' = valueLen
         /\ nameLen' \in 0..NameSize /\ divider' \in BOOLEAN
         /\ cblevel' \in 0..LevelMod - 1 /\ sblevel' \in 0..LevelMod - 1
         /\ baselevel' \in {NUL, "{", "["} /\ quote' \in {NUL} \cup Quotes
         /\ counter' = counter /\ done' = done
<1>1. GoOn /\ UNCHANGED <<name, value, valueLen>>
      /\ (UNCHANGED <<nameLen, divider>> \/ (divider' = TRUE /\ nameLen' = 0))
  BY Zenon DEF Divider, Ignored, Quote, Open, buffers
<1>2. counter' = counter /\ done' = done
  BY <1>1 DEF GoOn
<1>3. TypeOK /\ Room
  BY DEF IInv
<1>4. cblevel \in 0..LevelMod - 1 /\ sblevel \in 0..LevelMod - 1
      /\ baselevel \in {NUL, "{", "["} /\ quote \in {NUL} \cup Quotes
  BY <1>3 DEF TypeOK
<1>5. /\ cblevel' \in 0..LevelMod - 1 /\ sblevel' \in 0..LevelMod - 1
      /\ baselevel' \in {NUL, "{", "["}
  <2>1. CASE Open(c)
    <3>1. c \in {"{", "["}
      BY <2>1 DEF Open, IsOpen
    <3> QED
      BY <1>4, <2>1, <3>1, CountersWrap DEF Open
  <2>2. CASE ~Open(c)
    BY <1>4, <2>2 DEF Divider, Ignored, Quote, levels
  <2> QED
    BY <2>1, <2>2
<1>6. quote' \in {NUL} \cup Quotes
  <2>1. CASE Quote(c)
    BY <2>1 DEF Quote, IsQuote
  <2>2. CASE ~Quote(c)
    BY <1>4, <2>2 DEF Divider, Ignored, Open
  <2> QED
    BY <2>1, <2>2
<1> QED
  BY <1>1, <1>2, <1>3, <1>5, <1>6, GoOnKeeps

LEMMA ReadReturns ==
  ASSUME IInv, pc = "read", NEW c \in Bytes \cup {NUL},
         EndOfInput(c) \/ Comma(c) \/ Close(c)
  PROVE  /\ Return(name, value) /\ UNCHANGED <<nameLen, valueLen>>
         /\ cblevel' \in 0..LevelMod - 1 /\ sblevel' \in 0..LevelMod - 1
         /\ UNCHANGED <<baselevel, quote, divider>>
<1>1. Return(name, value) /\ UNCHANGED <<nameLen, valueLen, baselevel, quote, divider>>
  BY Zenon DEF EndOfInput, Comma, Close, levels
<1>2. cblevel \in 0..LevelMod - 1 /\ sblevel \in 0..LevelMod - 1
  BY DEF IInv, TypeOK
<1>3. cblevel' \in 0..LevelMod - 1 /\ sblevel' \in 0..LevelMod - 1
  <2>1. CASE Close(c)
    BY <1>2, <2>1, CountersWrap DEF Close
  <2>2. CASE EndOfInput(c) \/ Comma(c)
    BY <1>2, <2>2 DEF EndOfInput, Comma, levels
  <2> QED
    BY <2>1, <2>2
<1> QED
  BY <1>1, <1>3

LEMMA ReadStores ==
  ASSUME IInv, pc = "read", NEW c \in Bytes \cup {NUL}, Plain(c)
  PROVE  /\ c \in Bytes /\ Stores
         /\ UNCHANGED <<baselevel, quote, divider>>
         /\ cblevel' \in 0..LevelMod - 1 /\ sblevel' \in 0..LevelMod - 1
         /\ \/ Return(NameAfter(c), ValueAfter(c))
            \/ GoOn /\ name' = NameAfter(c) /\ value' = ValueAfter(c)
<1>1. c \in Bytes
  BY DEF Plain, IsPlain
<1>2. cblevel \in 0..LevelMod - 1 /\ sblevel \in 0..LevelMod - 1
  BY DEF IInv, TypeOK
<1>3. /\ cblevel' \in {Up(cblevel), Down(cblevel), cblevel}
      /\ sblevel' \in {Up(sblevel), Down(sblevel), sblevel}
  BY DEF Plain
<1>4. cblevel' \in 0..LevelMod - 1 /\ sblevel' \in 0..LevelMod - 1
  BY <1>2, <1>3, CountersWrap
<1>5. /\ Stores /\ UNCHANGED <<baselevel, quote, divider>>
      /\ \/ Return(NameAfter(c), ValueAfter(c))
         \/ GoOn /\ name' = NameAfter(c) /\ value' = ValueAfter(c)
  BY Zenon DEF Plain
<1> QED
  BY <1>1, <1>4, <1>5

(* In the loop both terminators have room.                                 *)
LEMMA RoomForBoth ==
  ASSUME TypeOK, NameRoom, ValueRoom
  PROVE  /\ name \in Seq(Bytes) /\ Len(name) < NameSize
         /\ value \in Seq(Bytes) /\ Len(value) < ValueSize
<1>1. name \in Seq(Bytes) /\ value \in Seq(Bytes)
  BY DEF TypeOK
<1>2. nameLen \in 0..NameSize /\ valueLen \in 0..ValueSize
  BY DEF TypeOK
<1>3. Len(name) \in Nat /\ Len(value) \in Nat
  BY <1>1
<1>4. Len(name) < NameSize
  BY <1>2, <1>3, Sizes DEF NameRoom
<1>5. Len(value) < ValueSize
  BY <1>2, <1>3, Sizes DEF ValueRoom
<1> QED
  BY <1>1, <1>4, <1>5

LEMMA ReadKeeps ==
  ASSUME IInv, Read
  PROVE  IInv'
<1>1. PICK c \in Bytes \cup {NUL} :
        /\ ReadC(c) /\ PushC(c)
        /\ \/ Divider(c) \/ Ignored(c) \/ Quote(c) \/ Open(c)
           \/ EndOfInput(c) \/ Comma(c) \/ Close(c)
           \/ Plain(c)
  BY Zenon DEF Read
<1>2. pc = "read" /\ UNCHANGED <<doc, calls>>
  BY Zenon DEF Read
<1>3. TypeOK /\ Room /\ NameRoom /\ ValueRoom
  BY <1>2 DEF IInv, Room
<1>4. body' \in Seq(Bytes \cup {NUL}) /\ whole' \in BOOLEAN /\ extra' \in {NUL, "\n", "}"}
  BY <1>1, <1>3, ReadCTyped
<1>5. calls' \in 0..MaxCalls
  BY <1>2, <1>3 DEF TypeOK
<1>6. CASE Divider(c) \/ Ignored(c) \/ Quote(c) \/ Open(c)
  <2>1. /\ pc' = "read" /\ NameRoom' /\ ValueRoom'
        /\ name' = name /\ value' = value /\ valueLen' = valueLen
        /\ nameLen' \in 0..NameSize /\ divider' \in BOOLEAN
        /\ cblevel' \in 0..LevelMod - 1 /\ sblevel' \in 0..LevelMod - 1
        /\ baselevel' \in {NUL, "{", "["} /\ quote' \in {NUL} \cup Quotes
        /\ counter' = counter /\ done' = done
    BY <1>2, <1>6, ReadGoesOn
  <2>2. TypeOK'
    BY <1>3, <1>4, <1>5, <2>1, Zenon DEF TypeOK
  <2>3. Room'
    BY <2>1 DEF Room
  <2>4. Terminated'
    BY <1>3, <2>1, RoomForBoth DEF Terminated
  <2> QED
    BY <2>2, <2>3, <2>4 DEF IInv
<1>7. CASE EndOfInput(c) \/ Comma(c) \/ Close(c)
  <2>1. /\ Return(name, value) /\ UNCHANGED <<nameLen, valueLen>>
        /\ cblevel' \in 0..LevelMod - 1 /\ sblevel' \in 0..LevelMod - 1
        /\ UNCHANGED <<baselevel, quote, divider>>
    BY <1>2, <1>7, ReadReturns
  <2>2. /\ pc' = "callback"
        /\ name' \in Seq(Bytes) /\ Len(name') < NameSize
        /\ value' \in Seq(Bytes) /\ (NameSize <= ValueSize => Len(value') < ValueSize)
        /\ counter' \in 0..LevelMod - 1
        /\ done' \in BOOLEAN
    BY <1>3, <2>1, RoomForBoth, ReturnKeeps
  <2>3. TypeOK'
    BY <1>3, <1>4, <1>5, <2>1, <2>2, Zenon DEF TypeOK
  <2>4. Room' /\ Terminated'
    BY <2>2 DEF Room, Terminated
  <2> QED
    BY <2>3, <2>4 DEF IInv
<1>8. CASE Plain(c)
  <2>1. /\ c \in Bytes /\ Stores
        /\ UNCHANGED <<baselevel, quote, divider>>
        /\ cblevel' \in 0..LevelMod - 1 /\ sblevel' \in 0..LevelMod - 1
        /\ \/ Return(NameAfter(c), ValueAfter(c))
           \/ GoOn /\ name' = NameAfter(c) /\ value' = ValueAfter(c)
    BY <1>2, <1>8, ReadStores
  <2> DEFINE n == NameAfter(c)
             v == ValueAfter(c)
  <2>2. /\ n \in Seq(Bytes) /\ v \in Seq(Bytes)
        /\ nameLen' \in 0..NameSize /\ valueLen' \in 0..ValueSize
        /\ Len(v) + valueLen' = ValueSize /\ valueLen' >= 1
        /\ IF divider THEN nameLen' = 0 /\ Len(n) < NameSize
           ELSE nameLen' >= 1 /\ Len(n) + nameLen' = NameSize
    BY <1>2, <1>3, <2>1, StoresKeeps
  <2> HIDE DEF n, v
  <2>3. Len(n) \in Nat /\ Len(v) \in Nat
    BY <2>2
  <2>4. Len(n) < NameSize /\ Len(v) < ValueSize
    BY <2>2, <2>3, Sizes
  <2>5. CASE Return(n, v)
    <3>1. /\ pc' = "callback"
          /\ name' \in Seq(Bytes) /\ Len(name') < NameSize
          /\ value' \in Seq(Bytes) /\ (NameSize <= ValueSize => Len(value') < ValueSize)
          /\ counter' \in 0..LevelMod - 1
          /\ done' \in BOOLEAN
      BY <1>3, <2>2, <2>4, <2>5, ReturnKeeps
    <3>2. TypeOK'
      BY <1>3, <1>4, <1>5, <2>1, <2>2, <3>1, Zenon DEF TypeOK
    <3>3. Room' /\ Terminated'
      BY <3>1 DEF Room, Terminated
    <3> QED
      BY <3>2, <3>3 DEF IInv
  <2>6. CASE GoOn /\ name' = n /\ value' = v
    <3>1. pc' = "read" /\ counter' = counter /\ done' = done
      BY <2>6 DEF GoOn
    <3>2. TypeOK'
      BY <1>3, <1>4, <1>5, <2>1, <2>2, <2>6, <3>1, Zenon DEF TypeOK
    <3>3. Room'
      BY <2>1, <2>2, <2>6 DEF Room, NameRoom, ValueRoom
    <3>4. Terminated'
      BY <2>4, <2>6 DEF Terminated
    <3> QED
      BY <3>2, <3>3, <3>4 DEF IInv
  <2> QED
    BY <2>1, <2>5, <2>6 DEF n, v
<1> QED
  BY <1>1, <1>6, <1>7, <1>8

-----------------------------------------------------------------------------
LEMMA RequestKeeps ==
  ASSUME IInv, NEW b \in Seq(Bytes \cup {NUL}), NEW d, Request(b, d)
  PROVE  IInv'
<1>1. 0 \in 0..LevelMod - 1 /\ 0 \in 0..MaxCalls
  BY Sizes
<1>2. TypeOK'
  BY <1>1, Zenon DEF IInv, TypeOK, Request, InitRun, buffers
<1>3. pc' = "callback" /\ calls' = 0
  BY DEF Request
<1> QED
  BY <1>2, <1>3 DEF IInv, Room, Terminated

LEMMA ParseParamKeeps ==
  ASSUME IInv, ParseParam
  PROVE  IInv'
<1>1. /\ pc' = "read" /\ name' = <<>> /\ value' = <<>> /\ divider' = FALSE
      /\ nameLen' = NameSize /\ valueLen' = ValueSize
  BY DEF ParseParam
<1>2. calls' \in 0..MaxCalls
  <2>1. calls \in 0..MaxCalls
    BY DEF IInv, TypeOK
  <2>2. calls < MaxCalls /\ calls' = calls + 1
    BY DEF ParseParam
  <2> QED
    BY <2>1, <2>2, Sizes
<1>3. NameSize \in 0..NameSize /\ ValueSize \in 0..ValueSize
      /\ <<>> \in Seq(Bytes)
  BY Sizes
<1>4. TypeOK'
  BY <1>1, <1>2, <1>3, Zenon DEF IInv, TypeOK, ParseParam, levels
<1>5. Room' /\ Terminated'
  BY <1>1, Sizes DEF Room, NameRoom, ValueRoom, Terminated
<1> QED
  BY <1>4, <1>5 DEF IInv

LEMMA EndCallbackKeeps ==
  ASSUME IInv, EndCallback
  PROVE  IInv'
<1>1. 0 \in 0..NameSize /\ 0 \in 0..ValueSize /\ 0 \in 0..MaxCalls
      /\ <<>> \in Seq(Bytes) /\ <<>> \in Seq(Bytes \cup {NUL})
  BY Sizes
<1>2. TypeOK'
  BY <1>1, Zenon DEF IInv, TypeOK, EndCallback, levels
<1>3. pc' = "idle"
  BY DEF EndCallback
<1> QED
  BY <1>2, <1>3 DEF IInv, Room, Terminated

LEMMA InitHolds == Init => IInv
<1> SUFFICES ASSUME Init PROVE IInv
  OBVIOUS
<1>1. 0 \in 0..NameSize /\ 0 \in 0..ValueSize /\ 0 \in 0..MaxCalls
      /\ 0 \in 0..LevelMod - 1
      /\ <<>> \in Seq(Bytes) /\ <<>> \in Seq(Bytes \cup {NUL})
  BY Sizes
<1>2. TypeOK
  BY <1>1, Zenon DEF Init, TypeOK
<1>3. pc = "idle"
  BY DEF Init
<1> QED
  BY <1>2, <1>3 DEF IInv, Room, Terminated

LEMMA NextKeeps == IInv /\ [Next]_vars => IInv'
<1> SUFFICES ASSUME IInv, [Next]_vars PROVE IInv'
  OBVIOUS
<1>1. ASSUME NEW b \in Bodies, AnyBody(b) PROVE IInv'
  BY <1>1, Constants, RequestKeeps DEF AnyBody
<1>2. ASSUME NEW d \in Documents, JsonBody(d) PROVE IInv'
  <2>1. Text(d) \in Seq(Bytes \cup {NUL})
    BY Constants
  <2> QED
    BY <1>2, <2>1, RequestKeeps DEF JsonBody
<1>3. CASE ParseParam
  BY <1>3, ParseParamKeeps
<1>4. CASE Read
  BY <1>4, ReadKeeps
<1>5. CASE EndCallback
  BY <1>5, EndCallbackKeeps
<1>6. CASE UNCHANGED vars
  BY <1>6, Zenon DEF vars, levels, buffers, IInv, TypeOK, Room, NameRoom, ValueRoom, Terminated
<1> QED
  BY <1>1, <1>2, <1>3, <1>4, <1>5, <1>6 DEF Next

(***************************************************************************)
(* attoHTTPParseJSONParam never stores, terminators included, behind the   *)
(* buffers the callback gave it, whatever is sent and wherever reads fail; *)
(* for the value of an array element this takes a value buffer that is not *)
(* smaller than the name buffer.                                           *)
(***************************************************************************)
THEOREM JsonInBounds == Spec => [](TypeOK /\ Terminated)
<1>1. IInv => TypeOK /\ Terminated
  BY DEF IInv
<1> QED
  BY <1>1, InitHolds, NextKeeps, PTL DEF Spec

(* The variables of the JSON reader keep their types: attoHTTPJSONLevel and *)
(* attoHTTPJSONArrayLevel stay eight-bit counters, however deep a body      *)
(* nests and however often it closes what it never opened.                  *)
THEOREM JsonTypes == Spec => []TypeOK
BY JsonInBounds, PTL
=============================================================================
