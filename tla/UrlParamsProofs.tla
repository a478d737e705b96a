-------------------------- MODULE UrlParamsProofs --------------------------
(***************************************************************************)
(* Proofs about UrlParams, for every URL buffer, every request and every   *)
(* number of calls that cannot wrap the 16-bit index.                      *)
(***************************************************************************)
EXTENDS UrlParams, UrlBufferProofs, FiniteSetTheorems, TLAPS

(***************************************************************************)
(* How far the index may have run past the buffer.  A call fails to read   *)
(* at most three times: the two characters of an escape, whose failures    *)
(* are ignored, and the one that ends its loop.                            *)
(***************************************************************************)
StartBound ==
  /\ pc = "callback" => start <= UrlBufferSize + 3 * calls
  /\ pc \in Reading => calls >= 1
  /\ pc = "param" => start <= UrlBufferSize + 3 * calls - 1
  /\ pc = "hex1" => start <= UrlBufferSize
  /\ pc = "hex2" => start <= UrlBufferSize + 1
  /\ pc # "idle" /\ method # "GET" => start <= UrlBufferSize

(* The loop only goes on while there is room for the value.                *)
LoopRuns == pc \in Reading => valueLen > 0

(* The lengths that count down leave room for nothing but what has not     *)
(* been written yet.                                                       *)
RoomKept ==
  pc \in Reading => /\ Len(name) + nameLen <= NameSize
                    /\ Len(value) + valueLen <= ValueSize
                    /\ count = Len(name)

IInv == /\ TypeOK /\ ReadsInBuffer /\ OnlyTerminatorBehind
        /\ StartBound /\ LoopRuns /\ RoomKept

LEMMA Constants ==
  /\ UrlBufferSize \in Nat /\ UrlBufferSize >= 2
  /\ NameSize \in Nat /\ NameSize >= 1
  /\ ValueSize \in Nat /\ ValueSize >= 1
  /\ MaxCalls \in Nat /\ StartMod \in Nat
  /\ UrlBufferSize + 3 * MaxCalls < StartMod
BY UrlBufferAssumption, UrlParamsAssumption

(* The first call starts where the last stored "?" was, or nowhere.        *)
LEMMA ParamsOfTyped ==
  ASSUME NEW tok \in Seq(Bytes)
  PROVE  ParamsOf(tok) = NoPtr \/ ParamsOf(tok) \in 1..UrlBufferSize - 1
<1> USE Constants
<1>1. Len(Cut(tok, UrlBufferSize - 1)) \in 0..UrlBufferSize - 1
  BY DEF Cut
<1>2. CASE \E i \in 1..Len(tok) : LastMark(tok, i)
  <2>1. ParamsOf(tok) = CHOOSE i \in 1..Len(tok) : LastMark(tok, i)
    BY <1>2 DEF ParamsOf
  <2>2. LastMark(tok, ParamsOf(tok))
    BY <1>2, <2>1
  <2> QED
    BY <1>1, <2>2 DEF LastMark
<1>3. CASE ~ \E i \in 1..Len(tok) : LastMark(tok, i)
  BY <1>3 DEF ParamsOf
<1> QED
  BY <1>2, <1>3

(* The URL buffer after _attoHTTPParseURL and the split into levels.       *)
LEMMA StoredTyped ==
  ASSUME NEW old \in [UrlIndex -> UrlBytes], NEW tok \in Seq(Bytes),
         NEW eof \in BOOLEAN
  PROVE  /\ StoredLen(tok, eof) \in UrlIndex
         /\ Split(Stored(old, tok, eof), StoredLen(tok, eof))
              \in [UrlIndex -> UrlBytes]
<1> USE Constants
<1> DEFINE n == Len(Cut(tok, UrlBufferSize - 1))
<1>1. n \in 0..UrlBufferSize - 1 /\ n <= Len(tok)
  BY DEF Cut
<1>2. StoredLen(tok, eof) \in UrlIndex
  BY <1>1 DEF StoredLen, UrlIndex
<1>3. ASSUME NEW i \in UrlIndex
      PROVE  Stored(old, tok, eof)[i] \in UrlBytes
  <2>1. CASE i < n
    <3>1. i + 1 \in 1..Len(tok)
      BY <1>1, <2>1 DEF UrlIndex
    <3>2. tok[i + 1] \in Bytes
      BY <3>1
    <3>3. Stored(old, tok, eof)[i] = IF tok[i + 1] = "?" THEN NUL ELSE tok[i + 1]
      BY <2>1, Zenon DEF Stored
    <3> QED
      BY <3>2, <3>3 DEF UrlBytes
  <2>2. CASE ~(i < n)
    <3>1. Stored(old, tok, eof)[i] =
            IF i = StoredLen(tok, eof) THEN NUL ELSE old[i]
      BY <2>2, Zenon DEF Stored
    <3>2. old[i] \in UrlBytes
      BY Zenon
    <3> QED
      BY <3>1, <3>2 DEF UrlBytes
  <2> QED
    BY <2>1, <2>2
<1> DEFINE s == Stored(old, tok, eof)
           len == StoredLen(tok, eof)
<1>4. Split(s, len) \in [UrlIndex -> UrlBytes]
  <2>1. \A i \in UrlIndex :
          (IF i \in Slashes(s, len) THEN NUL ELSE s[i]) \in UrlBytes
    BY <1>3 DEF UrlBytes
  <2> HIDE DEF s, len
  <2> QED
    BY <2>1, Zenon DEF Split
<1> QED
  BY <1>2, <1>4

LEMMA RequestStep ==
  ASSUME IInv, NEW m \in {"GET", "POST"}, NEW tok \in Seq(Bytes),
         NEW eof \in BOOLEAN, NEW b \in Seq(Bytes),
         CallCallback(m, tok, eof, b)
  PROVE  IInv'
<1> USE Constants
<1>1. url \in [UrlIndex -> UrlBytes]
  BY DEF IInv, TypeOK
<1>2. url' \in [UrlIndex -> UrlBytes] /\ urlLen' \in UrlIndex
  BY <1>1, StoredTyped DEF CallCallback
<1>3. whole' \in BOOLEAN
  BY Zenon DEF CallCallback
<1>4. /\ pc' = "callback" /\ method' = m /\ body' = b /\ calls' = 0
      /\ params' = ParamsOf(tok)
      /\ start' = IF ParamsOf(tok) = NoPtr THEN UrlBufferSize ELSE ParamsOf(tok)
      /\ UNCHANGED <<locals, hex>>
  BY DEF CallCallback
<1>5. /\ params' \in {NoPtr} \cup 0..UrlBufferSize
      /\ start' \in 0..StartMod - 1
      /\ start' <= UrlBufferSize
      /\ start' < UrlBufferSize => params' = start' /\ params' \in UrlIndex
  BY <1>4, ParamsOfTyped DEF NoPtr, UrlIndex
<1>6. TypeOK'
  BY <1>2, <1>3, <1>4, <1>5 DEF IInv, TypeOK, locals
<1>7. ReadsInBuffer' /\ LoopRuns' /\ RoomKept'
  BY <1>4, <1>5 DEF ReadsInBuffer, InParams, LoopRuns, RoomKept, Reading
<1>9. OnlyTerminatorBehind'
  BY <1>4 DEF IInv, OnlyTerminatorBehind, Reading, locals
<1>8. StartBound'
  BY <1>4, <1>5 DEF StartBound, Reading
<1> QED
  BY <1>6, <1>7, <1>8, <1>9 DEF IInv

LEMMA ParseParamStep == ASSUME IInv, ParseParam PROVE IInv'
<1> USE Constants
<1>1. TypeOK'
  BY DEF IInv, TypeOK, ParseParam, Reading
<1>2. ReadsInBuffer' /\ LoopRuns'
  BY DEF IInv, TypeOK, ReadsInBuffer, InParams, LoopRuns, ParseParam
<1>3. StartBound'
  BY DEF IInv, TypeOK, StartBound, ParseParam, Reading
<1>4. RoomKept' /\ OnlyTerminatorBehind'
  BY DEF RoomKept, OnlyTerminatorBehind, FitsButTerminator, Fits, ParseParam
<1> QED
  BY <1>1, <1>2, <1>3, <1>4 DEF IInv

-----------------------------------------------------------------------------
(* What one call of _attoHTTPParseURLParamChar does to the place where the *)
(* next character is.                                                      *)
LEMMA CharStep ==
  ASSUME IInv, pc \in Reading, NEW ret \in {0, 1}, NEW c \in Bytes \cup {NUL},
         ParseURLParamChar(ret, c)
  PROVE  /\ params' \in {NoPtr} \cup 0..UrlBufferSize
         /\ start' \in 0..StartMod - 1
         /\ body' \in Seq(Bytes)
         /\ whole' \in BOOLEAN
         /\ start' < UrlBufferSize /\ method = "GET"
              => params' = start' /\ params' \in UrlIndex
         /\ start' = IF method = "GET" THEN start + 1 ELSE start
         /\ ret = 1 /\ method = "GET" => start < UrlBufferSize
<1> USE Constants
<1>1. CASE UrlChar(ret, c)
  <2>1. start <= UrlBufferSize + 3 * calls - 1 \/ start <= UrlBufferSize + 1
    BY DEF IInv, StartBound, TypeOK, Reading
  <2>2. start \in Nat /\ calls \in 1..MaxCalls
    BY DEF IInv, TypeOK, StartBound
  <2>3. start + 1 \in 0..StartMod - 1
    BY <2>1, <2>2
  <2>4. start' = start + 1 /\ method = "GET"
    BY <1>1, <2>3 DEF UrlChar
  <2>5. body' \in Seq(Bytes) /\ whole' \in BOOLEAN
    BY <1>1, Zenon DEF UrlChar, IInv, TypeOK
  <2>6. CASE InParams
    <3>1. params = start /\ params \in UrlIndex
      BY <1>1, <2>6 DEF IInv, ReadsInBuffer, UrlChar, Reading
    <3>2. params' = params + 1
      BY <1>1, <2>6 DEF UrlChar
    <3> QED
      BY <2>3, <2>4, <2>5, <2>6, <3>1, <3>2 DEF InParams, UrlIndex
  <2>7. CASE ~InParams
    <3>1. params' = params /\ ret = 0
      BY <1>1, <2>7 DEF UrlChar
    <3>2. params \in {NoPtr} \cup 0..UrlBufferSize
      BY DEF IInv, TypeOK
    <3> QED
      BY <2>2, <2>3, <2>4, <2>5, <2>7, <3>1, <3>2 DEF InParams
  <2> QED
    BY <2>6, <2>7
<1>2. CASE BodyChar(ret, c)
  <2>1. UNCHANGED <<start, params, whole>> /\ method # "GET"
    BY <1>2 DEF BodyChar
  <2>2. body' \in Seq(Bytes)
    BY <1>2 DEF BodyChar, IInv, TypeOK
  <2>3. whole' \in BOOLEAN
    BY <2>1, Zenon DEF IInv, TypeOK
  <2> QED
    BY <2>1, <2>2, <2>3 DEF IInv, TypeOK
<1>3. CASE BodyFails(ret)
  <2>1. UNCHANGED <<start, params>> /\ method # "GET" /\ ret = 0
    BY <1>3 DEF BodyFails
  <2>2. body' \in Seq(Bytes)
    BY <1>3 DEF BodyFails, IInv, TypeOK
  <2>3. whole' \in BOOLEAN
    BY <1>3, Zenon DEF BodyFails
  <2> QED
    BY <2>1, <2>2, <2>3 DEF IInv, TypeOK
<1> QED
  BY <1>1, <1>2, <1>3 DEF ParseURLParamChar

(* What a step of the loop leaves of the caller's buffers and of the       *)
(* lengths that count down.                                                *)
BuffersKept ==
  /\ name' \in Seq(Bytes \cup {NUL}) /\ value' \in Seq(Bytes \cup {NUL})
  /\ nameLen' \in 0..NameSize /\ valueLen' \in 0..ValueSize
  /\ count' \in 0..NameSize
  /\ pc' # "callback" => valueLen' > 0
  /\ pc' # "callback" => /\ Len(name') + nameLen' <= NameSize
                         /\ Len(value') + valueLen' <= ValueSize
                         /\ count' = Len(name')
  /\ pc' # "callback" => Len(name') <= NameSize /\ Len(value') <= ValueSize
  /\ FitsButTerminator(name', NameSize) /\ FitsButTerminator(value', ValueSize)

LEMMA TerminatorFits ==
  ASSUME NEW t \in Seq(Bytes \cup {NUL}), NEW size \in Nat, Len(t) <= size
  PROVE  /\ Append(t, NUL) \in Seq(Bytes \cup {NUL})
         /\ FitsButTerminator(Append(t, NUL), size)
<1> DEFINE B == Bytes \cup {NUL}
<1>1. NUL \in B
  OBVIOUS
<1> HIDE DEF B
<1>2. /\ t \in Seq(B)
      /\ Append(t, NUL) \in Seq(B) /\ Len(Append(t, NUL)) = Len(t) + 1
      /\ Append(t, NUL)[Len(t) + 1] = NUL /\ Len(t) \in Nat
  BY <1>1 DEF B
<1>3. CASE Len(t) = size
  BY <1>2, <1>3 DEF FitsButTerminator
<1>4. CASE Len(t) # size
  BY <1>2, <1>4 DEF FitsButTerminator, Fits
<1> QED
  BY <1>2, <1>3, <1>4 DEF B

(* The call returns with what is in the buffers.                           *)
LEMMA ReturnKeeps ==
  ASSUME NEW n \in Seq(Bytes \cup {NUL}), NEW v \in Seq(Bytes \cup {NUL}),
         Len(n) <= NameSize, Len(v) <= ValueSize,
         nameLen' \in 0..NameSize, valueLen' \in 0..ValueSize,
         count' \in 0..NameSize, NEW k, Return(n, v, k)
  PROVE  BuffersKept
<1>1. /\ pc' = "callback" /\ name' = Append(n, NUL) /\ value' = Append(v, NUL)
  BY DEF Return
<1> QED
  BY <1>1, TerminatorFits, Constants DEF BuffersKept

(* A character stored stays within the caller's buffers.                   *)
LEMMA StoreStep ==
  ASSUME IInv, pc \in Reading, NEW b \in Bytes \cup {NUL}, Store(b)
  PROVE  BuffersKept /\ pc' \in {"param", "callback"}
<1> USE Constants
<1>1. /\ name \in Seq(Bytes \cup {NUL}) /\ value \in Seq(Bytes \cup {NUL})
      /\ nameLen \in 0..NameSize /\ valueLen \in 1..ValueSize
      /\ Len(name) + nameLen <= NameSize /\ Len(value) + valueLen <= ValueSize
      /\ count = Len(name)
  BY DEF IInv, TypeOK, LoopRuns, RoomKept
<1> DEFINE B == Bytes \cup {NUL}
<1>2. \A s \in Seq(B) : Append(s, b) \in Seq(B) /\ Len(Append(s, b)) = Len(s) + 1
  <2>1. b \in B
    OBVIOUS
  <2> HIDE DEF B
  <2> QED
    BY <2>1
<1>3. CASE nameLen > 0
  <2>1. /\ name' = Append(name, b) /\ nameLen' = nameLen - 1 /\ count' = count + 1
        /\ pc' = "param" /\ value' = value /\ valueLen' = valueLen
    BY <1>3 DEF Store
  <2>2. name' \in Seq(B) /\ Len(name') = Len(name) + 1
    BY <1>1, <1>2, <2>1
  <2>3. /\ nameLen' \in 0..NameSize /\ count' \in 0..NameSize
        /\ Len(name') + nameLen' <= NameSize /\ Len(name') <= NameSize
        /\ Len(value') <= ValueSize
    BY <1>1, <1>3, <2>1, <2>2
  <2> QED
    BY <1>1, <2>1, <2>2, <2>3 DEF BuffersKept, FitsButTerminator, Fits
<1>4. CASE ~(nameLen > 0)
  <2>1. /\ valueLen' = valueLen - 1 /\ nameLen' = nameLen /\ count' = count
        /\ IF valueLen - 1 > 0
           THEN pc' = "param" /\ value' = Append(value, b) /\ name' = name
           ELSE Return(name, Append(value, b), nameLen)
    BY <1>4 DEF Store, RoomLeft
  <2>2. Append(value, b) \in Seq(B) /\ Len(Append(value, b)) = Len(value) + 1
    BY <1>1, <1>2
  <2>3. /\ Len(Append(value, b)) + (valueLen - 1) <= ValueSize
        /\ Len(Append(value, b)) <= ValueSize /\ Len(name) <= NameSize
        /\ valueLen - 1 \in 0..ValueSize /\ count \in 0..NameSize
    BY <1>1, <2>2
  <2>4. CASE valueLen - 1 > 0
    BY <1>1, <2>1, <2>2, <2>3, <2>4 DEF BuffersKept, FitsButTerminator, Fits
  <2>5. CASE ~(valueLen - 1 > 0)
    <3>1. Return(name, Append(value, b), nameLen)
      BY <2>1, <2>5
    <3>2. BuffersKept
      BY <1>1, <2>1, <2>2, <2>3, <3>1, ReturnKeeps
    <3> QED
      BY <3>1, <3>2 DEF Return
  <2> QED
    BY <2>4, <2>5
<1> QED
  BY <1>3, <1>4

(* What Param does with the character that was read.                       *)
Iteration(ret, c) ==
  \/ /\ EndOfInput(ret, c)
     /\ Return(name, value, nameLen)
     /\ UNCHANGED <<nameLen, valueLen, count>>
  \/ /\ ~EndOfInput(ret, c) /\ c = "="
     /\ nameLen' = 0
     /\ UNCHANGED <<pc, name, value, valueLen, count, out>>
  \/ /\ ~EndOfInput(ret, c) /\ c \in {"&"} \cup Space
     /\ IF Ends THEN Return(name, value, nameLen)
        ELSE UNCHANGED <<pc, name, value, out>>
     /\ UNCHANGED <<nameLen, valueLen, count>>
  \/ /\ ~EndOfInput(ret, c) /\ c = "%"
     /\ pc' = "hex1"
     /\ UNCHANGED <<locals, out>>
  \/ /\ ~EndOfInput(ret, c) /\ c \notin {"=", "&", "%"} \cup Space
     /\ Store(c)

(* One iteration of the loop: what every branch leaves of the locals.      *)
LEMMA ParamStep == ASSUME IInv, Param PROVE IInv'
<1> USE Constants
<1>1. pc \in Reading /\ pc = "param"
  BY DEF Param, Reading
<1>2. PICK ret \in {0, 1}, c \in Bytes \cup {NUL} :
        ParseURLParamChar(ret, c) /\ Iteration(ret, c)
  BY Zenon DEF Param, Iteration
<1>3. UNCHANGED <<method, url, urlLen, hex, calls, sent>>
  BY DEF Param
<1>4. /\ BuffersKept /\ pc' \in {"param", "hex1", "callback"}
      /\ pc' = "callback" \/ ret = 1
  <2>1. /\ name \in Seq(Bytes \cup {NUL}) /\ value \in Seq(Bytes \cup {NUL})
        /\ nameLen \in 0..NameSize /\ valueLen \in 1..ValueSize
        /\ Len(name) + nameLen <= NameSize /\ Len(value) + valueLen <= ValueSize
        /\ count = Len(name) /\ count \in 0..NameSize
        /\ Len(name) <= NameSize /\ Len(value) <= ValueSize
    BY <1>1 DEF IInv, TypeOK, LoopRuns, RoomKept
  <2>2. ASSUME Return(name, value, nameLen), UNCHANGED <<nameLen, valueLen, count>>
        PROVE  BuffersKept /\ pc' = "callback"
    <3>1. BuffersKept
      BY <2>1, <2>2, ReturnKeeps
    <3> QED
      BY <2>2, <3>1 DEF Return
  <2>3. ASSUME ~EndOfInput(ret, c), nameLen' \in {0, nameLen}, pc' \in {"param", "hex1"},
               UNCHANGED <<name, value, valueLen, count>>
        PROVE  BuffersKept /\ ret = 1
    BY <2>1, <2>3 DEF EndOfInput, BuffersKept, FitsButTerminator, Fits
  <2>4. CASE /\ ~EndOfInput(ret, c)
             /\ nameLen' = 0
             /\ UNCHANGED <<pc, name, value, valueLen, count, out>>
    BY <1>1, <2>3, <2>4
  <2>5. CASE /\ ~EndOfInput(ret, c)
             /\ IF Ends THEN Return(name, value, nameLen)
                ELSE UNCHANGED <<pc, name, value, out>>
             /\ UNCHANGED <<nameLen, valueLen, count>>
    BY <1>1, <2>2, <2>3, <2>5
  <2>6. CASE ~EndOfInput(ret, c) /\ pc' = "hex1" /\ UNCHANGED <<locals, out>>
    BY <2>3, <2>6 DEF locals
  <2>7. CASE ~EndOfInput(ret, c) /\ Store(c)
    BY <1>1, <2>7, StoreStep DEF EndOfInput
  <2> QED
    BY <1>2, <2>2, <2>4, <2>5, <2>6, <2>7, Zenon DEF Iteration
<1>5. /\ params' \in {NoPtr} \cup 0..UrlBufferSize
      /\ start' \in 0..StartMod - 1
      /\ body' \in Seq(Bytes)
      /\ whole' \in BOOLEAN
      /\ start' < UrlBufferSize /\ method = "GET"
           => params' = start' /\ params' \in UrlIndex
      /\ start' = IF method = "GET" THEN start + 1 ELSE start
      /\ ret = 1 /\ method = "GET" => start < UrlBufferSize
  BY <1>1, <1>2, CharStep
<1>6. TypeOK'
  BY <1>3, <1>4, <1>5 DEF IInv, TypeOK, BuffersKept, Reading
<1>7. ReadsInBuffer' /\ LoopRuns' /\ RoomKept'
  BY <1>3, <1>4, <1>5 DEF ReadsInBuffer, InParams, LoopRuns, RoomKept, BuffersKept, Reading
<1>9. OnlyTerminatorBehind'
  BY <1>4 DEF OnlyTerminatorBehind, BuffersKept, Reading, Fits
<1>8. StartBound'
  <2>1. calls \in 1..MaxCalls /\ start \in Nat
    BY <1>1 DEF IInv, TypeOK, StartBound
  <2>2. /\ start <= UrlBufferSize + 3 * calls - 1
        /\ method # "GET" => start <= UrlBufferSize
    BY <1>1 DEF IInv, StartBound
  <2>3. start' <= UrlBufferSize + 3 * calls
    BY <1>5, <2>1, <2>2
  <2>4. ret = 1 => start' <= UrlBufferSize
    BY <1>5, <2>1, <2>2
  <2>5. method # "GET" => start' <= UrlBufferSize
    BY <1>5, <2>2
  <2>6. /\ pc' \in {"param", "hex1", "callback"}
        /\ pc' = "callback" \/ ret = 1
        /\ calls' = calls /\ method' = method
    BY <1>3, <1>4
  <2> QED
    BY <1>5, <2>1, <2>3, <2>4, <2>5, <2>6 DEF StartBound, Reading
<1> QED
  BY <1>6, <1>7, <1>8, <1>9 DEF IInv

(* The first character of an escape may be missing.                        *)
LEMMA Hex1Step == ASSUME IInv, Hex1 PROVE IInv'
<1> USE Constants
<1>1. pc \in Reading /\ pc = "hex1" /\ pc' = "hex2"
      /\ UNCHANGED <<method, url, urlLen, locals, calls, sent, out>>
  BY DEF Hex1, Reading
<1>2. PICK ret \in {0, 1}, c \in Bytes \cup {NUL} :
        ParseURLParamChar(ret, c) /\ hex' = c
  BY DEF Hex1
<1>3. /\ params' \in {NoPtr} \cup 0..UrlBufferSize
      /\ start' \in 0..StartMod - 1
      /\ body' \in Seq(Bytes)
      /\ whole' \in BOOLEAN
      /\ start' < UrlBufferSize /\ method = "GET"
           => params' = start' /\ params' \in UrlIndex
      /\ start' = IF method = "GET" THEN start + 1 ELSE start
  BY <1>1, <1>2, CharStep
<1>4. TypeOK'
  BY <1>1, <1>2, <1>3 DEF IInv, TypeOK, Reading, locals
<1>5. ReadsInBuffer' /\ LoopRuns' /\ RoomKept'
  BY <1>1, <1>3 DEF IInv, ReadsInBuffer, InParams, LoopRuns, RoomKept, Reading, locals
<1>7. OnlyTerminatorBehind'
  BY <1>1 DEF IInv, OnlyTerminatorBehind, Reading, locals
<1>6. StartBound'
  <2>1. calls \in 1..MaxCalls /\ start \in Nat
    BY <1>1 DEF IInv, TypeOK, StartBound
  <2> QED
    BY <1>1, <1>3, <2>1 DEF IInv, StartBound, Reading
<1> QED
  BY <1>4, <1>5, <1>6, <1>7 DEF IInv

(* So may the second; what they decode to is stored all the same.          *)
LEMMA Hex2Step == ASSUME IInv, Hex2 PROVE IInv'
<1> USE Constants
<1>1. pc \in Reading /\ pc = "hex2"
      /\ UNCHANGED <<method, url, urlLen, hex, calls, sent>>
  BY DEF Hex2, Reading
<1>2. PICK ret \in {0, 1}, c \in Bytes \cup {NUL} :
        ParseURLParamChar(ret, c) /\ Store(Decoded[<<hex, c>>])
  BY DEF Hex2
<1>3. Decoded[<<hex, c>>] \in Bytes \cup {NUL}
  BY <1>2, UrlParamsAssumption DEF IInv, TypeOK
<1>4. BuffersKept /\ pc' \in {"param", "callback"}
  BY <1>1, <1>2, <1>3, StoreStep
<1>5. /\ params' \in {NoPtr} \cup 0..UrlBufferSize
      /\ start' \in 0..StartMod - 1
      /\ body' \in Seq(Bytes)
      /\ whole' \in BOOLEAN
      /\ start' < UrlBufferSize /\ method = "GET"
           => params' = start' /\ params' \in UrlIndex
      /\ start' = IF method = "GET" THEN start + 1 ELSE start
  BY <1>1, <1>2, CharStep
<1>6. TypeOK'
  BY <1>1, <1>4, <1>5 DEF IInv, TypeOK, BuffersKept, Reading
<1>7. ReadsInBuffer' /\ LoopRuns' /\ RoomKept'
  BY <1>1, <1>4, <1>5 DEF ReadsInBuffer, InParams, LoopRuns, RoomKept, BuffersKept, Reading
<1>9. OnlyTerminatorBehind'
  BY <1>4 DEF OnlyTerminatorBehind, BuffersKept, Reading, Fits
<1>8. StartBound'
  <2>1. calls \in 1..MaxCalls /\ start \in Nat
    BY <1>1 DEF IInv, TypeOK, StartBound
  <2> QED
    BY <1>1, <1>4, <1>5, <2>1 DEF IInv, StartBound, Reading
<1> QED
  BY <1>6, <1>7, <1>8, <1>9 DEF IInv

LEMMA EndCallbackStep == ASSUME IInv, EndCallback PROVE IInv'
<1> USE Constants
<1>1. TypeOK'
  BY DEF IInv, TypeOK, EndCallback
<1>2. ReadsInBuffer' /\ LoopRuns' /\ StartBound'
  BY DEF ReadsInBuffer, LoopRuns, StartBound, EndCallback, Reading
<1>3. RoomKept' /\ OnlyTerminatorBehind'
  BY DEF RoomKept, OnlyTerminatorBehind, FitsButTerminator, Fits, EndCallback, Reading
<1> QED
  BY <1>1, <1>2, <1>3 DEF IInv

LEMMA InitHolds == Init => IInv
<1> SUFFICES ASSUME Init PROVE IInv
  OBVIOUS
<1> USE Constants
<1>1. url \in [UrlIndex -> UrlBytes]
  BY Zenon DEF Init, UrlBytes
<1>2. urlLen \in UrlIndex /\ whole \in BOOLEAN
  BY DEF Init, UrlIndex
<1>3. TypeOK
  BY <1>1, <1>2 DEF Init, TypeOK
<1> QED
  BY <1>3 DEF IInv, Init, ReadsInBuffer, LoopRuns, StartBound, RoomKept,
              OnlyTerminatorBehind, FitsButTerminator, Fits, Reading

LEMMA StutterStep == ASSUME IInv, UNCHANGED vars PROVE IInv'
BY DEF IInv, TypeOK, ReadsInBuffer, InParams, StartBound, LoopRuns, RoomKept,
       OnlyTerminatorBehind, vars, locals

LEMMA NextHolds == IInv /\ [Next]_vars => IInv'
<1> SUFFICES ASSUME IInv, [Next]_vars PROVE IInv'
  OBVIOUS
<1>1. ASSUME NEW tok \in Tokens, NEW eof \in BOOLEAN, GetRequest(tok, eof)
      PROVE  IInv'
  <2>1. tok \in Seq(Bytes) /\ <<>> \in Seq(Bytes)
    BY UrlParamsAssumption
  <2> QED
    BY <1>1, <2>1, RequestStep DEF GetRequest
<1>2. ASSUME NEW tok \in PostTokens, NEW b \in Bodies, PostRequest(tok, b)
      PROVE  IInv'
  <2>1. tok \in Seq(Bytes) /\ b \in Seq(Bytes) /\ FALSE \in BOOLEAN
    BY UrlParamsAssumption
  <2> QED
    BY <1>2, <2>1, RequestStep DEF PostRequest
<1> QED
  BY <1>1, <1>2, ParseParamStep, ParamStep, Hex1Step, Hex2Step,
     EndCallbackStep, StutterStep DEF Next, ReadParam

(* However many parameters a callback asks for, in whatever request, every *)
(* read of the URL parameters is inside of the URL buffer.                 *)
THEOREM ParamsInBounds == Spec => [](TypeOK /\ ReadsInBuffer)
<1>1. IInv /\ [Next]_vars => IInv'
  BY NextHolds
<1>2. IInv => TypeOK /\ ReadsInBuffer
  BY DEF IInv
<1> QED
  BY InitHolds, <1>1, <1>2, PTL DEF Spec

(* Whatever a callback reads and however its buffers are sized, a call     *)
(* writes at most one byte behind each of them, the terminator of a name   *)
(* or value that fills it.                                                 *)
THEOREM ParamWrites == Spec => []OnlyTerminatorBehind
<1>1. IInv /\ [Next]_vars => IInv'
  BY NextHolds
<1>2. IInv => OnlyTerminatorBehind
  BY DEF IInv
<1> QED
  BY InitHolds, <1>1, <1>2, PTL DEF Spec

-----------------------------------------------------------------------------
(***************************************************************************)
(* Positions counted from the first one on.                                *)
(***************************************************************************)
Below(S, n) == {j \in S : j <= n}

LEMMA BelowSet ==
  ASSUME NEW S, NEW i, NEW T, T \subseteq S, \A j \in S : j \in T <=> j <= i
  PROVE  Below(S, i) = T
BY Zenon DEF Below

LEMMA BelowFinite ==
  ASSUME NEW n \in Nat, NEW S \in SUBSET (1..n), NEW i
  PROVE  /\ IsFiniteSet(S) /\ Cardinality(S) \in Nat
         /\ IsFiniteSet(Below(S, i)) /\ Cardinality(Below(S, i)) \in Nat
         /\ Cardinality(Below(S, i)) <= Cardinality(S)
<1>1. IsFiniteSet(1..n)
  <2>1. 1 \in Int /\ n \in Int
    OBVIOUS
  <2> QED
    BY <2>1, FS_Interval, Zenon
<1>2. IsFiniteSet(S)
  BY <1>1, FS_Subset, Zenon
<1>3. Below(S, i) \in SUBSET S
  BY DEF Below
<1>4. IsFiniteSet(Below(S, i)) /\ Cardinality(Below(S, i)) <= Cardinality(S)
  BY <1>2, <1>3, FS_Subset, Zenon
<1> QED
  BY <1>2, <1>4, FS_CardinalityType, Zenon

LEMMA BelowAll ==
  ASSUME NEW n \in Nat, NEW S \in SUBSET (1..n), NEW i \in Int
  PROVE  /\ i >= n => Below(S, i) = S
         /\ i <= 0 => Below(S, i) = {} /\ Cardinality(Below(S, i)) = 0
<1>1. ASSUME i >= n PROVE Below(S, i) = S
  <2>1. \A j \in S : j <= i
    BY <1>1
  <2> QED
    BY <2>1, BelowSet
<1>2. ASSUME i <= 0 PROVE Below(S, i) = {}
  <2>1. \A j \in S : ~(j <= i)
    BY <1>2
  <2> QED
    BY <2>1, Zenon DEF Below
<1> QED
  BY <1>1, <1>2, FS_EmptySet, Zenon

LEMMA BelowAdds ==
  ASSUME NEW n \in Nat, NEW S \in SUBSET (1..n), NEW m \in Int
  PROVE  /\ m + 1 \in S =>
              Cardinality(Below(S, m + 1)) = Cardinality(Below(S, m)) + 1
         /\ m + 1 \notin S => Below(S, m + 1) = Below(S, m)
<1>1. \A j \in S : j \in Int
  OBVIOUS
<1>2. ASSUME m + 1 \in S
      PROVE  Cardinality(Below(S, m + 1)) = Cardinality(Below(S, m)) + 1
  <2>1. Below(S, m + 1) = Below(S, m) \cup {m + 1}
    <3>1. \A j \in S : j <= m + 1 <=> j <= m \/ j = m + 1
      BY <1>1
    <3>2. \A j \in S : j \in Below(S, m) \cup {m + 1} <=> j <= m + 1
      BY <3>1 DEF Below
    <3>3. Below(S, m) \cup {m + 1} \subseteq S
      BY <1>2 DEF Below
    <3> QED
      BY <3>2, <3>3, BelowSet
  <2>2. m + 1 \notin Below(S, m)
    BY DEF Below
  <2>3. IsFiniteSet(Below(S, m))
    BY BelowFinite
  <2> QED
    BY <2>1, <2>2, <2>3, FS_AddElement, Zenon
<1>3. ASSUME m + 1 \notin S PROVE Below(S, m + 1) = Below(S, m)
  <2>1. \A j \in S : j <= m <=> j <= m + 1
    BY <1>1, <1>3
  <2>2. \A j \in S : j \in Below(S, m) <=> j <= m + 1
    BY <2>1 DEF Below
  <2>3. Below(S, m) \subseteq S
    BY DEF Below
  <2> QED
    BY <2>2, <2>3, BelowSet
<1> QED
  BY <1>2, <1>3

LEMMA RankGrows ==
  ASSUME NEW n \in Nat, NEW S \in SUBSET (1..n), NEW i \in Int, NEW j \in S, i < j
  PROVE  Cardinality(Below(S, i)) < Cardinality(Below(S, j))
<1>1. j \in Int /\ j - 1 \in Int /\ j - 1 + 1 = j
  OBVIOUS
<1>2. Cardinality(Below(S, j)) = Cardinality(Below(S, j - 1)) + 1
  BY <1>1, BelowAdds
<1>3. Below(S, i) \in SUBSET Below(S, j - 1)
  <2>1. \A l \in S : l \in Int /\ (l <= i => l <= j - 1)
    BY <1>1
  <2> QED
    BY <2>1 DEF Below
<1>4. Cardinality(Below(S, i)) <= Cardinality(Below(S, j - 1))
  BY <1>3, BelowFinite, FS_Subset, Zenon
<1>5. Cardinality(Below(S, i)) \in Nat /\ Cardinality(Below(S, j - 1)) \in Nat
  BY BelowFinite
<1> QED
  BY <1>2, <1>4, <1>5

(* A position is found by its rank.                                        *)
LEMMA NthOfRank ==
  ASSUME NEW n \in Nat, NEW S \in SUBSET (1..n), NEW i \in S
  PROVE  Nth(S, Cardinality(Below(S, i))) = i
<1> DEFINE k == Cardinality(Below(S, i))
           Rank(j) == Cardinality({l \in S : l <= j}) = k
<1>1. Rank(i)
  BY DEF Below
<1>2. ASSUME NEW j \in S, Rank(j) PROVE j = i
  <2>1. Cardinality(Below(S, j)) = k /\ k \in Nat
    BY <1>2, BelowFinite DEF Below
  <2>2. i \in Int /\ j \in Int
    OBVIOUS
  <2>3. i < j => Cardinality(Below(S, i)) < Cardinality(Below(S, j))
    BY <2>2, RankGrows
  <2>4. j < i => Cardinality(Below(S, j)) < Cardinality(Below(S, i))
    BY <2>2, RankGrows
  <2> QED
    BY <2>1, <2>2, <2>3, <2>4
<1>3. Nth(S, k) = CHOOSE j \in S : Rank(j)
  BY DEF Nth
<1> HIDE DEF Rank, k
<1>4. Nth(S, k) = i
  BY <1>1, <1>2, <1>3, Zenon
<1> QED
  BY <1>4 DEF k

(* Every rank is that of a position.                                       *)
LEMMA RankOfNth ==
  ASSUME NEW n \in Nat, NEW S \in SUBSET (1..n), NEW k \in 1..Cardinality(S)
  PROVE  Nth(S, k) \in S /\ Cardinality(Below(S, Nth(S, k))) = k
<1> DEFINE T == {i \in 0..n : Cardinality(Below(S, i)) >= k}
<1>1. n \in T /\ T \subseteq Nat
  <2>1. Below(S, n) = S /\ Cardinality(S) >= k
    BY BelowAll, BelowFinite
  <2> QED
    BY <2>1
<1>2. PICK m \in T : \A j \in T : m <= j
  <2> HIDE DEF T
  <2> QED
    BY <1>1, LeastNumber
<1>3. m \in 0..n /\ Cardinality(Below(S, m)) >= k
  OBVIOUS
<1>4. m - 1 \in Int /\ m - 1 + 1 = m /\ m # 0
  <2>1. m = 0 => Cardinality(Below(S, m)) = 0
    BY BelowAll
  <2> QED
    BY <1>3, <2>1
<1>5. m - 1 \notin T /\ m - 1 \in 0..n
  BY <1>2, <1>3, <1>4
<1>6. Cardinality(Below(S, m - 1)) \in Nat /\ Cardinality(Below(S, m - 1)) < k
      /\ Cardinality(Below(S, m)) \in Nat
  <2>1. Cardinality(Below(S, m - 1)) \in Nat /\ Cardinality(Below(S, m)) \in Nat
    BY BelowFinite
  <2>2. ~(Cardinality(Below(S, m - 1)) >= k)
    BY <1>5
  <2> QED
    BY <2>1, <2>2
<1>7. m \in S /\ Cardinality(Below(S, m)) = k
  <2>1. m - 1 + 1 \notin S => Below(S, m - 1 + 1) = Below(S, m - 1)
    BY <1>4, BelowAdds
  <2>2. m \notin S => Below(S, m) = Below(S, m - 1)
    BY <1>4, <2>1
  <2>3. m \in S
    BY <1>3, <1>6, <2>2
  <2>4. Cardinality(Below(S, m)) = Cardinality(Below(S, m - 1)) + 1
    BY <1>4, <2>3, BelowAdds
  <2> QED
    BY <1>3, <1>6, <2>3, <2>4
<1> QED
  BY <1>7, NthOfRank

-----------------------------------------------------------------------------
(***************************************************************************)
(* The query and its segments.                                             *)
(***************************************************************************)
LEMMA KeptTyped ==
  ASSUME sent \in Seq(Bytes)
  PROVE  Len(sent) \in Nat /\ Kept \in SUBSET (1..Len(sent))
BY DEF Kept

LEMMA QueryTyped ==
  ASSUME sent \in Seq(Bytes)
  PROVE  /\ Query \in Seq(Bytes)
         /\ Len(Query) = IF method = "GET" THEN Len(sent) ELSE Cardinality(Kept)
<1>1. CASE method = "GET"
  BY <1>1 DEF Query
<1>2. CASE method # "GET"
  <2>1. Cardinality(Kept) \in Nat
    BY KeptTyped, BelowFinite
  <2>2. ASSUME NEW k \in 1..Cardinality(Kept) PROVE sent[Nth(Kept, k)] \in Bytes
    <3>1. Nth(Kept, k) \in 1..Len(sent)
      BY KeptTyped, RankOfNth
    <3> QED
      BY <3>1
  <2>3. Query = [k \in 1..Cardinality(Kept) |-> sent[Nth(Kept, k)]]
    BY <1>2 DEF Query
  <2> DEFINE C == Cardinality(Kept)
             E(k) == sent[Nth(Kept, k)]
  <2>4. [k \in 1..C |-> E(k)] \in Seq(Bytes) /\ Len([k \in 1..C |-> E(k)]) = C
    <3>1. C \in Nat /\ \A k \in 1..C : E(k) \in Bytes
      BY <2>1, <2>2
    <3> HIDE DEF C, E
    <3> QED
      BY <3>1
  <2> QED
    BY <1>2, <2>3, <2>4
<1> QED
  BY <1>1, <1>2

LEMMA BorderRank ==
  ASSUME Query \in Seq(Bytes)
  PROVE  /\ Len(Query) \in Nat
         /\ Amps \in SUBSET (1..Len(Query)) /\ Cardinality(Amps) \in Nat
         /\ \A k \in 0..Cardinality(Amps) :
              /\ Border(k) \in 0..Len(Query)
              /\ Cardinality(Below(Amps, Border(k))) = k
              /\ k > 0 => Border(k) \in Amps
<1>1. Len(Query) \in Nat /\ Amps \in SUBSET (1..Len(Query))
  BY DEF Amps
<1>2. Cardinality(Amps) \in Nat
  BY <1>1, BelowFinite
<1>3. ASSUME NEW k \in 0..Cardinality(Amps)
      PROVE  /\ Border(k) \in 0..Len(Query)
             /\ Cardinality(Below(Amps, Border(k))) = k
             /\ k > 0 => Border(k) \in Amps
  <2>1. CASE k = 0
    <3>1. Border(k) = 0
      BY <2>1 DEF Border
    <3>2. 0 \in Int /\ 0 <= 0
      OBVIOUS
    <3>3. Cardinality(Below(Amps, 0)) = 0
      BY <1>1, <3>2, BelowAll, Zenon
    <3> QED
      BY <1>1, <2>1, <3>1, <3>3
  <2>2. CASE k # 0
    <3>1. k \in 1..Cardinality(Amps) /\ Border(k) = Nth(Amps, k)
      BY <1>2, <2>2 DEF Border
    <3>2. Nth(Amps, k) \in Amps /\ Cardinality(Below(Amps, Nth(Amps, k))) = k
      BY <1>1, <3>1, RankOfNth
    <3>3. Border(k) \in Amps /\ Cardinality(Below(Amps, Border(k))) = k
      BY <3>1, <3>2, Zenon
    <3>4. Border(k) \in 1..Len(Query)
      BY <1>1, <3>3, Zenon
    <3>5. Border(k) \in 0..Len(Query)
      BY <1>1, <3>4
    <3> QED
      BY <3>3, <3>5
  <2> QED
    BY <2>1, <2>2
<1> QED
  BY <1>1, <1>2, <1>3

(* Between two borders there is no "&".                                    *)
LEMMA Borders ==
  ASSUME Query \in Seq(Bytes), NEW k \in Nat, k >= 1, k <= Segments
  PROVE  /\ Query # <<>> /\ Segments = Cardinality(Amps) + 1
         /\ Border(k - 1) \in 0..Len(Query) /\ Border(k) \in 1..Len(Query) + 1
         /\ Border(k - 1) < Border(k)
         /\ k < Segments => Border(k) <= Len(Query) /\ Query[Border(k)] = "&"
         /\ k = Segments => Border(k) = Len(Query) + 1
         /\ \A i \in Border(k - 1) + 1..Border(k) - 1 : Query[i] # "&"
<1> DEFINE R(i) == Cardinality(Below(Amps, i))
<1>1. Query # <<>> /\ Segments = Cardinality(Amps) + 1
  BY DEF Segments
<1>2. /\ Len(Query) \in Nat
      /\ Amps \in SUBSET (1..Len(Query)) /\ Cardinality(Amps) \in Nat
  BY BorderRank
<1>3. /\ k - 1 \in 0..Cardinality(Amps)
      /\ Border(k - 1) \in 0..Len(Query) /\ R(Border(k - 1)) = k - 1
  BY <1>1, <1>2, BorderRank
<1>4. \A i \in Amps : i > Border(k - 1) => R(i) > k - 1
  <2>1. ASSUME NEW i \in Amps, i > Border(k - 1) PROVE R(i) > k - 1
    <3>1. Border(k - 1) \in Int /\ Border(k - 1) < i
      BY <1>2, <1>3, <2>1
    <3>2. R(Border(k - 1)) < R(i)
      BY <1>2, <3>1, RankGrows
    <3>3. R(i) \in Nat
      BY <1>2, BelowFinite
    <3> QED
      BY <1>3, <3>2, <3>3
  <2> QED
    BY <2>1
<1>5. CASE k = Segments
  <2>1. Border(k) = Len(Query) + 1
    BY <1>1, <1>2, <1>5 DEF Border
  <2>2. ASSUME NEW i \in Border(k - 1) + 1..Border(k) - 1, i \in Amps PROVE FALSE
    <3>1. R(i) > k - 1
      BY <1>3, <1>4, <2>2
    <3>2. R(i) \in Nat /\ R(i) <= Cardinality(Amps)
      BY <1>2, BelowFinite
    <3> QED
      BY <1>1, <1>2, <1>5, <3>1, <3>2
  <2>3. \A i \in Border(k - 1) + 1..Border(k) - 1 : i \in 1..Len(Query)
    BY <1>2, <1>3, <2>1
  <2>4. \A i \in Border(k - 1) + 1..Border(k) - 1 : Query[i] # "&"
    BY <2>2, <2>3 DEF Amps
  <2> QED
    BY <1>1, <1>2, <1>3, <1>5, <2>1, <2>4
<1>6. CASE k # Segments
  <2>1. k \in 0..Cardinality(Amps) /\ k > 0
    BY <1>1, <1>2, <1>6
  <2>2. Border(k) \in Amps /\ R(Border(k)) = k
    BY <2>1, BorderRank
  <2>3. Border(k) \in 1..Len(Query) /\ Query[Border(k)] = "&"
    BY <1>2, <2>2 DEF Amps
  <2>4. Border(k - 1) < Border(k)
    <3>1. Border(k) < Border(k - 1) => R(Border(k)) < R(Border(k - 1))
      <4>1. ASSUME Border(k) < Border(k - 1) PROVE R(Border(k)) < R(Border(k - 1))
        <5>1. k - 1 > 0
          BY <2>3, <4>1 DEF Border
        <5>2. Border(k - 1) \in Amps
          BY <1>3, <5>1, BorderRank
        <5>3. Border(k) \in Int
          BY <2>3
        <5> QED
          BY <1>2, <4>1, <5>2, <5>3, RankGrows
      <4> QED
        BY <4>1
    <3>2. Border(k) # Border(k - 1)
      BY <1>3, <2>2
    <3> QED
      BY <1>3, <2>2, <2>3, <3>1, <3>2
  <2>5. ASSUME NEW i \in Border(k - 1) + 1..Border(k) - 1, i \in Amps PROVE FALSE
    <3>1. R(i) > k - 1
      BY <1>3, <1>4, <2>5
    <3>2. i \in Int /\ i < Border(k)
      BY <1>3, <2>3
    <3>3. R(i) < R(Border(k))
      BY <1>2, <2>2, <3>2, RankGrows
    <3>4. R(i) \in Nat
      BY <1>2, BelowFinite
    <3> QED
      BY <2>2, <3>1, <3>3, <3>4
  <2>6. \A i \in Border(k - 1) + 1..Border(k) - 1 : i \in 1..Len(Query)
    BY <1>2, <1>3, <2>3
  <2>7. \A i \in Border(k - 1) + 1..Border(k) - 1 : Query[i] # "&"
    BY <2>5, <2>6 DEF Amps
  <2> QED
    BY <1>1, <1>2, <1>3, <1>6, <2>1, <2>3, <2>4, <2>7
<1> QED
  BY <1>5, <1>6

(* The bytes from one border to the next.                                  *)
LEMMA SegmentBytes ==
  ASSUME Query \in Seq(Bytes), NEW k \in Nat, k >= 1, k <= Segments
  PROVE  /\ Segment(k) \in Seq(Bytes)
         /\ Len(Segment(k)) = Border(k) - 1 - Border(k - 1)
         /\ \A i \in 1..Len(Segment(k)) : Segment(k)[i] = Query[Border(k - 1) + i]
<1> DEFINE a == Border(k - 1) + 1
           b == Border(k) - 1
<1>1. a \in Int /\ b \in Int /\ a \in 1..Len(Query) + 1 /\ b \in 0..Len(Query) /\ a <= b + 1
      /\ Len(Query) \in Nat
  BY Borders
<1>2. \A i \in a..b : Query[i] \in Bytes
  <2>1. \A i \in a..b : i \in 1..Len(Query)
    BY <1>1
  <2> QED
    BY <2>1, ElementOfSeq
<1>3. /\ SubSeq(Query, a, b) \in Seq(Bytes)
      /\ Len(SubSeq(Query, a, b)) = (IF a <= b THEN b - a + 1 ELSE 0)
      /\ \A i \in 1..b - a + 1 : SubSeq(Query, a, b)[i] = Query[a + i - 1]
  <2> HIDE DEF a, b
  <2> QED
    BY <1>1, <1>2, SubSeqProperties
<1>4. Len(SubSeq(Query, a, b)) = b - a + 1
  BY <1>1, <1>3
<1>5. b - a + 1 = Border(k) - 1 - Border(k - 1)
  BY Borders
<1>6. \A i \in 1..b - a + 1 : a + i - 1 = Border(k - 1) + i
  BY Borders
<1>7. Segment(k) = SubSeq(Query, a, b)
  BY DEF Segment
<1> HIDE DEF a, b
<1> QED
  BY <1>3, <1>4, <1>5, <1>6, <1>7

(* A well-formed segment is a name, one "=" and a value.                   *)
LEMMA SegmentShape ==
  ASSUME NEW s \in Seq(Bytes), WellFormedSegment(s)
  PROVE  /\ NameOf(s) \in Seq(Bytes) /\ ValueOf(s) \in Seq(Bytes)
         /\ Len(NameOf(s)) \in Nat /\ Len(NameOf(s)) < Len(s)
         /\ Len(ValueOf(s)) = Len(s) - Len(NameOf(s)) - 1
         /\ \A i \in 1..Len(NameOf(s)) : NameOf(s)[i] = s[i] /\ s[i] # "="
         /\ s[Len(NameOf(s)) + 1] = "="
         /\ \A i \in 1..Len(ValueOf(s)) :
              ValueOf(s)[i] = s[Len(NameOf(s)) + 1 + i] /\ ValueOf(s)[i] # "="
<1> DEFINE m == Len(NameOf(s))
           E == {i \in 1..Len(s) : s[i] = "="}
<1>1. /\ NameOf(s) \in Seq(Bytes) /\ m \in 0..Len(s)
      /\ \A i \in 1..m : NameOf(s)[i] = s[i] /\ s[i] # "="
      /\ m < Len(s) => s[m + 1] = "="
  BY BeforeProperties DEF NameOf
<1>2. Len(s) \in Nat
  OBVIOUS
<1>3. PICK x : E = {x}
  <2>1. Cardinality(E) = 1
    BY DEF WellFormedSegment
  <2>2. E \in SUBSET (1..Len(s))
    OBVIOUS
  <2>3. IsFiniteSet(E)
    BY <1>2, <2>2, BelowFinite
  <2> HIDE DEF E
  <2> QED
    BY <2>1, <2>3, FS_Singleton, Zenon
<1>4. x \in 1..Len(s) /\ s[x] = "="
  <2>1. x \in E
    BY <1>3, Zenon
  <2> QED
    BY <2>1
<1>5. m < Len(s)
  BY <1>1, <1>2, <1>4
<1>6. x = m + 1
  <2>1. m + 1 \in 1..Len(s) /\ s[m + 1] = "="
    BY <1>1, <1>2, <1>5
  <2>2. m + 1 \in E
    BY <2>1
  <2> HIDE DEF E
  <2> QED
    BY <1>3, <2>2, Zenon
<1> DEFINE a == m + 2
           b == Len(s)
<1>7. a \in Int /\ b \in Int /\ a <= b + 1 /\ a >= 1
  BY <1>1, <1>2, <1>5
<1>8. \A i \in a..b : s[i] \in Bytes
  <2>1. \A i \in a..b : i \in 1..Len(s)
    BY <1>7
  <2> QED
    BY <2>1, ElementOfSeq
<1>9. /\ SubSeq(s, a, b) \in Seq(Bytes)
      /\ Len(SubSeq(s, a, b)) = (IF a <= b THEN b - a + 1 ELSE 0)
      /\ \A i \in 1..b - a + 1 : SubSeq(s, a, b)[i] = s[a + i - 1]
  <2> HIDE DEF a, b
  <2> QED
    BY <1>7, <1>8, SubSeqProperties
<1>10. ValueOf(s) = SubSeq(s, a, b)
  BY DEF ValueOf
<1>11. Len(ValueOf(s)) = b - a + 1 /\ b - a + 1 = Len(s) - m - 1
  <2>1. b - a + 1 = Len(s) - m - 1
    BY <1>1, <1>2
  <2> HIDE DEF a, b
  <2> QED
    BY <1>7, <1>9, <1>10, <2>1
<1>12. ASSUME NEW i \in 1..Len(ValueOf(s))
       PROVE  ValueOf(s)[i] = s[m + 1 + i] /\ ValueOf(s)[i] # "="
  <2>1. i \in 1..b - a + 1 /\ a + i - 1 = m + 1 + i /\ m + 1 + i \in 1..Len(s) /\ m + 1 + i # m + 1
    BY <1>1, <1>2, <1>11
  <2>2. ValueOf(s)[i] = s[m + 1 + i]
    BY <1>9, <1>10, <2>1
  <2>3. m + 1 + i \notin E
    <3> HIDE DEF E
    <3> QED
      BY <1>3, <1>6, <2>1
  <2>4. s[m + 1 + i] # "="
    BY <2>1, <2>3
  <2> QED
    BY <2>2, <2>4
<1> HIDE DEF m, E
<1>13. m \in Nat /\ m < Len(s) /\ s[m + 1] = "="
  BY <1>1, <1>5
<1> QED
  BY <1>1, <1>9, <1>10, <1>11, <1>12, <1>13 DEF m

-----------------------------------------------------------------------------
(***************************************************************************)
(* A word that is being decoded: of w, n bytes have been read, and the     *)
(* buffer t, with room for so many more, holds the characters they stand   *)
(* for.                                                                    *)
(***************************************************************************)
Boundary(w, n) == \A j \in {n, n - 1} \cap 1..Len(w) : w[j] # "%"
IsPart(t, w, n) ==
  /\ Len(t) = Cardinality(Below(Chars(w), n))
  /\ \A i \in 1..Len(t) : t[i] = Decode(w)[i]
AtWord(w, n, t, room, size) ==
  /\ n \in 0..Len(w) /\ Boundary(w, n)
  /\ IsPart(t, w, n) /\ room = size - Len(t)
InEscape(w, n) == n + 3 <= Len(w) /\ w[n + 1] = "%"

Letters == Bytes \cup {NUL}

LEMMA CharsTyped ==
  ASSUME NEW w \in Seq(Bytes)
  PROVE  /\ Len(w) \in Nat /\ Chars(w) \in SUBSET (1..Len(w))
         /\ Cardinality(Chars(w)) \in Nat
<1>1. Len(w) \in Nat /\ Chars(w) \in SUBSET (1..Len(w))
  BY DEF Chars
<1> QED
  BY <1>1, BelowFinite

LEMMA NoneBelow ==
  ASSUME NEW w \in Seq(Bytes)
  PROVE  Cardinality(Below(Chars(w), 0)) = 0
<1>1. Len(w) \in Nat /\ Chars(w) \in SUBSET (1..Len(w))
  BY CharsTyped
<1>2. 0 \in Int /\ 0 <= 0
  OBVIOUS
<1> QED
  BY <1>1, <1>2, BelowAll, Zenon

LEMMA DecodeLength ==
  ASSUME NEW w \in Seq(Bytes)
  PROVE  /\ Len(Decode(w)) = Cardinality(Chars(w))
         /\ DOMAIN Decode(w) = 1..Cardinality(Chars(w))
<1> DEFINE D(k) == LET i == Nth(Chars(w), k)
                   IN IF w[i] = "%" THEN Decoded[<<w[i + 1], w[i + 2]>>] ELSE w[i]
           C == Cardinality(Chars(w))
<1>1. C \in Nat
  BY CharsTyped
<1>2. Decode(w) = [k \in 1..C |-> D(k)]
  BY DEF Decode
<1> HIDE DEF D, C
<1>3. Len([k \in 1..C |-> D(k)]) = C
  BY <1>1
<1> QED
  BY <1>2, <1>3 DEF C

(* Where a character starts, Decode has it.                                *)
LEMMA DecodeAt ==
  ASSUME NEW w \in Seq(Bytes), NEW i \in Chars(w)
  PROVE  Decode(w)[Cardinality(Below(Chars(w), i))] =
           IF w[i] = "%" THEN Decoded[<<w[i + 1], w[i + 2]>>] ELSE w[i]
<1> DEFINE k == Cardinality(Below(Chars(w), i))
<1>1. Nth(Chars(w), k) = i
  BY CharsTyped, NthOfRank
<1>2. k \in 1..Cardinality(Chars(w))
  <2>1. k \in Nat /\ k <= Cardinality(Chars(w)) /\ Cardinality(Chars(w)) \in Nat
    BY CharsTyped, BelowFinite
  <2>2. Cardinality(Below(Chars(w), 0)) = 0
    BY NoneBelow
  <2>3. 0 \in Int /\ 0 < i
    BY CharsTyped
  <2>4. Cardinality(Below(Chars(w), 0)) < k
    BY <2>3, CharsTyped, RankGrows
  <2> QED
    BY <2>1, <2>2, <2>4
<1> HIDE DEF k
<1>3. Decode(w)[k] = LET l == Nth(Chars(w), k)
                     IN IF w[l] = "%" THEN Decoded[<<w[l + 1], w[l + 2]>>] ELSE w[l]
  BY <1>2, Zenon DEF Decode
<1>4. Decode(w)[k] = IF w[i] = "%" THEN Decoded[<<w[i + 1], w[i + 2]>>] ELSE w[i]
  BY <1>1, <1>3, Zenon
<1> QED
  BY <1>4 DEF k

LEMMA Starts ==
  ASSUME NEW w \in Seq(Bytes), NEW i \in 1..Len(w)
  PROVE  i \in Chars(w) <=>
           \A j \in 1..Len(w) : j = i - 1 \/ j = i - 2 => w[j] # "%"
<1> DEFINE a == i - 1
           b == i - 2
<1>1. i \in Chars(w) <=> \A j \in {a, b} \cap 1..Len(w) : w[j] # "%"
  BY Zenon DEF Chars
<1> HIDE DEF a, b
<1>2. i \in Chars(w) <=> \A j \in 1..Len(w) : j = a \/ j = b => w[j] # "%"
  BY <1>1, Zenon
<1> QED
  BY <1>2 DEF a, b

LEMMA BoundaryIs ==
  ASSUME NEW w \in Seq(Bytes), NEW n \in Int
  PROVE  Boundary(w, n) <=>
           \A j \in 1..Len(w) : j = n \/ j = n - 1 => w[j] # "%"
<1> DEFINE b == n - 1
<1>1. Boundary(w, n) <=> \A j \in {n, b} \cap 1..Len(w) : w[j] # "%"
  BY Zenon DEF Boundary
<1> HIDE DEF b
<1>2. Boundary(w, n) <=> \A j \in 1..Len(w) : j = n \/ j = b => w[j] # "%"
  BY <1>1, Zenon
<1> QED
  BY <1>2 DEF b

(* Behind a character that is no part of an escape another one starts.     *)
LEMMA BoundaryStarts ==
  ASSUME NEW w \in Seq(Bytes), NEW n \in 0..Len(w) - 1, Boundary(w, n)
  PROVE  n + 1 \in Chars(w)
<1>1. n + 1 \in 1..Len(w)
  BY CharsTyped
<1>2. \A j \in 1..Len(w) : j = n \/ j = n - 1 => w[j] # "%"
  BY BoundaryIs
<1>3. \A j \in 1..Len(w) : j = n + 1 - 1 \/ j = n + 1 - 2 => w[j] # "%"
  BY <1>2
<1> QED
  BY <1>1, <1>3, Starts

LEMMA WordStart ==
  ASSUME NEW w \in Seq(Bytes), NEW size \in Nat
  PROVE  AtWord(w, 0, <<>>, size, size)
<1>1. Cardinality(Below(Chars(w), 0)) = 0
  BY NoneBelow
<1>2. IsPart(<<>>, w, 0)
  BY <1>1 DEF IsPart
<1>3. Boundary(w, 0)
  BY DEF Boundary
<1>4. 0 \in 0..Len(w) /\ size = size - Len(<<>>)
  BY CharsTyped
<1> QED
  BY <1>2, <1>3, <1>4 DEF AtWord

(* One character more.                                                     *)
LEMMA PartMore ==
  ASSUME NEW w \in Seq(Bytes), NEW n \in 0..Len(w) - 1, Boundary(w, n),
         NEW t \in Seq(Letters), IsPart(t, w, n), NEW c \in Letters,
         c = IF w[n + 1] = "%" THEN Decoded[<<w[n + 2], w[n + 3]>>] ELSE w[n + 1]
  PROVE  IsPart(Append(t, c), w, n + 1)
<1>1. n + 1 \in Chars(w)
  BY BoundaryStarts
<1>2. Cardinality(Below(Chars(w), n + 1)) = Len(t) + 1
  <2>1. n \in Int
    OBVIOUS
  <2>2. Cardinality(Below(Chars(w), n + 1)) = Cardinality(Below(Chars(w), n)) + 1
    BY <1>1, <2>1, CharsTyped, BelowAdds
  <2> QED
    BY <2>2 DEF IsPart
<1>3. Decode(w)[Len(t) + 1] = c
  <2>1. n + 1 + 1 = n + 2 /\ n + 1 + 2 = n + 3
    OBVIOUS
  <2>2. Decode(w)[Cardinality(Below(Chars(w), n + 1))] =
          IF w[n + 1] = "%" THEN Decoded[<<w[n + 1 + 1], w[n + 1 + 2]>>] ELSE w[n + 1]
    BY <1>1, DecodeAt
  <2> QED
    BY <1>2, <2>1, <2>2
<1>4. /\ Len(t) \in Nat /\ Len(Append(t, c)) = Len(t) + 1
      /\ Append(t, c)[Len(t) + 1] = c
      /\ \A i \in 1..Len(t) : Append(t, c)[i] = t[i]
  <2> HIDE DEF Letters
  <2> QED
    OBVIOUS
<1>5. ASSUME NEW i \in 1..Len(t) + 1 PROVE Append(t, c)[i] = Decode(w)[i]
  <2>1. CASE i \in 1..Len(t)
    BY <1>4, <2>1 DEF IsPart
  <2>2. CASE i = Len(t) + 1
    BY <1>3, <1>4, <2>2
  <2> QED
    BY <1>4, <2>1, <2>2
<1> QED
  BY <1>2, <1>4, <1>5 DEF IsPart

LEMMA WordChar ==
  ASSUME NEW w \in Seq(Bytes), NEW n, NEW t \in Seq(Letters), NEW room, NEW size \in Nat,
         AtWord(w, n, t, room, size), n < Len(w), w[n + 1] # "%"
  PROVE  AtWord(w, n + 1, Append(t, w[n + 1]), room - 1, size)
<1>1. n \in 0..Len(w) - 1 /\ n + 1 \in 0..Len(w) /\ n + 1 \in 1..Len(w)
  BY CharsTyped DEF AtWord
<1>2. w[n + 1] \in Letters
  BY <1>1 DEF Letters
<1>3. IsPart(Append(t, w[n + 1]), w, n + 1)
  BY <1>1, <1>2, PartMore DEF AtWord
<1>4. Boundary(w, n + 1)
  <2>1. \A j \in 1..Len(w) : j = n \/ j = n - 1 => w[j] # "%"
    BY BoundaryIs DEF AtWord
  <2>2. \A j \in 1..Len(w) : j = n + 1 \/ j = n + 1 - 1 => w[j] # "%"
    BY <1>1, <2>1
  <2> QED
    BY <1>1, <2>2, BoundaryIs
<1>5. room - 1 = size - Len(Append(t, w[n + 1]))
  <2>1. Len(t) \in Nat /\ Len(Append(t, w[n + 1])) = Len(t) + 1
    <3> HIDE DEF Letters
    <3> QED
      BY <1>2
  <2> QED
    BY <2>1 DEF AtWord
<1> QED
  BY <1>1, <1>3, <1>4, <1>5 DEF AtWord

LEMMA WordEscape ==
  ASSUME NEW w \in Seq(Bytes), NEW n, NEW t \in Seq(Letters), NEW room, NEW size \in Nat,
         AtWord(w, n, t, room, size), Escaped(w), InEscape(w, n)
  PROVE  /\ Decoded[<<w[n + 2], w[n + 3]>>] \in Letters
         /\ AtWord(w, n + 3, Append(t, Decoded[<<w[n + 2], w[n + 3]>>]), room - 1, size)
<1> DEFINE c == Decoded[<<w[n + 2], w[n + 3]>>]
<1>1. /\ n \in 0..Len(w) - 1 /\ n + 3 \in 0..Len(w) /\ n \in Int
      /\ n + 1 \in 1..Len(w) /\ n + 2 \in 1..Len(w) /\ n + 3 \in 1..Len(w)
  BY CharsTyped DEF AtWord, InEscape
<1>2. c \in Letters
  <2>1. w[n + 2] \in Letters /\ w[n + 3] \in Letters
    BY <1>1 DEF Letters
  <2>2. Decoded \in [Letters \X Letters -> Letters]
    BY UrlParamsAssumption DEF Letters
  <2> QED
    BY <2>1, <2>2
<1>3. w[n + 1] = "%" /\ w[n + 2] # "%" /\ w[n + 3] # "%"
  <2>1. n + 1 + 1 = n + 2 /\ n + 1 + 2 = n + 3
    BY <1>1
  <2>2. w[n + 1] = "%"
    BY DEF InEscape
  <2>3. w[n + 1 + 1] # "%" /\ w[n + 1 + 2] # "%"
    BY <1>1, <2>2 DEF Escaped
  <2> QED
    BY <2>1, <2>2, <2>3
<1>4. IsPart(Append(t, c), w, n + 1)
  BY <1>1, <1>2, <1>3, PartMore DEF AtWord
<1>5. n + 2 \notin Chars(w) /\ n + 3 \notin Chars(w)
  <2>1. n + 1 = n + 2 - 1 /\ n + 1 = n + 3 - 2
    BY <1>1
  <2>2. n + 2 \notin Chars(w)
    BY <1>1, <1>3, <2>1, Starts
  <2>3. n + 3 \notin Chars(w)
    BY <1>1, <1>3, <2>1, Starts
  <2> QED
    BY <2>2, <2>3
<1>6. Below(Chars(w), n + 3) = Below(Chars(w), n + 1)
  <2>1. n + 1 \in Int /\ n + 2 \in Int /\ n + 1 + 1 = n + 2 /\ n + 2 + 1 = n + 3
    BY <1>1
  <2>2. Below(Chars(w), n + 1 + 1) = Below(Chars(w), n + 1)
    BY <1>5, <2>1, CharsTyped, BelowAdds
  <2>3. Below(Chars(w), n + 2 + 1) = Below(Chars(w), n + 2)
    BY <1>5, <2>1, CharsTyped, BelowAdds
  <2> QED
    BY <2>1, <2>2, <2>3
<1>7. IsPart(Append(t, c), w, n + 3)
  BY <1>4, <1>6 DEF IsPart
<1>8. Boundary(w, n + 3)
  <2>1. n + 3 - 1 = n + 2
    BY <1>1
  <2>2. \A j \in 1..Len(w) : j = n + 3 \/ j = n + 3 - 1 => w[j] # "%"
    BY <1>3, <2>1
  <2> QED
    BY <1>1, <2>2, BoundaryIs
<1>9. room - 1 = size - Len(Append(t, c))
  <2>1. Len(t) \in Nat /\ Len(Append(t, c)) = Len(t) + 1
    <3> HIDE DEF Letters, c
    <3> QED
      BY <1>2
  <2> QED
    BY <2>1 DEF AtWord
<1> QED
  BY <1>1, <1>2, <1>7, <1>8, <1>9 DEF AtWord

(* Before the end of a word that fits there is room for a character.       *)
LEMMA WordRoom ==
  ASSUME NEW w \in Seq(Bytes), NEW n, NEW t \in Seq(Letters), NEW room, NEW size \in Nat,
         AtWord(w, n, t, room, size), n < Len(w), Len(Decode(w)) <= size
  PROVE  room > 0
<1>1. n \in 0..Len(w) - 1 /\ n \in Int
  BY CharsTyped DEF AtWord
<1>2. n + 1 \in Chars(w)
  BY <1>1, BoundaryStarts DEF AtWord
<1>3. Cardinality(Below(Chars(w), n + 1)) = Cardinality(Below(Chars(w), n)) + 1
  BY <1>1, <1>2, CharsTyped, BelowAdds
<1>4. Cardinality(Below(Chars(w), n + 1)) <= Cardinality(Chars(w))
  BY CharsTyped, BelowFinite
<1>5. Cardinality(Chars(w)) <= size
  BY DecodeLength
<1>6. Len(t) = Cardinality(Below(Chars(w), n)) /\ room = size - Len(t) /\ Len(t) \in Nat
  BY DEF AtWord, IsPart
<1> QED
  BY <1>3, <1>4, <1>5, <1>6, CharsTyped

(* At its end, the buffer holds the word.                                  *)
LEMMA WordEnd ==
  ASSUME NEW w \in Seq(Bytes), NEW t \in Seq(Letters), NEW room, NEW size,
         AtWord(w, Len(w), t, room, size)
  PROVE  t = Decode(w)
<1>1. Below(Chars(w), Len(w)) = Chars(w)
  <2>1. /\ Len(w) \in Nat /\ Chars(w) \in SUBSET (1..Len(w))
        /\ Len(w) \in Int /\ Len(w) >= Len(w)
    BY CharsTyped
  <2> QED
    BY <2>1, BelowAll, Zenon
<1>2. Len(t) = Cardinality(Chars(w)) /\ \A i \in 1..Len(t) : t[i] = Decode(w)[i]
  BY <1>1 DEF AtWord, IsPart
<1>3. DOMAIN t = 1..Len(t) /\ t = [i \in DOMAIN t |-> t[i]]
  BY DEF Letters
<1>4. DOMAIN Decode(w) = 1..Len(t)
  BY <1>2, DecodeLength
<1>5. Decode(w) = [i \in DOMAIN Decode(w) |-> Decode(w)[i]]
  BY Zenon DEF Decode
<1> QED
  BY <1>2, <1>3, <1>4, <1>5, Zenon

-----------------------------------------------------------------------------
(***************************************************************************)
(* The cursor: how much of the query has been read, and that what is left  *)
(* of it is still where the next read will find it.                        *)
(***************************************************************************)
Place == IF method = "GET" THEN params - (urlLen - Len(sent))
         ELSE Len(sent) - Len(body)
Pos == IF method # "GET" THEN Cardinality(Below(Kept, Place))
       ELSE IF params # NoPtr /\ Place <= Len(sent) THEN Place ELSE Len(sent)

UrlCursor ==
  /\ url[urlLen] = NUL
  /\ params = NoPtr => sent = <<>> /\ start >= UrlBufferSize
  /\ params # NoPtr =>
       /\ Len(sent) < urlLen /\ Place >= 0
       /\ params < UrlBufferSize => start = params
       /\ \A i \in 1..Len(sent) : url[urlLen - Len(sent) + i - 1] = sent[i]
BodyCursor ==
  /\ Place >= 0
  /\ \A i \in 1..Len(body) : body[i] = sent[Place + i]
Cursor ==
  /\ sent \in Seq(Bytes)
  /\ IF method = "GET" THEN UrlCursor ELSE BodyCursor

(* The query is made of the method and of what was sent.                   *)
LEMMA SameQuery ==
  ASSUME UNCHANGED <<method, sent>>
  PROVE  /\ Query' = Query /\ Segments' = Segments
         /\ \A k : Border(k)' = Border(k) /\ Segment(k)' = Segment(k)
         /\ \A n : Pairs(n)' = Pairs(n)
<1>1. Query' = Query
  BY DEF Query, Kept, Nth
<1>2. Segments' = Segments
  BY <1>1 DEF Segments, Amps
<1>3. ASSUME NEW k PROVE Border(k)' = Border(k) /\ Segment(k)' = Segment(k)
  BY <1>1 DEF Border, Segment, Amps, Nth
<1>4. ASSUME NEW n PROVE Pairs(n)' = Pairs(n)
  BY <1>2, <1>3 DEF Pairs
<1> QED
  BY <1>1, <1>2, <1>3, <1>4

LEMMA PosTyped ==
  ASSUME IInv, Cursor
  PROVE  /\ Query \in Seq(Bytes) /\ Len(Query) \in Nat
         /\ Pos \in 0..Len(Query)
<1>1. sent \in Seq(Bytes) /\ Len(sent) \in Nat /\ body \in Seq(Bytes) /\ Len(body) \in Nat
  BY DEF Cursor, IInv, TypeOK
<1>2. Query \in Seq(Bytes) /\ Len(Query) \in Nat
  BY <1>1, QueryTyped
<1>3. CASE method = "GET"
  <2>1. Len(Query) = Len(sent)
    BY <1>1, <1>3, QueryTyped
  <2>2. params \in Int /\ urlLen \in Int
    BY Constants DEF IInv, TypeOK, NoPtr, UrlIndex
  <2>3. params # NoPtr => Place >= 0 /\ Place \in Int
    BY <1>1, <1>3, <2>2 DEF Cursor, UrlCursor, Place
  <2> QED
    BY <1>1, <1>2, <1>3, <2>1, <2>3 DEF Pos
<1>4. CASE method # "GET"
  <2>1. Len(Query) = Cardinality(Kept) /\ Pos = Cardinality(Below(Kept, Place))
    BY <1>1, <1>4, QueryTyped DEF Pos
  <2>2. Cardinality(Below(Kept, Place)) \in Nat /\ Cardinality(Kept) \in Nat
        /\ Cardinality(Below(Kept, Place)) <= Cardinality(Kept)
    BY <1>1, KeptTyped, BelowFinite
  <2> QED
    BY <1>2, <2>1, <2>2
<1> QED
  BY <1>3, <1>4

(* One read of a URL: as long as it stays on this side of the terminator,  *)
(* the guard and the pointer agree on the next character.                  *)
LEMMA NextUrlChar ==
  ASSUME IInv, pc \in Reading, Cursor, ~PastEnd',
         NEW ret \in {0, 1}, NEW c \in Bytes \cup {NUL}, UrlChar(ret, c),
         UNCHANGED <<method, url, urlLen, sent>>
  PROVE  /\ Cursor'
         /\ Pos < Len(Query) => ret = 1 /\ c = Query[Pos + 1] /\ Pos' = Pos + 1
         /\ Pos = Len(Query) => EndOfInput(ret, c) /\ Pos' = Pos
         /\ params <= urlLen + 1
<1> USE Constants
<1>1. /\ method = "GET" /\ method' = "GET"
      /\ ret = (IF InParams THEN 1 ELSE 0) /\ (InParams => c \in Pointed)
      /\ params' = IF InParams THEN params + 1 ELSE params
  BY DEF UrlChar
<1>2. start' = start + 1
  BY <1>1, CharStep DEF ParseURLParamChar
<1>3. /\ sent \in Seq(Bytes) /\ Len(sent) \in Nat /\ UrlCursor /\ Query = sent
  BY <1>1 DEF Cursor, Query
<1>4. /\ params \in {NoPtr} \cup 0..UrlBufferSize /\ params \in Int
      /\ urlLen \in 0..UrlBufferSize - 1 /\ start \in Int
  BY DEF IInv, TypeOK, NoPtr, UrlIndex
<1>5. params' <= urlLen + 1
  <2>1. params' \in Int
    BY <1>1, <1>4
  <2>2. ~(params' > urlLen + 1)
    BY <1>1 DEF PastEnd
  <2> QED
    BY <1>4, <2>1, <2>2
<1>6. /\ Place = params - (urlLen - Len(sent))
      /\ Place' = params' - (urlLen - Len(sent))
      /\ Pos = IF params # NoPtr /\ Place <= Len(sent) THEN Place ELSE Len(sent)
      /\ Pos' = IF params' # NoPtr /\ Place' <= Len(sent) THEN Place' ELSE Len(sent)
  BY <1>1 DEF Place, Pos
<1>7. CASE InParams
  <2>1. params = start /\ params \in 0..UrlBufferSize - 1 /\ params # NoPtr
    BY <1>1, <1>4, <1>7 DEF IInv, ReadsInBuffer, Reading, UrlIndex, NoPtr
  <2>2. ret = 1 /\ c = url[params] /\ params' = params + 1
    BY <1>1, <1>7, <2>1 DEF Pointed, UrlIndex
  <2>3. /\ url[urlLen] = NUL /\ Len(sent) < urlLen /\ Place >= 0
        /\ \A i \in 1..Len(sent) : url[urlLen - Len(sent) + i - 1] = sent[i]
    BY <1>3, <2>1 DEF UrlCursor
  <2>4. Place \in 0..Len(sent) /\ Place' = Place + 1 /\ params <= urlLen
    BY <1>3, <1>4, <1>5, <1>6, <2>1, <2>2, <2>3
  <2>5. Pos = Place
    BY <1>6, <2>1, <2>4
  <2>6. params' # NoPtr
    BY <2>1, <2>2 DEF NoPtr
  <2>7. ASSUME Pos < Len(sent)
        PROVE  c = Query[Pos + 1] /\ Pos' = Pos + 1
    <3>1. Place + 1 \in 1..Len(sent) /\ params = urlLen - Len(sent) + (Place + 1) - 1
      BY <1>3, <1>4, <1>6, <2>1, <2>4, <2>5, <2>7
    <3>2. c = sent[Place + 1]
      BY <2>2, <2>3, <3>1
    <3>3. Pos' = Pos + 1
      BY <1>3, <1>6, <2>4, <2>5, <2>6, <2>7
    <3> QED
      BY <1>3, <2>5, <3>2, <3>3
  <2>8. ASSUME Pos = Len(sent) PROVE EndOfInput(ret, c) /\ Pos' = Pos
    <3>1. params = urlLen
      BY <1>3, <1>4, <1>6, <2>4, <2>5, <2>8
    <3>2. EndOfInput(ret, c)
      BY <2>2, <2>3, <3>1 DEF EndOfInput
    <3>3. Pos' = Pos
      BY <1>3, <1>6, <2>4, <2>5, <2>8
    <3> QED
      BY <3>2, <3>3
  <2>9. Cursor'
    <3>1. Place' >= 0 /\ start' = params'
      BY <1>2, <2>1, <2>2, <2>4
    <3>2. UrlCursor'
      BY <2>3, <2>6, <3>1 DEF UrlCursor
    <3> QED
      BY <1>1, <1>3, <3>2 DEF Cursor
  <2> QED
    BY <1>3, <1>4, <2>2, <2>4, <2>7, <2>8, <2>9
<1>8. CASE ~InParams
  <2>1. ret = 0 /\ params' = params /\ start >= UrlBufferSize /\ start' >= UrlBufferSize
    BY <1>1, <1>2, <1>4, <1>8 DEF InParams
  <2>2. Place' = Place /\ Pos' = Pos
    BY <1>6, <2>1
  <2>3. Pos = Len(sent)
    <3>1. CASE params = NoPtr
      BY <1>6, <3>1
    <3>2. CASE params # NoPtr
      <4>1. params = UrlBufferSize /\ urlLen = UrlBufferSize - 1
        BY <1>3, <1>4, <1>5, <2>1, <3>2 DEF UrlCursor
      <4> QED
        BY <1>3, <1>4, <1>6, <4>1
    <3> QED
      BY <3>1, <3>2
  <2>4. EndOfInput(ret, c)
    BY <2>1 DEF EndOfInput
  <2>5. Cursor'
    <3>1. params # NoPtr => params = UrlBufferSize
      BY <1>3, <1>4, <2>1 DEF UrlCursor
    <3>2. UrlCursor'
      BY <1>3, <2>1, <2>2, <3>1 DEF UrlCursor
    <3> QED
      BY <1>1, <1>3, <3>2 DEF Cursor
  <2> QED
    BY <1>3, <1>4, <1>5, <2>1, <2>2, <2>3, <2>4, <2>5
<1> QED
  BY <1>7, <1>8

(* Bytes of a body that are skipped do not count.                          *)
LEMMA SkippedRun ==
  ASSUME sent \in Seq(Bytes), NEW p \in Nat, NEW m \in Nat,
         \A i \in 1..m : p + i \in 1..Len(sent) => sent[p + i] \in Skipped
  PROVE  Below(Kept, p + m) = Below(Kept, p)
<1>1. ASSUME NEW j \in Kept PROVE j <= p <=> j <= p + m
  <2>1. j \in 1..Len(sent) /\ sent[j] \notin Skipped
    BY DEF Kept
  <2>2. j <= p + m /\ ~(j <= p) => j - p \in 1..m /\ p + (j - p) = j
    BY <2>1
  <2>3. ~(j <= p + m /\ ~(j <= p))
    BY <2>1, <2>2
  <2> QED
    BY <2>1, <2>3
<1>2. Below(Kept, p) \subseteq Kept /\ \A j \in Kept : j \in Below(Kept, p) <=> j <= p + m
  BY <1>1 DEF Below
<1> QED
  BY <1>2, BelowSet

LEMMA NextBodyChar ==
  ASSUME IInv, Cursor, whole', NEW ret, NEW c,
         BodyChar(ret, c) \/ BodyFails(ret),
         UNCHANGED <<method, url, urlLen, sent>>
  PROVE  /\ Cursor' /\ whole
         /\ Pos < Len(Query) => ret = 1 /\ c = Query[Pos + 1] /\ Pos' = Pos + 1
         /\ Pos = Len(Query) => EndOfInput(ret, c) /\ Pos' = Pos
<1>1. method # "GET" /\ method' # "GET"
  BY DEF BodyChar, BodyFails
<1>2. /\ sent \in Seq(Bytes) /\ Len(sent) \in Nat
      /\ body \in Seq(Bytes) /\ Len(body) \in Nat
      /\ Place >= 0 /\ Place = Len(sent) - Len(body) /\ Place \in Nat
      /\ \A i \in 1..Len(body) : body[i] = sent[Place + i]
  <2>1. sent \in Seq(Bytes) /\ body \in Seq(Bytes) /\ BodyCursor
    BY <1>1 DEF Cursor, IInv, TypeOK
  <2>2. Place = Len(sent) - Len(body)
    BY <1>1 DEF Place
  <2> QED
    BY <2>1, <2>2 DEF BodyCursor
<1>3. /\ Query \in Seq(Bytes) /\ Len(Query) = Cardinality(Kept)
      /\ Kept \in SUBSET (1..Len(sent)) /\ Cardinality(Kept) \in Nat
  BY <1>1, <1>2, QueryTyped, KeptTyped, BelowFinite
<1>4. Kept' = Kept /\ Pos = Cardinality(Below(Kept, Place))
      /\ Pos' = Cardinality(Below(Kept, Place')) /\ Place' = Len(sent) - Len(body')
  BY <1>1 DEF Kept, Pos, Place, Below
<1>5. ASSUME NEW n \in 0..Len(body), body' = SubSeq(body, n + 1, Len(body))
      PROVE  Cursor' /\ Place' = Place + n
  <2>1. /\ body' \in Seq(Bytes) /\ Len(body') = Len(body) - n
        /\ \A i \in 1..Len(body) - n : body'[i] = body[n + i]
    <3>1. n + 1 \in Int /\ Len(body) \in Int /\ n + 1 <= Len(body) + 1 /\ n + 1 >= 1
      BY <1>2
    <3>2. \A i \in n + 1..Len(body) : body[i] \in Bytes
      BY <1>2, ElementOfSeq
    <3>3. /\ SubSeq(body, n + 1, Len(body)) \in Seq(Bytes)
          /\ Len(SubSeq(body, n + 1, Len(body))) =
               IF n + 1 <= Len(body) THEN Len(body) - (n + 1) + 1 ELSE 0
          /\ \A i \in 1..Len(body) - (n + 1) + 1 :
               SubSeq(body, n + 1, Len(body))[i] = body[(n + 1) + i - 1]
      BY <3>1, <3>2, SubSeqProperties
    <3> QED
      BY <1>2, <1>5, <3>3
  <2>2. Place' = Place + n
    BY <1>2, <1>4, <2>1
  <2>3. ASSUME NEW i \in 1..Len(body') PROVE body'[i] = sent[Place' + i]
    <3>1. i \in 1..Len(body) - n /\ n + i \in 1..Len(body) /\ Place' + i = Place + (n + i)
      BY <1>2, <2>1, <2>2
    <3>2. body'[i] = body[n + i] /\ body[n + i] = sent[Place + (n + i)]
      BY <1>2, <2>1, <3>1
    <3> QED
      BY <3>1, <3>2
  <2>4. BodyCursor'
    <3>1. Place' >= 0
      BY <1>2, <2>2
    <3> QED
      BY <2>3, <3>1, Zenon DEF BodyCursor
  <2> QED
    BY <1>1, <1>2, <2>2, <2>4 DEF Cursor
<1>6. CASE BodyChar(ret, c)
  <2>1. PICK n \in 1..Len(body) :
          /\ \A i \in 1..n - 1 : body[i] \in Skipped
          /\ body[n] \notin Skipped
          /\ ret = 1 /\ c = body[n]
          /\ body' = SubSeq(body, n + 1, Len(body))
    BY <1>6 DEF BodyChar
  <2>2. whole
    BY <1>6 DEF BodyChar
  <2>3. Cursor' /\ Place' = Place + n
    <3>1. n \in 0..Len(body)
      BY <1>2
    <3> QED
      BY <1>5, <2>1, <3>1, Zenon
  <2>4. /\ Place + n \in 1..Len(sent) /\ Place + n - 1 \in Int
        /\ Place + (n - 1) = Place + n - 1 /\ Place + n - 1 + 1 = Place + n
    BY <1>2
  <2>5. c = sent[Place + n] /\ Place + n \in Kept
    BY <1>2, <2>1, <2>4 DEF Kept
  <2>6. Below(Kept, Place + (n - 1)) = Below(Kept, Place)
    <3>1. ASSUME NEW i \in 1..n - 1 PROVE sent[Place + i] \in Skipped
      <4>1. i \in 1..Len(body)
        BY <1>2
      <4>2. body[i] \in Skipped
        BY <2>1
      <4> QED
        BY <1>2, <4>1, <4>2
    <3>2. n - 1 \in Nat
      OBVIOUS
    <3> QED
      BY <1>2, <3>1, <3>2, SkippedRun
  <2>7. Cardinality(Below(Kept, Place + n)) = Pos + 1
    <3>1. Cardinality(Below(Kept, Place + n - 1 + 1)) =
            Cardinality(Below(Kept, Place + n - 1)) + 1
      BY <1>2, <1>3, <2>4, <2>5, BelowAdds
    <3> QED
      BY <1>4, <2>4, <2>6, <3>1
  <2>8. Pos' = Pos + 1
    BY <1>4, <2>3, <2>7
  <2>9. Pos + 1 <= Len(Query) /\ Pos \in Nat
    <3>1. Cardinality(Below(Kept, Place + n)) <= Cardinality(Kept)
      BY <1>2, <1>3, BelowFinite
    <3>2. Cardinality(Below(Kept, Place)) \in Nat
      BY <1>2, <1>3, BelowFinite
    <3> QED
      BY <1>3, <1>4, <2>7, <3>1, <3>2
  <2>10. Query[Pos + 1] = c
    <3>1. Nth(Kept, Pos + 1) = Place + n
      BY <1>2, <1>3, <2>5, <2>7, NthOfRank
    <3>2. Pos + 1 \in 1..Cardinality(Kept)
      BY <1>3, <2>9
    <3>3. Query[Pos + 1] = sent[Nth(Kept, Pos + 1)]
      BY <1>1, <3>2, Zenon DEF Query
    <3> QED
      BY <2>5, <3>1, <3>3
  <2> QED
    BY <1>3, <2>1, <2>2, <2>3, <2>8, <2>9, <2>10
<1>7. CASE BodyFails(ret)
  <2>1. PICK n \in 0..Len(body) :
          /\ \A i \in 1..n : body[i] \in Skipped
          /\ body' = SubSeq(body, n + 1, Len(body))
          /\ whole' = (whole /\ n = Len(body))
    BY <1>7, Zenon DEF BodyFails
  <2>2. whole /\ n = Len(body) /\ ret = 0
    BY <1>7, <2>1, Zenon DEF BodyFails
  <2>3. Cursor' /\ Place' = Place + n
    BY <1>2, <1>5, <2>1
  <2>4. Below(Kept, Place + n) = Below(Kept, Place)
    <3>1. \A i \in 1..n : sent[Place + i] \in Skipped
      BY <1>2, <2>1
    <3>2. n \in Nat
      OBVIOUS
    <3> QED
      BY <1>2, <3>1, <3>2, SkippedRun
  <2>5. Below(Kept, Place + n) = Kept
    <3>1. Place + n = Len(sent) /\ Place + n \in Int /\ Place + n >= Len(sent)
      BY <1>2, <2>2
    <3> QED
      BY <1>2, <1>3, <3>1, BelowAll
  <2>6. Pos = Len(Query) /\ Pos' = Pos
    BY <1>3, <1>4, <2>3, <2>4, <2>5
  <2>7. EndOfInput(ret, c)
    BY <2>2 DEF EndOfInput
  <2> QED
    BY <1>3, <2>2, <2>3, <2>6, <2>7
<1> QED
  BY <1>6, <1>7

LEMMA NextChar ==
  ASSUME IInv, pc \in Reading, Cursor, whole', ~PastEnd',
         NEW ret \in {0, 1}, NEW c \in Bytes \cup {NUL},
         ParseURLParamChar(ret, c), UNCHANGED <<method, url, urlLen, sent>>
  PROVE  /\ Cursor'
         /\ Pos < Len(Query) => ret = 1 /\ c = Query[Pos + 1] /\ Pos' = Pos + 1
         /\ Pos = Len(Query) => EndOfInput(ret, c) /\ Pos' = Pos
BY NextUrlChar, NextBodyChar DEF ParseURLParamChar

(* What a request that is well-formed later on was before.                 *)
LEMMA CharBefore ==
  ASSUME IInv, pc \in Reading, NEW ret \in {0, 1}, NEW c \in Bytes \cup {NUL},
         ParseURLParamChar(ret, c), UNCHANGED <<method, urlLen, sent>>,
         WellFormed', ~PastEnd'
  PROVE  WellFormed /\ ~PastEnd
<1>1. whole' => whole
  BY Zenon DEF ParseURLParamChar, UrlChar, BodyChar, BodyFails
<1>2. WellFormed
  BY <1>1, SameQuery DEF WellFormed
<1>3. ~PastEnd
  <2>1. method = "GET" => params' \in {params, params + 1}
    BY DEF ParseURLParamChar, UrlChar, BodyChar, BodyFails
  <2>2. params \in Int /\ urlLen \in Int
    BY Constants DEF IInv, TypeOK, NoPtr, UrlIndex
  <2> QED
    BY <2>1, <2>2 DEF PastEnd
<1> QED
  BY <1>2, <1>3

(* A string with a terminator ends no later than there.                    *)
LEMMA EndsBefore ==
  ASSUME NEW buf, DOMAIN buf = UrlIndex, NEW z \in UrlIndex, buf[z] = NUL
  PROVE  StrLen(buf) \in UrlIndex /\ StrLen(buf) <= z
<1> DEFINE T == {i \in UrlIndex : buf[i] = NUL}
           Least(n) == buf[n] = NUL /\ \A j \in 0..n - 1 : buf[j] # NUL
<1>1. T \subseteq Nat /\ T # {}
  BY BufferSize DEF UrlIndex
<1>2. PICK x \in T : \A y \in T : x <= y
  <2> HIDE DEF T
  <2> QED
    BY <1>1, LeastNumber
<1>3. x \in UrlIndex /\ Least(x)
  <2>1. x \in UrlIndex /\ buf[x] = NUL
    OBVIOUS
  <2>2. ASSUME NEW j \in 0..x - 1 PROVE buf[j] # NUL
    <3>1. j \in UrlIndex /\ ~(x <= j)
      BY <2>1, BufferSize DEF UrlIndex
    <3> QED
      BY <1>2, <3>1
  <2> QED
    BY <2>1, <2>2
<1>4. StrLen(buf) = CHOOSE n \in UrlIndex : Least(n)
  BY DEF StrLen
<1>5. StrLen(buf) \in UrlIndex /\ Least(StrLen(buf))
  <2> HIDE DEF Least
  <2> QED
    BY <1>3, <1>4, Zenon
<1>6. ~(z <= StrLen(buf) - 1)
  <2>1. z <= StrLen(buf) - 1 => z \in 0..StrLen(buf) - 1
    BY <1>5, BufferSize DEF UrlIndex
  <2> QED
    BY <1>5, <2>1
<1> QED
  BY <1>5, <1>6, BufferSize DEF UrlIndex

(* What is left of the URL buffer behind the "?" is what was sent there.   *)
LEMMA SentInUrl ==
  ASSUME NEW old, NEW tok \in Seq(Bytes), NEW p, LastMark(tok, p)
  PROVE  LET n == Len(Cut(tok, UrlBufferSize - 1))
             u == Split(Stored(old, tok, FALSE), StoredLen(tok, FALSE))
         IN \A i \in p + 1..n : u[i - 1] = tok[i]
<1> DEFINE n == Len(Cut(tok, UrlBufferSize - 1))
           s == Stored(old, tok, FALSE)
           u == Split(s, StoredLen(tok, FALSE))
<1>1. n \in 0..UrlBufferSize - 1 /\ n <= Len(tok) /\ Len(tok) \in Nat
  BY StoredLenInBuffer
<1>2. p \in 1..n /\ tok[p] = "?" /\ \A j \in p + 1..n : tok[j] # "?"
  BY DEF LastMark
<1>3. p - 1 \in UrlIndex /\ p - 1 < n /\ p - 1 + 1 = p
  BY <1>1, <1>2, BufferSize DEF UrlIndex
<1>4. s[p - 1] = NUL
  <2>1. s[p - 1] = IF tok[p - 1 + 1] = "?" THEN NUL ELSE tok[p - 1 + 1]
    BY <1>3, StoredByte, Zenon
  <2> QED
    BY <1>2, <1>3, <2>1, Zenon
<1>5. StrLen(s) \in UrlIndex /\ StrLen(s) <= p - 1
  <2>1. DOMAIN s = UrlIndex
    BY DEF Stored
  <2> HIDE DEF s
  <2> QED
    BY <1>3, <1>4, <2>1, EndsBefore
<1>6. ASSUME NEW i \in p + 1..n PROVE u[i - 1] = tok[i]
  <2>1. i - 1 \in UrlIndex /\ i - 1 < n /\ i - 1 + 1 = i /\ ~(i - 1 < StrLen(s))
    <3> HIDE DEF n, s
    <3> QED
      BY <1>1, <1>2, <1>5, BufferSize DEF UrlIndex
  <2>2. s[i - 1] = tok[i]
    <3>1. s[i - 1] = IF tok[i - 1 + 1] = "?" THEN NUL ELSE tok[i - 1 + 1]
      BY <2>1, StoredByte, Zenon
    <3> QED
      BY <1>2, <2>1, <3>1, Zenon
  <2>3. i - 1 \notin Slashes(s, StoredLen(tok, FALSE))
    BY <2>1 DEF Slashes
  <2>4. u[i - 1] = s[i - 1]
    <3> HIDE DEF s
    <3> QED
      BY <2>1, <2>3, Zenon DEF Split
  <2> QED
    BY <2>2, <2>4
<1> QED
  BY <1>6

LEMMA MarkFound ==
  ASSUME NEW tok \in Seq(Bytes), ParamsOf(tok) # NoPtr
  PROVE  LastMark(tok, ParamsOf(tok))
<1>1. \E i \in 1..Len(tok) : LastMark(tok, i)
  BY DEF ParamsOf
<1>2. ParamsOf(tok) = CHOOSE i \in 1..Len(tok) : LastMark(tok, i)
  BY <1>1 DEF ParamsOf
<1> QED
  BY <1>1, <1>2, Zenon

LEMMA CursorStarts ==
  ASSUME IInv, NEW m \in {"GET", "POST"}, NEW tok \in Seq(Bytes),
         NEW eof \in BOOLEAN, NEW b \in Seq(Bytes),
         CallCallback(m, tok, eof, b), whole'
  PROVE  Cursor' /\ Pos' = 0
<1> USE Constants
<1> DEFINE n == Len(Cut(tok, UrlBufferSize - 1))
           p == ParamsOf(tok)
<1>1. /\ eof = FALSE /\ method' = m /\ body' = b /\ params' = p
      /\ start' = IF p = NoPtr THEN UrlBufferSize ELSE p
      /\ url' = Split(Stored(url, tok, FALSE), StoredLen(tok, FALSE))
      /\ urlLen' = StoredLen(tok, FALSE)
      /\ sent' = IF m # "GET" THEN b ELSE IF p = NoPtr THEN <<>>
                 ELSE SubSeq(tok, p + 1, n)
  <2>1. eof = FALSE
    BY DEF CallCallback
  <2> QED
    BY <2>1, Zenon DEF CallCallback
<1>2. CASE m = "GET"
  <2>1. n \in 0..UrlBufferSize - 1 /\ n <= Len(tok) /\ Len(tok) \in Nat /\ n \in UrlIndex
    BY StoredLenInBuffer DEF UrlIndex
  <2>2. urlLen' = n /\ url'[n] = NUL
    <3>1. /\ Stored(url, tok, FALSE)[n] = NUL /\ StoredLen(tok, FALSE) = n
      BY <2>1, StoredEnd
    <3>2. url'[n] = NUL
      BY <1>1, <2>1, <3>1, Zenon DEF Split
    <3> QED
      BY <1>1, <3>1, <3>2
  <2>3. CASE p = NoPtr
    <3>1. sent' = <<>> /\ params' = NoPtr /\ start' = UrlBufferSize /\ Len(sent') = 0
      BY <1>1, <1>2, <2>3
    <3>2. UrlCursor'
      BY <2>2, <3>1 DEF UrlCursor
    <3>3. sent' \in Seq(Bytes)
      BY <3>1
    <3> QED
      BY <1>1, <1>2, <3>1, <3>2, <3>3 DEF Cursor, Pos
  <2>4. CASE p # NoPtr
    <3>1. LastMark(tok, p) /\ p \in 1..n
      BY <2>4, MarkFound DEF LastMark
    <3>2. /\ sent' \in Seq(Bytes) /\ Len(sent') = n - p
          /\ \A i \in 1..n - p : sent'[i] = tok[p + i]
      <4>1. p + 1 \in Int /\ n \in Int /\ p + 1 <= n + 1 /\ p + 1 >= 1
            /\ n - (p + 1) + 1 = n - p
        BY <2>1, <3>1
      <4>2. \A i \in p + 1..n : tok[i] \in Bytes
        <5>1. \A i \in p + 1..n : i \in 1..Len(tok)
          BY <2>1, <3>1
        <5> QED
          BY <5>1, ElementOfSeq
      <4> DEFINE q == p + 1
      <4>3. /\ SubSeq(tok, q, n) \in Seq(Bytes)
            /\ Len(SubSeq(tok, q, n)) = IF q <= n THEN n - q + 1 ELSE 0
            /\ \A i \in 1..n - q + 1 : SubSeq(tok, q, n)[i] = tok[q + i - 1]
        <5> HIDE DEF q, n
        <5> QED
          BY <4>1, <4>2, SubSeqProperties DEF q
      <4>4. sent' = SubSeq(tok, q, n)
        BY <1>1, <1>2, <2>4
      <4>5. Len(sent') = n - p
        BY <2>1, <3>1, <4>3, <4>4
      <4>6. \A i \in 1..n - p : q + i - 1 = p + i
        BY <2>1, <3>1
      <4> HIDE DEF q, n, p
      <4> QED
        BY <4>1, <4>3, <4>4, <4>5, <4>6 DEF q
    <3>3. params' = p /\ params' # NoPtr /\ start' = p
      BY <1>1, <2>4
    <3>4. Place' = 0 /\ Len(sent') < urlLen' /\ Len(sent') >= 0
      <4>1. Place' = p - (n - Len(sent'))
        BY <1>1, <1>2, <2>2 DEF Place
      <4> HIDE DEF n, p
      <4> QED
        BY <2>1, <2>2, <3>1, <3>2, <4>1
    <3>5. ASSUME NEW i \in 1..Len(sent')
          PROVE  url'[urlLen' - Len(sent') + i - 1] = sent'[i]
      <4>1. /\ i \in 1..n - p /\ p + i \in p + 1..n
            /\ urlLen' - Len(sent') + i - 1 = p + i - 1
        <5> HIDE DEF n, p
        <5> QED
          BY <2>1, <2>2, <3>1, <3>2
      <4>2. url'[p + i - 1] = tok[p + i]
        <5>1. \A j \in p + 1..n : url'[j - 1] = tok[j]
          BY <1>1, <3>1, SentInUrl, Zenon
        <5> HIDE DEF n, p
        <5>2. PICK j \in p + 1..n : j = p + i /\ j - 1 = p + i - 1
          BY <2>1, <3>1, <4>1
        <5>3. url'[j - 1] = tok[j]
          BY <5>1
        <5> QED
          BY <5>2, <5>3
      <4> QED
        BY <3>2, <4>1, <4>2
    <3>6. UrlCursor'
      BY <2>2, <3>3, <3>4, <3>5 DEF UrlCursor
    <3> QED
      BY <1>1, <1>2, <3>2, <3>3, <3>4, <3>6 DEF Cursor, Pos
  <2> QED
    BY <2>3, <2>4
<1>3. CASE m # "GET"
  <2>1. sent' = b /\ method' # "GET" /\ Place' = 0
    BY <1>1, <1>3 DEF Place
  <2>2. Len(b) \in Nat /\ Kept' \in SUBSET (1..Len(b))
    BY <2>1 DEF Kept
  <2>3. \A i \in 1..Len(body') : body'[i] = sent'[Place' + i]
    BY <1>1, <2>1
  <2>4. Cursor'
    BY <2>1, <2>3 DEF Cursor, BodyCursor
  <2>5. 0 \in Int /\ 0 <= 0
    OBVIOUS
  <2>6. Cardinality(Below(Kept', 0)) = 0
    BY <2>2, <2>5, BelowAll
  <2>7. Pos' = Cardinality(Below(Kept', Place'))
    BY <2>1 DEF Pos, Below
  <2> QED
    BY <2>1, <2>4, <2>6, <2>7
<1> QED
  BY <1>2, <1>3

-----------------------------------------------------------------------------
(***************************************************************************)
(* The parser: how far attoHTTPParseURLParam is in a well-formed segment   *)
(* s of which n bytes have been read.                                      *)
(***************************************************************************)
InName(s, n) ==
  /\ AtWord(NameOf(s), n, name, nameLen, NameSize)
  /\ value = <<>> /\ valueLen = ValueSize
InValue(s, n) ==
  /\ name = Decode(NameOf(s)) /\ nameLen = 0
  /\ AtWord(ValueOf(s), n - Len(NameOf(s)) - 1, value, valueLen, ValueSize)
InSegment(s, n) == InName(s, n) \/ InValue(s, n)
Escape(s, n) ==
  \/ InName(s, n) /\ InEscape(NameOf(s), n)
  \/ InValue(s, n) /\ InEscape(ValueOf(s), n - Len(NameOf(s)) - 1)

Fresh ==
  /\ name = <<>> /\ value = <<>>
  /\ nameLen = NameSize /\ valueLen = ValueSize
Within(s, n) ==
  \/ pc = "param" /\ (InSegment(s, n) \/ (n = -1 /\ Fresh))
  \/ pc = "hex1" /\ Escape(s, n - 1)
  \/ pc = "hex2" /\ Escape(s, n - 2) /\ hex = s[n]

PairOf(s) == << Decode(NameOf(s)), Decode(ValueOf(s)) >>

(* A read inside of a segment goes on in it, or hands out its pair.        *)
GoesOn(s, n) == pc' # "callback" /\ out' = out /\ Within(s, n)'
HandsOut(s) == pc' = "callback" /\ out' = Append(out, PairOf(s))

LEMMA LocalsTyped ==
  ASSUME IInv
  PROVE  /\ name \in Seq(Letters) /\ value \in Seq(Letters)
         /\ nameLen \in Nat /\ valueLen \in Nat
         /\ NameSize \in Nat /\ NameSize >= 1
         /\ ValueSize \in Nat /\ ValueSize >= 1
BY Constants DEF IInv, TypeOK, Letters

LEMMA CountIsLength == ASSUME IInv, pc = "param" PROVE count = Len(name)
BY DEF IInv, RoomKept, Reading

LEMMA AtWordTyped ==
  ASSUME NEW w \in Seq(Bytes), NEW n, NEW t, NEW room, NEW size,
         AtWord(w, n, t, room, size)
  PROVE  n \in 0..Len(w) /\ n \in Int /\ Len(w) \in Nat
BY CharsTyped DEF AtWord

(* The call begins.                                                        *)
LEMMA FreshInName ==
  ASSUME NEW s \in Seq(Bytes), WellFormedSegment(s), Fresh
  PROVE  InName(s, 0)
BY SegmentShape, WordStart, Constants DEF InName, Fresh

LEMMA FreshInNameNext ==
  ASSUME NEW s \in Seq(Bytes), WellFormedSegment(s), Fresh'
  PROVE  InName(s, 0)'
BY SegmentShape, WordStart, Constants DEF InName, Fresh

(* Where the parser may be, in terms of the segment.                       *)
LEMMA NamePlace ==
  ASSUME NEW s \in Seq(Bytes), WellFormedSegment(s), NEW n, InName(s, n)
  PROVE  n \in 0..Len(NameOf(s)) /\ n \in Nat /\ n < Len(s) /\ Len(s) \in Nat
BY SegmentShape, AtWordTyped DEF InName

LEMMA ValuePlace ==
  ASSUME NEW s \in Seq(Bytes), WellFormedSegment(s), NEW n \in Int, InValue(s, n)
  PROVE  /\ n - Len(NameOf(s)) - 1 \in 0..Len(ValueOf(s))
         /\ n \in Nat /\ n > Len(NameOf(s)) /\ n <= Len(s) /\ Len(s) \in Nat
         /\ n < Len(s) <=> n - Len(NameOf(s)) - 1 < Len(ValueOf(s))
         /\ n = Len(s) <=> n - Len(NameOf(s)) - 1 = Len(ValueOf(s))
<1>1. /\ ValueOf(s) \in Seq(Bytes) /\ Len(s) \in Nat
      /\ Len(NameOf(s)) \in Nat /\ Len(NameOf(s)) < Len(s)
      /\ Len(ValueOf(s)) = Len(s) - Len(NameOf(s)) - 1
  BY SegmentShape
<1>2. n - Len(NameOf(s)) - 1 \in 0..Len(ValueOf(s))
  BY <1>1, AtWordTyped DEF InValue
<1> QED
  BY <1>1, <1>2

(* What has been stored fits, and another character does, too.             *)
LEMMA StoreInName ==
  ASSUME IInv, NEW s \in Seq(Bytes), WellFormedSegment(s), NEW n, InName(s, n),
         nameLen > 0, NEW b, Store(b), NEW m,
         AtWord(NameOf(s), m, Append(name, b), nameLen - 1, NameSize)
  PROVE  GoesOn(s, m)
<1>1. /\ name' = Append(name, b) /\ nameLen' = nameLen - 1
      /\ pc' = "param" /\ UNCHANGED <<value, valueLen, out>>
  BY DEF Store
<1>2. AtWord(NameOf(s), m, name', nameLen', NameSize)
  BY <1>1
<1>3. AtWord(NameOf(s), m, name, nameLen, NameSize)'
  BY <1>2 DEF AtWord, IsPart
<1>4. InName(s, m)'
  BY <1>1, <1>3 DEF InName
<1> QED
  BY <1>1, <1>4 DEF GoesOn, Within, InSegment

LEMMA StoreInValue ==
  ASSUME IInv, NEW s \in Seq(Bytes), WellFormedSegment(s), NEW n, InValue(s, n),
         NEW b \in Letters, Store(b), NEW m \in Int,
         AtWord(ValueOf(s), m - Len(NameOf(s)) - 1, Append(value, b),
                valueLen - 1, ValueSize)
  PROVE  GoesOn(s, m) \/ (m = Len(s) /\ HandsOut(s))
<1>1. /\ valueLen' = valueLen - 1 /\ nameLen' = nameLen
      /\ valueLen - 1 > 0 =>
           /\ pc' = "param" /\ out' = out
           /\ value' = Append(value, b) /\ name' = name
      /\ ~(valueLen - 1 > 0) =>
           pc' = "callback" /\ out' = Append(out, <<name, Append(value, b)>>)
  <2>1. ~(nameLen > 0) /\ nameLen = 0
    BY DEF InValue
  <2> QED
    BY <2>1 DEF Store, Return, RoomLeft
<1>4. CASE valueLen - 1 > 0
  <2>1. AtWord(ValueOf(s), m - Len(NameOf(s)) - 1, value', valueLen', ValueSize)
    BY <1>1, <1>4
  <2>2. InValue(s, m)'
    BY <1>1, <1>4, <2>1 DEF InValue, AtWord, IsPart
  <2> QED
    BY <1>1, <1>4, <2>2 DEF GoesOn, Within, InSegment
<1>5. CASE ~(valueLen - 1 > 0)
  <2> DEFINE w == ValueOf(s)
             k == m - Len(NameOf(s)) - 1
  <2>1. w \in Seq(Bytes) /\ Len(Decode(w)) <= ValueSize
        /\ Append(value, b) \in Seq(Letters) /\ ValueSize \in Nat
    <3>1. Append(value, b) \in Seq(Letters)
      <4>1. value \in Seq(Letters)
        BY LocalsTyped
      <4> HIDE DEF Letters
      <4> QED
        BY <4>1
    <3> QED
      BY <3>1, SegmentShape, LocalsTyped DEF WellFormedSegment
  <2>2. AtWord(w, k, Append(value, b), valueLen - 1, ValueSize)
    OBVIOUS
  <2>3. k \in 0..Len(w) /\ Len(w) \in Nat
    BY <2>1, <2>2, AtWordTyped
  <2> HIDE DEF w, k
  <2>4. ~(k < Len(w))
    <3>1. ASSUME k < Len(w) PROVE valueLen - 1 > 0
      BY <2>1, <2>2, <3>1, WordRoom, Zenon
    <3> QED
      BY <1>5, <3>1
  <2>5. k = Len(w)
    BY <2>1, <2>3, <2>4
  <2>6. Append(value, b) = Decode(w)
    <3>1. AtWord(w, Len(w), Append(value, b), valueLen - 1, ValueSize)
      BY <2>2, <2>5
    <3> QED
      BY <2>1, <3>1, WordEnd
  <2>7. m = Len(s)
    BY <2>5, SegmentShape DEF w, k
  <2>8. pc' = "callback" /\ out' = Append(out, <<name, Append(value, b)>>)
    BY <1>1, <1>5
  <2>9. <<name, Append(value, b)>> = PairOf(s)
    BY <2>6 DEF PairOf, w, InValue
  <2> QED
    BY <2>7, <2>8, <2>9 DEF HandsOut
<1> QED
  BY <1>4, <1>5

(* One character of the segment.                                           *)
LEMMA IterationWithin ==
  ASSUME IInv, pc = "param", NEW s \in Seq(Bytes), WellFormedSegment(s),
         \A i \in 1..Len(s) : s[i] # "&",
         NEW n \in Int, InSegment(s, n), n < Len(s),
         Iteration(1, s[n + 1])
  PROVE  GoesOn(s, n + 1) \/ (n + 1 = Len(s) /\ HandsOut(s))
<1> DEFINE c == s[n + 1]
<1>1. n \in Nat /\ n + 1 \in 1..Len(s)
  BY NamePlace, ValuePlace DEF InSegment
<1>2. c \in Bytes /\ c # "&" /\ c \notin Space /\ ~EndOfInput(1, c)
  BY <1>1, UrlParamsAssumption DEF WellFormedSegment, EndOfInput
<1>3. c \in Letters
  BY <1>2 DEF Letters
<1> HIDE DEF c
<1>4. \/ c = "=" /\ nameLen' = 0 /\ UNCHANGED <<pc, name, value, valueLen, out>>
      \/ c = "%" /\ pc' = "hex1" /\ UNCHANGED <<locals, out>>
      \/ c \notin {"=", "%"} /\ Store(c)
  BY <1>2 DEF Iteration, c
<1>5. CASE InName(s, n)
  <2> DEFINE w == NameOf(s)
  <2>1. /\ w \in Seq(Bytes) /\ AtWord(w, n, name, nameLen, NameSize)
        /\ Escaped(w) /\ Len(Decode(w)) <= NameSize /\ Len(w) \in Nat
        /\ n \in 0..Len(w)
        /\ value = <<>> /\ valueLen = ValueSize
        /\ name \in Seq(Letters) /\ NameSize \in Nat
    <3>1. w \in Seq(Bytes) /\ Len(w) \in Nat
      BY SegmentShape
    <3>2. n \in 0..Len(w)
      BY <1>5, NamePlace
    <3>3. AtWord(w, n, name, nameLen, NameSize) /\ value = <<>> /\ valueLen = ValueSize
      BY <1>5 DEF InName
    <3>4. name \in Seq(Letters) /\ NameSize \in Nat
      BY LocalsTyped
    <3>5. Escaped(w) /\ Len(Decode(w)) <= NameSize
      BY <3>4 DEF WellFormedSegment
    <3> QED
      BY <3>1, <3>2, <3>3, <3>4, <3>5
  <2>2. CASE n = Len(w)
    <3>1. c = "="
      BY <2>2, SegmentShape DEF c
    <3>2. nameLen' = 0 /\ UNCHANGED <<pc, name, value, valueLen, out>>
      BY <1>4, <3>1
    <3>3. name = Decode(w)
      BY <2>1, <2>2, WordEnd
    <3>4. AtWord(ValueOf(s), 0, <<>>, ValueSize, ValueSize)
      BY SegmentShape, WordStart, Constants
    <3>5. n + 1 - Len(w) - 1 = 0
      BY <2>1, <2>2
    <3>6. AtWord(ValueOf(s), n + 1 - Len(w) - 1, value', valueLen', ValueSize)
      BY <2>1, <3>2, <3>4, <3>5
    <3>7. InValue(s, n + 1)'
      BY <3>2, <3>3, <3>6 DEF InValue, AtWord, IsPart
    <3> QED
      BY <3>2, <3>7 DEF GoesOn, Within, InSegment
  <2>3. CASE n # Len(w)
    <3>1. n < Len(w) /\ n + 1 \in 1..Len(w)
      BY <2>1, <2>3
    <3>2. c = w[n + 1] /\ c # "="
      BY <3>1, SegmentShape DEF c
    <3>3. CASE c = "%"
      <4>1. pc' = "hex1" /\ UNCHANGED <<locals, out>>
        BY <1>4, <3>3
      <4>2. InEscape(w, n)
        <5>1. n + 1 + 2 <= Len(w)
          BY <2>1, <3>1, <3>2, <3>3 DEF Escaped
        <5> QED
          BY <1>1, <2>1, <3>2, <3>3, <5>1 DEF InEscape
      <4>3. InName(s, n)'
        BY <1>5, <4>1 DEF InName, AtWord, IsPart, locals
      <4>4. Escape(s, n)' /\ n + 1 - 1 = n
        BY <1>1, <4>2, <4>3 DEF Escape, InEscape
      <4>5. Escape(s, n + 1 - 1)'
        BY <4>4
      <4> QED
        BY <4>1, <4>5 DEF GoesOn, Within
    <3>4. CASE c # "%"
      <4>1. Store(c)
        BY <1>4, <3>2, <3>4
      <4>2. nameLen > 0
        BY <2>1, <3>1, WordRoom
      <4>3. AtWord(w, n + 1, Append(name, c), nameLen - 1, NameSize)
        BY <2>1, <3>1, <3>2, <3>4, WordChar
      <4> QED
        BY <1>5, <4>1, <4>2, <4>3, StoreInName
    <3> QED
      BY <3>3, <3>4
  <2> QED
    BY <2>2, <2>3
<1>6. CASE InValue(s, n)
  <2> DEFINE w == ValueOf(s)
             k == n - Len(NameOf(s)) - 1
  <2>1. /\ w \in Seq(Bytes) /\ AtWord(w, k, value, valueLen, ValueSize)
        /\ Escaped(w) /\ Len(Decode(w)) <= ValueSize /\ Len(w) \in Nat
        /\ name = Decode(NameOf(s)) /\ nameLen = 0
        /\ value \in Seq(Letters) /\ ValueSize \in Nat
    BY <1>6, SegmentShape, LocalsTyped DEF InValue, WellFormedSegment
  <2>2. /\ k \in 0..Len(w) /\ k < Len(w) /\ k + 1 \in 1..Len(w)
        /\ Len(NameOf(s)) + 1 + (k + 1) = n + 1
        /\ n + 1 - Len(NameOf(s)) - 1 = k + 1
    BY <1>1, <1>6, ValuePlace, SegmentShape
  <2>3. c = w[k + 1] /\ c # "="
    <3> DEFINE l == k + 1
    <3>1. w[l] = s[Len(NameOf(s)) + 1 + l] /\ w[l] # "="
      BY <2>2, SegmentShape
    <3> QED
      BY <2>2, <3>1 DEF c
  <2> HIDE DEF k
  <2>4. CASE c = "%"
    <3>1. pc' = "hex1" /\ UNCHANGED <<locals, out>>
      BY <1>4, <2>4
    <3>2. InEscape(w, k)
      <4>1. k + 1 + 2 <= Len(w)
        BY <2>1, <2>2, <2>3, <2>4 DEF Escaped
      <4> QED
        BY <2>1, <2>2, <2>3, <2>4, <4>1 DEF InEscape
    <3>3. InValue(s, n)'
      BY <1>6, <3>1 DEF InValue, AtWord, IsPart, locals
    <3>4. Escape(s, n)' /\ n + 1 - 1 = n
      BY <1>1, <3>2, <3>3 DEF Escape, InEscape, k
    <3>5. Escape(s, n + 1 - 1)'
      BY <3>4
    <3> QED
      BY <3>1, <3>5 DEF GoesOn, Within
  <2>5. CASE c # "%"
    <3>1. Store(c)
      BY <1>4, <2>3, <2>5
    <3>2. AtWord(w, k + 1, Append(value, c), valueLen - 1, ValueSize)
      BY <2>1, <2>2, <2>3, <2>5, WordChar
    <3>3. AtWord(w, n + 1 - Len(NameOf(s)) - 1, Append(value, c), valueLen - 1, ValueSize)
      BY <2>2, <3>2
    <3>4. n + 1 \in Int
      OBVIOUS
    <3> QED
      BY <1>3, <1>6, <3>1, <3>3, <3>4, StoreInValue
  <2> QED
    BY <2>4, <2>5
<1> QED
  BY <1>5, <1>6 DEF InSegment

(* The two characters of an escape.                                        *)
LEMMA Hex1Within ==
  ASSUME IInv, NEW s \in Seq(Bytes), WellFormedSegment(s), NEW n \in Int,
         Escape(s, n - 1), n < Len(s),
         hex' = s[n + 1], pc' = "hex2", UNCHANGED <<locals, out>>
  PROVE  GoesOn(s, n + 1)
<1> DEFINE k == n - 1
<1>1. k = n + 1 - 2
  OBVIOUS
<1>2. Escape(s, k)'
  BY DEF Escape, InName, InValue, AtWord, IsPart, InEscape, locals
<1> HIDE DEF k
<1>3. Escape(s, n + 1 - 2)'
  BY <1>1, <1>2
<1> QED
  BY <1>3 DEF GoesOn, Within

LEMMA EscapePlace ==
  ASSUME NEW s \in Seq(Bytes), WellFormedSegment(s), NEW n \in Int, Escape(s, n)
  PROVE  n \in Nat /\ n + 3 <= Len(s) /\ Len(s) \in Nat /\ s[n + 1] = "%"
<1> USE SegmentShape
<1>1. CASE InName(s, n) /\ InEscape(NameOf(s), n)
  <2>1. n \in Nat /\ n + 3 <= Len(NameOf(s)) /\ n + 1 \in 1..Len(NameOf(s))
    BY <1>1, NamePlace DEF InEscape
  <2> QED
    BY <1>1, <2>1 DEF InEscape
<1>2. CASE InValue(s, n) /\ InEscape(ValueOf(s), n - Len(NameOf(s)) - 1)
  <2> DEFINE k == n - Len(NameOf(s)) - 1
  <2>1. k \in Nat /\ k + 3 <= Len(ValueOf(s)) /\ ValueOf(s)[k + 1] = "%" /\ n \in Nat
    BY <1>2, ValuePlace DEF InEscape
  <2>2. n = Len(NameOf(s)) + 1 + k /\ k + 1 \in 1..Len(ValueOf(s))
        /\ Len(NameOf(s)) + 1 + (k + 1) = n + 1
    BY <2>1
  <2> HIDE DEF k
  <2>3. s[n + 1] = "%"
    <3>1. ValueOf(s)[k + 1] = s[Len(NameOf(s)) + 1 + (k + 1)]
      BY <2>2
    <3> QED
      BY <2>1, <2>2, <3>1
  <2> QED
    BY <2>1, <2>2, <2>3
<1> QED
  BY <1>1, <1>2 DEF Escape

LEMMA Hex2Within ==
  ASSUME IInv, NEW s \in Seq(Bytes), WellFormedSegment(s), NEW n \in Int,
         Escape(s, n - 2), hex = s[n], n < Len(s),
         Store(Decoded[<<hex, s[n + 1]>>])
  PROVE  GoesOn(s, n + 1) \/ (n + 1 = Len(s) /\ HandsOut(s))
<1> DEFINE m == n - 2
           b == Decoded[<<hex, s[n + 1]>>]
<1>1. m \in Int /\ m + 2 = n /\ m + 3 = n + 1 /\ m + 1 \in Int
  OBVIOUS
<1>2. hex = s[m + 2] /\ s[n + 1] = s[m + 3]
  BY <1>1
<1>3. Escape(s, m) /\ Store(b)
  OBVIOUS
<1>4. b = Decoded[<<s[m + 2], s[m + 3]>>]
  BY <1>2
<1> HIDE DEF m, b
<1>5. CASE InName(s, m) /\ InEscape(NameOf(s), m)
  <2> DEFINE w == NameOf(s)
  <2>1. /\ w \in Seq(Bytes) /\ AtWord(w, m, name, nameLen, NameSize)
        /\ Escaped(w) /\ Len(Decode(w)) <= NameSize /\ Len(w) \in Nat
        /\ name \in Seq(Letters) /\ NameSize \in Nat
    BY <1>5, SegmentShape, LocalsTyped DEF InName, WellFormedSegment
  <2>2. m + 3 <= Len(w) /\ m + 2 \in 1..Len(w) /\ m + 3 \in 1..Len(w) /\ m < Len(w)
    BY <1>1, <1>5, <2>1, NamePlace DEF InEscape
  <2>3. b = Decoded[<<w[m + 2], w[m + 3]>>]
    <3>1. w[m + 2] = s[m + 2] /\ w[m + 3] = s[m + 3]
      BY <2>2, SegmentShape
    <3> QED
      BY <1>4, <3>1
  <2>4. nameLen > 0
    BY <2>1, <2>2, WordRoom
  <2>5. AtWord(w, m + 3, Append(name, b), nameLen - 1, NameSize)
    BY <1>5, <2>1, <2>3, WordEscape
  <2>6. GoesOn(s, m + 3)
    BY <1>3, <1>5, <2>4, <2>5, StoreInName
  <2> QED
    BY <1>1, <2>6
<1>6. CASE InValue(s, m) /\ InEscape(ValueOf(s), m - Len(NameOf(s)) - 1)
  <2> DEFINE w == ValueOf(s)
             k == m - Len(NameOf(s)) - 1
             l == Len(NameOf(s)) + 1
  <2>1. /\ w \in Seq(Bytes) /\ AtWord(w, k, value, valueLen, ValueSize)
        /\ Escaped(w) /\ Len(w) \in Nat /\ InEscape(w, k)
        /\ value \in Seq(Letters) /\ ValueSize \in Nat /\ Len(NameOf(s)) \in Nat
    <3>1. w \in Seq(Bytes) /\ Len(w) \in Nat /\ Len(NameOf(s)) \in Nat
      BY SegmentShape
    <3>2. AtWord(w, k, value, valueLen, ValueSize) /\ InEscape(w, k)
      BY <1>6 DEF InValue
    <3>3. Escaped(w) /\ value \in Seq(Letters) /\ ValueSize \in Nat
      BY LocalsTyped DEF WellFormedSegment
    <3> QED
      BY <3>1, <3>2, <3>3
  <2>2. /\ k + 2 \in 1..Len(w) /\ k + 3 \in 1..Len(w)
        /\ l + (k + 2) = m + 2 /\ l + (k + 3) = m + 3
        /\ m + 3 - Len(NameOf(s)) - 1 = k + 3
    <3>1. k \in 0..Len(w)
      BY <2>1, AtWordTyped
    <3>2. k + 3 <= Len(w)
      BY <2>1 DEF InEscape
    <3>3. Len(w) \in Nat /\ Len(NameOf(s)) \in Nat
      BY <2>1
    <3> HIDE DEF w
    <3> QED
      BY <1>1, <3>1, <3>2, <3>3
  <2>3. b = Decoded[<<w[k + 2], w[k + 3]>>]
    <3>1. \A i \in 1..Len(w) : w[i] = s[l + i]
      BY SegmentShape
    <3>2. w[k + 2] = s[l + (k + 2)] /\ w[k + 3] = s[l + (k + 3)]
      BY <2>2, <3>1
    <3> QED
      BY <1>4, <2>2, <3>2
  <2> HIDE DEF k
  <2>4. b \in Letters /\ AtWord(w, k + 3, Append(value, b), valueLen - 1, ValueSize)
    BY <2>1, <2>3, WordEscape
  <2>5. AtWord(w, m + 3 - Len(NameOf(s)) - 1, Append(value, b), valueLen - 1, ValueSize)
    BY <2>2, <2>4
  <2>6. m + 3 \in Int
    BY <1>1
  <2>7. GoesOn(s, m + 3) \/ (m + 3 = Len(s) /\ HandsOut(s))
    BY <1>1, <1>3, <1>6, <2>1, <2>4, <2>5, <2>6, StoreInValue
  <2> QED
    BY <1>1, <2>7
<1> QED
  BY <1>3, <1>5, <1>6 DEF Escape

(* At the end of the segment both words are complete.                      *)
LEMMA SegmentEnd ==
  ASSUME IInv, pc = "param", NEW s \in Seq(Bytes), WellFormedSegment(s),
         InSegment(s, Len(s))
  PROVE  <<name, value>> = PairOf(s) /\ nameLen = 0 /\ count > 0
<1>1. Len(s) \in Int
  OBVIOUS
<1>2. InValue(s, Len(s))
  BY <1>1, NamePlace DEF InSegment
<1>3. value = Decode(ValueOf(s))
  <2>1. AtWord(ValueOf(s), Len(ValueOf(s)), value, valueLen, ValueSize)
    BY <1>1, <1>2, ValuePlace DEF InValue
  <2> QED
    BY <2>1, LocalsTyped, SegmentShape, WordEnd
<1>4. name = Decode(NameOf(s)) /\ nameLen = 0
  BY <1>2 DEF InValue
<1>5. count > 0
  BY <1>4, LocalsTyped, CountIsLength DEF WellFormedSegment
<1> QED
  BY <1>3, <1>4, <1>5 DEF PairOf

-----------------------------------------------------------------------------
(* The pairs that were handed out.                                         *)
LEMMA SegmentsTyped == ASSUME Query \in Seq(Bytes) PROVE Segments \in Nat
<1>1. Cardinality(Amps) \in Nat
  BY BorderRank
<1> QED
  BY <1>1 DEF Segments

LEMMA NextPair ==
  ASSUME Query \in Seq(Bytes), NEW k \in Nat, k >= 1
  PROVE  Pairs(k) = IF k > Segments THEN Pairs(k - 1)
                    ELSE Append(Pairs(k - 1), PairOf(Segment(k)))
<1> DEFINE F(i) == << Decode(NameOf(Segment(i))), Decode(ValueOf(Segment(i))) >>
<1>1. Segments \in Nat
  BY SegmentsTyped
<1>2. CASE k > Segments
  <2>1. (IF k < Segments THEN k ELSE Segments) =
        (IF k - 1 < Segments THEN k - 1 ELSE Segments)
    BY <1>1, <1>2
  <2> QED
    BY <1>2, <2>1 DEF Pairs
<1>3. CASE k <= Segments
  <2>1. (IF k < Segments THEN k ELSE Segments) = k
        /\ (IF k - 1 < Segments THEN k - 1 ELSE Segments) = k - 1
        /\ k - 1 \in Nat
    BY <1>1, <1>3
  <2>2. Pairs(k) = [i \in 1..k |-> F(i)] /\ Pairs(k - 1) = [i \in 1..k - 1 |-> F(i)]
    BY <2>1 DEF Pairs
  <2>3. PairOf(Segment(k)) = F(k)
    BY DEF PairOf
  <2> HIDE DEF F
  <2>4. Append([i \in 1..k - 1 |-> F(i)], F(k)) = [i \in 1..k |-> F(i)]
    <3> DEFINE n == k - 1
    <3>1. n \in Nat /\ n + 1 = k
      BY <2>1
    <3> HIDE DEF n
    <3>2. Append([i \in 1..n |-> F(i)], F(n + 1)) = [i \in 1..n + 1 |-> F(i)]
      BY <3>1
    <3> QED
      BY <3>1, <3>2 DEF n
  <2>5. ~(k > Segments)
    BY <1>1, <1>3
  <2> QED
    BY <2>2, <2>3, <2>4, <2>5
<1> QED
  BY <1>1, <1>2, <1>3

-----------------------------------------------------------------------------
(***************************************************************************)
(* The inductive invariant.  Between two calls the cursor stands in front  *)
(* of the separator behind the last parameter handed out, or behind it: a  *)
(* value that fills its buffer ends its call early.  Within a call it and  *)
(* the parser are at the same byte of the segment of that call.            *)
(***************************************************************************)
BetweenCalls ==
  /\ out = Pairs(calls)
  /\ IF calls > Segments THEN Pos = Len(Query)
     ELSE Pos \in {Border(calls) - 1, Border(calls)}
InCall ==
  /\ calls >= 1 /\ out = Pairs(calls - 1)
  /\ IF calls > Segments THEN pc = "param" /\ Pos = Len(Query) /\ Fresh
     ELSE \E s \in Seq(Bytes), n \in Int :
            s = Segment(calls) /\ Pos = Border(calls - 1) + n /\ Within(s, n)
ParamInv ==
  pc # "idle" /\ WellFormed /\ ~PastEnd =>
    Cursor /\ IF pc = "callback" THEN BetweenCalls ELSE InCall

LEMMA SegmentAt ==
  ASSUME Query \in Seq(Bytes), WellFormed, NEW k \in Nat, k >= 1, k <= Segments
  PROVE  LET s == Segment(k)
         IN /\ s \in Seq(Bytes) /\ Len(s) \in Nat /\ WellFormedSegment(s)
            /\ Border(k - 1) \in Nat /\ Border(k) = Border(k - 1) + Len(s) + 1
            /\ Border(k - 1) + Len(s) <= Len(Query)
            /\ \A i \in 1..Len(s) : s[i] = Query[Border(k - 1) + i] /\ s[i] # "&"
            /\ k < Segments => Border(k) <= Len(Query) /\ Query[Border(k)] = "&"
            /\ k = Segments => Border(k) = Len(Query) + 1
<1> DEFINE s == Segment(k)
           a == Border(k - 1)
<1>1. /\ a \in Nat /\ Len(Query) \in Nat /\ Border(k) \in 1..Len(Query) + 1 /\ a < Border(k)
      /\ k < Segments => Border(k) <= Len(Query) /\ Query[Border(k)] = "&"
      /\ k = Segments => Border(k) = Len(Query) + 1
      /\ \A i \in a + 1..Border(k) - 1 : Query[i] # "&"
  BY Borders
<1>2. /\ s \in Seq(Bytes) /\ Len(s) = Border(k) - 1 - a
      /\ \A i \in 1..Len(s) : s[i] = Query[a + i]
  BY SegmentBytes
<1>3. WellFormedSegment(s)
  <2>1. k \in 1..Segments
    BY SegmentsTyped
  <2> QED
    BY <2>1 DEF WellFormed
<1> HIDE DEF s, a
<1>4. Len(s) \in Nat /\ Border(k) = a + Len(s) + 1 /\ a + Len(s) <= Len(Query)
  BY <1>1, <1>2
<1>5. ASSUME NEW i \in 1..Len(s) PROVE s[i] = Query[a + i] /\ s[i] # "&"
  <2>1. a + i \in a + 1..Border(k) - 1
    BY <1>1, <1>4
  <2> QED
    BY <1>1, <1>2, <2>1
<1>6. /\ s \in Seq(Bytes) /\ Len(s) \in Nat /\ WellFormedSegment(s)
      /\ a \in Nat /\ Border(k) = a + Len(s) + 1
      /\ a + Len(s) <= Len(Query)
      /\ \A i \in 1..Len(s) : s[i] = Query[a + i] /\ s[i] # "&"
      /\ k < Segments => Border(k) <= Len(Query) /\ Query[Border(k)] = "&"
      /\ k = Segments => Border(k) = Len(Query) + 1
  BY <1>1, <1>2, <1>3, <1>4, <1>5
<1> QED
  BY <1>6 DEF s, a

LEMMA AfterStep ==
  ASSUME UNCHANGED <<method, sent>>, NEW k \in Nat, calls' = k
  PROVE  /\ Query' = Query /\ Segments' = Segments
         /\ Pairs(calls)' = Pairs(k) /\ Pairs(calls - 1)' = Pairs(k - 1)
         /\ Segment(calls)' = Segment(k)
         /\ Border(calls)' = Border(k) /\ Border(calls - 1)' = Border(k - 1)
<1>1. Query' = Query /\ Segments' = Segments
  BY SameQuery
<1>2. Segment(calls)' = Segment(k)
  BY <1>1 DEF Segment, Border, Amps, Nth
<1>3. Border(calls)' = Border(k) /\ Border(calls - 1)' = Border(k - 1)
  BY <1>1 DEF Border, Amps, Nth
<1>4. \A i : Segment(i)' = Segment(i)
  BY SameQuery
<1>5. Pairs(calls)' = Pairs(k) /\ Pairs(calls - 1)' = Pairs(k - 1)
  BY <1>1, <1>4 DEF Pairs
<1> QED
  BY <1>1, <1>2, <1>3, <1>5

(* A request begins before its first parameter.                            *)
LEMMA RequestInv ==
  ASSUME IInv, NEW m \in {"GET", "POST"}, NEW tok \in Seq(Bytes),
         NEW eof \in BOOLEAN, NEW b \in Seq(Bytes),
         CallCallback(m, tok, eof, b)
  PROVE  ParamInv'
<1> SUFFICES ASSUME WellFormed'
             PROVE  Cursor' /\ IF pc' = "callback" THEN BetweenCalls' ELSE InCall'
  BY DEF ParamInv
<1>1. whole'
  BY DEF WellFormed
<1>2. Cursor' /\ Pos' = 0
  BY <1>1, CursorStarts
<1>3. pc' = "callback" /\ calls' = 0 /\ out' = <<>>
  BY DEF CallCallback
<1>4. (sent \in Seq(Bytes))'
  BY <1>2 DEF Cursor
<1>5. (Query \in Seq(Bytes))'
  BY <1>4, QueryTyped, PTL
<1>6. (Segments \in Nat)'
  BY <1>5, SegmentsTyped, PTL
<1>7. Pairs(calls)' = <<>>
  <2>1. (IF calls' < Segments' THEN calls' ELSE Segments') = 0
    BY <1>3, <1>6
  <2> QED
    BY <1>3, <2>1 DEF Pairs
<1>8. Border(calls)' = 0
  BY <1>3 DEF Border
<1>9. ~(calls' > Segments')
  BY <1>3, <1>6
<1>10. BetweenCalls'
  BY <1>2, <1>3, <1>7, <1>8, <1>9 DEF BetweenCalls
<1> QED
  BY <1>2, <1>3, <1>10

(* A call begins at the separator in front of its segment or behind it.    *)
LEMMA ParseParamInv == ASSUME IInv, ParamInv, ParseParam PROVE ParamInv'
<1>1. /\ pc = "callback" /\ pc' = "param" /\ Fresh' /\ calls' = calls + 1 /\ calls \in Nat
      /\ UNCHANGED <<method, url, urlLen, params, start, body, sent, whole, out>>
  BY DEF ParseParam, Fresh, IInv, TypeOK
<1> SUFFICES ASSUME WellFormed', ~PastEnd' PROVE Cursor' /\ InCall'
  BY <1>1 DEF ParamInv
<1>2. WellFormed /\ ~PastEnd
  BY <1>1, SameQuery DEF WellFormed, PastEnd
<1>3. Cursor /\ BetweenCalls
  BY <1>1, <1>2 DEF ParamInv
<1>4. Cursor' /\ Pos' = Pos
  BY <1>1, <1>3 DEF Cursor, UrlCursor, BodyCursor, Pos, Place, Below, Kept
<1>5. Query \in Seq(Bytes) /\ Len(Query) \in Nat /\ Pos \in 0..Len(Query) /\ Segments \in Nat
  BY <1>3, PosTyped, SegmentsTyped
<1>6. PICK k \in Nat : k = calls + 1 /\ k >= 1 /\ k - 1 = calls
  BY <1>1
<1>7. /\ Query' = Query /\ Segments' = Segments /\ Pairs(calls - 1)' = Pairs(k - 1)
      /\ Segment(calls)' = Segment(k) /\ Border(calls - 1)' = Border(k - 1)
  BY <1>1, <1>6, AfterStep
<1>8. calls' = k /\ calls' >= 1 /\ out' = Pairs(calls - 1)'
  BY <1>1, <1>3, <1>6, <1>7 DEF BetweenCalls
<1>9. CASE k > Segments
  <2>1. ASSUME calls = Segments, Segments = 0 PROVE Pos = Len(Query)
    <3>1. Query = <<>>
      BY <1>5, <2>1, BorderRank DEF Segments
    <3> QED
      BY <1>5, <3>1
  <2>2. ASSUME calls = Segments, Segments # 0 PROVE Pos = Len(Query)
    <3>1. Border(calls) = Len(Query) + 1
      BY <1>1, <1>2, <1>5, <2>2, SegmentAt
    <3> QED
      BY <1>3, <1>5, <2>2, <3>1 DEF BetweenCalls
  <2>3. calls > Segments => Pos = Len(Query)
    BY <1>3 DEF BetweenCalls
  <2>4. Pos = Len(Query)
    BY <1>1, <1>5, <1>6, <1>9, <2>1, <2>2, <2>3
  <2>5. InCall'
    BY <1>1, <1>4, <1>7, <1>8, <1>9, <2>4 DEF InCall
  <2> QED
    BY <1>4, <2>5
<1>10. CASE ~(k > Segments)
  <2>1. k <= Segments /\ ~(calls > Segments)
    BY <1>1, <1>5, <1>6, <1>10
  <2>2. Pos \in {Border(k - 1) - 1, Border(k - 1)}
    BY <1>3, <1>6, <2>1 DEF BetweenCalls
  <2>3. PICK s \in Seq(Bytes) : s = Segment(k) /\ WellFormedSegment(s)
    BY <1>2, <1>5, <1>6, <2>1, SegmentAt
  <2>4. Border(k - 1) \in Nat
    BY <1>2, <1>5, <1>6, <2>1, SegmentAt
  <2>5. PICK n \in {-1, 0} : Pos = Border(k - 1) + n
    BY <2>2, <2>4
  <2>6. Within(s, n)'
    <3>1. CASE n = -1
      BY <1>1, <3>1 DEF Within
    <3>2. CASE n = 0
      <4>1. InName(s, 0)'
        BY <1>1, <2>3, FreshInNameNext
      <4> QED
        BY <1>1, <3>2, <4>1 DEF Within, InSegment
    <3> QED
      BY <3>1, <3>2
  <2>7. s = Segment(calls)' /\ Pos' = Border(calls - 1)' + n /\ n \in Int
    BY <1>4, <1>7, <2>3, <2>5
  <2>8. InCall'
    BY <1>7, <1>8, <1>10, <2>6, <2>7 DEF InCall
  <2> QED
    BY <1>4, <2>8
<1> QED
  BY <1>9, <1>10

(* A read within a segment keeps the cursor and the parser together.       *)
LEMMA ReadsOn ==
  ASSUME UNCHANGED <<method, sent, calls>>, NEW k \in Nat, k = calls, k >= 1,
         Query \in Seq(Bytes), WellFormed, k <= Segments, out = Pairs(k - 1),
         NEW s \in Seq(Bytes), s = Segment(k), NEW n \in Int,
         Pos' = Border(k - 1) + n,
         GoesOn(s, n) \/ (n = Len(s) /\ HandsOut(s))
  PROVE  IF pc' = "callback" THEN BetweenCalls' ELSE InCall'
<1>1. calls' = k /\ Segments \in Nat /\ k - 1 \in Int
  BY SegmentsTyped
<1>2. /\ Query' = Query /\ Segments' = Segments
      /\ Pairs(calls)' = Pairs(k) /\ Pairs(calls - 1)' = Pairs(k - 1)
      /\ Segment(calls)' = Segment(k)
      /\ Border(calls)' = Border(k) /\ Border(calls - 1)' = Border(k - 1)
  BY <1>1, AfterStep
<1>3. ~(k > Segments) /\ ~(calls' > Segments')
  BY <1>1, <1>2
<1>4. CASE GoesOn(s, n)
  <2>1. pc' # "callback" /\ out' = out /\ Within(s, n)'
    BY <1>4 DEF GoesOn
  <2>2. \E t \in Seq(Bytes), l \in Int :
          t = Segment(calls)' /\ Pos' = Border(calls - 1)' + l /\ Within(t, l)'
    BY <1>2, <2>1
  <2>3. InCall'
    BY <1>1, <1>2, <1>3, <2>1, <2>2 DEF InCall
  <2> QED
    BY <2>1, <2>3
<1>5. CASE n = Len(s) /\ HandsOut(s)
  <2>1. pc' = "callback" /\ out' = Pairs(k)
    BY <1>3, <1>5, NextPair DEF HandsOut
  <2>2. Border(k) = Border(k - 1) + n + 1 /\ Border(k - 1) \in Int
    BY <1>5, SegmentAt
  <2>3. Pos' = Border(k) - 1
    BY <2>2
  <2>4. BetweenCalls'
    BY <1>1, <1>2, <1>3, <2>1, <2>3 DEF BetweenCalls
  <2> QED
    BY <2>1, <2>4
<1> QED
  BY <1>4, <1>5

(* What is done with a character that was read.                            *)
Handles(ret, c) ==
  \/ pc = "param" /\ Iteration(ret, c)
  \/ pc = "hex1" /\ hex' = c /\ pc' = "hex2" /\ UNCHANGED <<locals, out>>
  \/ pc = "hex2" /\ Store(Decoded[<<hex, c>>])

LEMMA HandlesWithin ==
  ASSUME IInv, NEW s \in Seq(Bytes), WellFormedSegment(s),
         \A i \in 1..Len(s) : s[i] # "&",
         NEW n \in Int, Within(s, n), n # -1, n < Len(s),
         Handles(1, s[n + 1])
  PROVE  GoesOn(s, n + 1) \/ (n + 1 = Len(s) /\ HandsOut(s))
<1>1. CASE pc = "param"
  BY <1>1, IterationWithin DEF Within, Handles
<1>2. CASE pc = "hex1"
  BY <1>2, Hex1Within DEF Within, Handles
<1>3. CASE pc = "hex2"
  BY <1>3, Hex2Within DEF Within, Handles
<1> QED
  BY <1>1, <1>2, <1>3 DEF Handles

LEMMA WithinPlace ==
  ASSUME NEW s \in Seq(Bytes), WellFormedSegment(s), NEW n \in Int, Within(s, n)
  PROVE  \/ pc = "param" /\ n = -1 /\ Fresh
         \/ pc = "param" /\ n = Len(s) /\ InSegment(s, n)
         \/ n \in Nat /\ n < Len(s)
<1>1. Len(s) \in Nat
  OBVIOUS
<1>2. CASE pc = "param" /\ n = -1 /\ Fresh
  BY <1>2
<1>3. CASE pc = "param" /\ InSegment(s, n)
  <2>1. n \in Nat /\ n <= Len(s)
    BY <1>3, NamePlace, ValuePlace DEF InSegment
  <2> QED
    BY <1>1, <1>3, <2>1
<1>4. CASE Escape(s, n - 1)
  <2>1. n - 1 \in Int
    OBVIOUS
  <2>2. n - 1 \in Nat /\ n - 1 + 3 <= Len(s)
    BY <1>4, <2>1, EscapePlace
  <2> QED
    BY <1>1, <2>2
<1>5. CASE Escape(s, n - 2)
  <2>1. n - 2 \in Int
    OBVIOUS
  <2>2. n - 2 \in Nat /\ n - 2 + 3 <= Len(s)
    BY <1>5, <2>1, EscapePlace
  <2> QED
    BY <1>1, <2>2
<1> QED
  BY <1>2, <1>3, <1>4, <1>5 DEF Within

LEMMA ReadInv == ASSUME IInv, ParamInv, ReadParam PROVE ParamInv'
<1>1. PICK ret \in {0, 1}, c \in Bytes \cup {NUL} :
        ParseURLParamChar(ret, c) /\ Handles(ret, c)
  BY DEF ReadParam, Param, Hex1, Hex2, Handles, Iteration
<1>2. UNCHANGED <<method, url, urlLen, sent, calls>> /\ pc \in Reading
  BY DEF ReadParam, Param, Hex1, Hex2, Reading
<1> SUFFICES ASSUME WellFormed', ~PastEnd'
             PROVE  Cursor' /\ IF pc' = "callback" THEN BetweenCalls' ELSE InCall'
  BY DEF ParamInv
<1>3. WellFormed /\ ~PastEnd /\ whole'
  BY <1>1, <1>2, CharBefore DEF WellFormed
<1>4. Cursor /\ InCall
  BY <1>2, <1>3 DEF ParamInv, Reading
<1>5. /\ Cursor'
      /\ Pos < Len(Query) => ret = 1 /\ c = Query[Pos + 1] /\ Pos' = Pos + 1
      /\ Pos = Len(Query) => EndOfInput(ret, c) /\ Pos' = Pos
  BY <1>1, <1>2, <1>3, <1>4, NextChar
<1>6. /\ Query \in Seq(Bytes) /\ Len(Query) \in Nat /\ Pos \in 0..Len(Query)
      /\ Segments \in Nat
  BY <1>4, PosTyped, SegmentsTyped
<1>7. PICK k \in Nat : k = calls /\ calls' = k /\ k >= 1 /\ out = Pairs(k - 1)
  BY <1>2, <1>4 DEF InCall, IInv, TypeOK
<1>8. /\ Query' = Query /\ Segments' = Segments
      /\ Pairs(calls)' = Pairs(k) /\ Segment(calls)' = Segment(k)
      /\ Border(calls)' = Border(k) /\ Border(calls - 1)' = Border(k - 1)
      /\ Pairs(calls - 1)' = Pairs(k - 1)
  BY <1>2, <1>7, AfterStep
<1>9. ASSUME EndOfInput(ret, c), pc = "param"
      PROVE  pc' = "callback" /\ out' = IF nameLen = 0 THEN Append(out, <<name, value>>) ELSE out
  BY <1>1, <1>9 DEF Handles, Iteration, Return
<1>10. CASE k > Segments
  <2>1. pc = "param" /\ Pos = Len(Query) /\ nameLen = NameSize
    BY <1>4, <1>7, <1>10 DEF InCall, Fresh
  <2>2. nameLen # 0
    BY <2>1, Constants
  <2>3. pc' = "callback" /\ out' = out /\ Pos' = Len(Query)
    BY <1>5, <1>9, <2>1, <2>2
  <2>4. out' = Pairs(k)
    BY <1>6, <1>7, <1>10, <2>3, NextPair
  <2>5. BetweenCalls'
    BY <1>7, <1>8, <1>10, <2>3, <2>4 DEF BetweenCalls
  <2> QED
    BY <1>5, <2>3, <2>5
<1>11. CASE ~(k > Segments)
  <2>1. k <= Segments /\ k - 1 \in Nat
    BY <1>6, <1>7, <1>11
  <2>2. PICK s \in Seq(Bytes), n \in Int :
          s = Segment(k) /\ Pos = Border(k - 1) + n /\ Within(s, n)
    BY <1>4, <1>7, <1>11 DEF InCall
  <2> DEFINE a == Border(k - 1)
  <2>3. /\ Len(s) \in Nat /\ WellFormedSegment(s)
        /\ a \in Nat /\ Border(k) = a + Len(s) + 1 /\ a + Len(s) <= Len(Query)
        /\ \A i \in 1..Len(s) : s[i] = Query[a + i] /\ s[i] # "&"
        /\ k < Segments => Border(k) <= Len(Query) /\ Query[Border(k)] = "&"
        /\ k = Segments => Border(k) = Len(Query) + 1
    BY <1>3, <1>6, <1>7, <2>1, <2>2, SegmentAt
  <2>4. Pos = a + n /\ Pos \in Int
    BY <1>6, <2>2
  <2> HIDE DEF a
  <2>5. c = "&" => c \in Bytes \cup {NUL}
    OBVIOUS
  <2>6. CASE pc = "param" /\ n = -1 /\ Fresh
    <3>1. a >= 1 /\ k > 1 /\ Pos < Len(Query) /\ Pos + 1 = a
      <4>1. a >= 1 /\ Pos < Len(Query) /\ Pos + 1 = a
        BY <1>6, <2>3, <2>4, <2>6
      <4>2. k = 1 => a = 0
        BY DEF a, Border
      <4> QED
        BY <1>7, <4>1, <4>2
    <3>2. Query[a] = "&"
      <4>1. k - 1 >= 1 /\ k - 1 < Segments /\ k - 1 <= Segments /\ k - 1 \in Nat
        BY <1>6, <1>7, <2>1, <3>1
      <4> QED
        BY <1>6, <4>1, Borders DEF a
    <3>3. ret = 1 /\ c = "&" /\ Pos' = a
      BY <1>5, <3>1, <3>2
    <3>4. ~EndOfInput(ret, c)
      <4>1. a \in 1..Len(Query)
        BY <1>6, <2>3, <3>1
      <4>2. "&" \in Bytes
        BY <1>6, <3>2, <4>1, ElementOfSeq
      <4> QED
        BY <3>3, <4>2, UrlParamsAssumption DEF EndOfInput
    <3>5. ~Ends
      BY <2>6, LocalsTyped, CountIsLength DEF Fresh, Ends
    <3>6. pc' = "param" /\ out' = out /\ UNCHANGED locals
      BY <1>1, <2>6, <3>3, <3>4, <3>5 DEF Handles, Iteration, Space, locals
    <3>7. Fresh'
      BY <2>6, <3>6 DEF Fresh, locals
    <3>8. InName(s, 0)'
      BY <2>3, <3>7, FreshInNameNext
    <3>9. GoesOn(s, 0)
      BY <3>6, <3>8 DEF GoesOn, Within, InSegment
    <3>10. Pos' = Border(k - 1) + 0 /\ 0 \in Int
      BY <2>3, <3>3 DEF a
    <3>11. IF pc' = "callback" THEN BetweenCalls' ELSE InCall'
      BY <1>2, <1>3, <1>6, <1>7, <2>1, <2>2, <3>9, <3>10, ReadsOn
    <3> QED
      BY <1>5, <3>11
  <2>7. CASE pc = "param" /\ n = Len(s) /\ InSegment(s, n)
    <3>1. <<name, value>> = PairOf(s) /\ nameLen = 0 /\ count > 0
      BY <2>3, <2>7, SegmentEnd
    <3>2. pc' = "callback" /\ out' = Append(out, <<name, value>>)
          /\ Pos' \in {Border(k) - 1, Border(k)}
      <4>1. CASE k = Segments
        <5>1. Pos = Len(Query) /\ Pos = Border(k) - 1
          BY <1>6, <2>3, <2>4, <2>7, <4>1
        <5> QED
          BY <1>5, <1>9, <2>7, <3>1, <5>1
      <4>2. CASE k # Segments
        <5>1. k < Segments
          BY <1>6, <2>1, <4>2
        <5>2. Pos + 1 = Border(k) /\ Pos < Len(Query) /\ Query[Pos + 1] = "&"
          BY <1>6, <2>3, <2>4, <2>7, <5>1
        <5>3. ret = 1 /\ c = "&" /\ Pos' = Border(k)
          BY <1>5, <5>2
        <5>4. pc' = "callback" /\ out' = Append(out, <<name, value>>)
          BY <1>1, <1>9, <2>7, <3>1, <5>3 DEF Handles, Iteration, Space, Ends, Return
        <5> QED
          BY <5>3, <5>4
      <4> QED
        BY <4>1, <4>2
    <3>3. out' = Pairs(k)
      BY <1>6, <1>7, <1>11, <2>2, <3>1, <3>2, NextPair
    <3>4. BetweenCalls'
      BY <1>7, <1>8, <1>11, <3>2, <3>3 DEF BetweenCalls
    <3> QED
      BY <1>5, <3>2, <3>4
  <2>8. CASE n \in Nat /\ n < Len(s)
    <3>1. n + 1 \in 1..Len(s) /\ Pos < Len(Query) /\ Pos + 1 = a + (n + 1)
          /\ n + 1 \in Int /\ n # -1
      BY <1>6, <2>3, <2>4, <2>8
    <3>2. s[n + 1] = Query[a + (n + 1)]
      BY <2>3, <3>1
    <3>3. ret = 1 /\ c = s[n + 1] /\ Pos' = a + (n + 1)
      BY <1>5, <3>1, <3>2
    <3>4. Handles(1, s[n + 1])
      BY <1>1, <3>3
    <3>5. GoesOn(s, n + 1) \/ (n + 1 = Len(s) /\ HandsOut(s))
      BY <2>2, <2>3, <2>8, <3>1, <3>4, HandlesWithin
    <3>6. IF pc' = "callback" THEN BetweenCalls' ELSE InCall'
      BY <1>2, <1>3, <1>6, <1>7, <2>1, <2>2, <3>1, <3>3, <3>5, ReadsOn DEF a
    <3> QED
      BY <1>5, <3>6
  <2> QED
    BY <2>2, <2>3, <2>6, <2>7, <2>8, WithinPlace
<1> QED
  BY <1>10, <1>11

LEMMA RestInv == ASSUME IInv, ParamInv, EndCallback \/ UNCHANGED vars PROVE ParamInv'
<1>1. CASE EndCallback
  BY <1>1 DEF ParamInv, EndCallback
<1>2. CASE UNCHANGED vars
  <2> USE <1>2 DEF vars, locals
  <2>1. WellFormed' = WellFormed
    BY SameQuery DEF WellFormed
  <2>2. PastEnd' = PastEnd
    BY DEF PastEnd
  <2>3. Cursor' = Cursor /\ Pos' = Pos
    BY DEF Cursor, UrlCursor, BodyCursor, Pos, Place, Below, Kept
  <2>4. BetweenCalls' = BetweenCalls
    BY <2>3, SameQuery DEF BetweenCalls
  <2>5. InCall' = InCall
    <3>1. PICK k \in Nat : k = calls /\ calls' = k
      BY DEF IInv, TypeOK
    <3>2. /\ Query' = Query /\ Segments' = Segments
          /\ Pairs(calls - 1)' = Pairs(calls - 1)
          /\ Segment(calls)' = Segment(calls)
          /\ Border(calls - 1)' = Border(calls - 1)
      BY <3>1, AfterStep
    <3>3. ASSUME NEW s, NEW n PROVE Within(s, n)' = Within(s, n)
      BY DEF Fresh, Within, InSegment, InName, InValue, Escape, AtWord, IsPart
    <3>4. Fresh' = Fresh
      BY DEF Fresh
    <3>5. InCall' = (/\ calls >= 1 /\ out = Pairs(calls - 1)
                     /\ IF calls > Segments
                        THEN pc = "param" /\ Pos = Len(Query) /\ Fresh
                        ELSE \E s \in Seq(Bytes), n \in Int :
                               /\ s = Segment(calls) /\ Pos = Border(calls - 1) + n
                               /\ Within(s, n))
      BY <2>3, <3>2, <3>3, <3>4 DEF InCall
    <3> QED
      BY <3>5 DEF InCall
  <2> QED
    BY <2>1, <2>2, <2>3, <2>4, <2>5 DEF ParamInv
<1> QED
  BY <1>1, <1>2

LEMMA InitInv == Init => ParamInv
BY DEF Init, ParamInv

LEMMA AlwaysIInv == Spec => []IInv
<1>1. IInv /\ [Next]_vars => IInv'
  BY NextHolds
<1> QED
  BY InitHolds, <1>1, PTL DEF Spec

(* Whatever the request, as long as it is well-formed, every byte of it    *)
(* arrives and the callback has not read past the terminator of its URL,   *)
(* the n-th call of attoHTTPParseParam hands out the n-th parameter, its   *)
(* escapes decoded, and every call behind the last parameter hands out     *)
(* nothing.                                                                *)
THEOREM ParamsHandedOut == Spec => []NextParamEachCall
<1>1. IInv /\ ParamInv /\ [Next]_vars => ParamInv'
  <2> SUFFICES ASSUME IInv, ParamInv, [Next]_vars PROVE ParamInv'
    OBVIOUS
  <2>1. ASSUME NEW tok \in Tokens, NEW eof \in BOOLEAN, GetRequest(tok, eof)
        PROVE  ParamInv'
    <3>1. tok \in Seq(Bytes) /\ <<>> \in Seq(Bytes)
      BY UrlParamsAssumption
    <3> QED
      BY <2>1, <3>1, RequestInv DEF GetRequest
  <2>2. ASSUME NEW tok \in PostTokens, NEW b \in Bodies, PostRequest(tok, b)
        PROVE  ParamInv'
    <3>1. tok \in Seq(Bytes) /\ b \in Seq(Bytes) /\ FALSE \in BOOLEAN
      BY UrlParamsAssumption
    <3> QED
      BY <2>2, <3>1, RequestInv DEF PostRequest
  <2> QED
    BY <2>1, <2>2, ParseParamInv, ReadInv, RestInv DEF Next
<1>2. IInv /\ ParamInv => NextParamEachCall
  <2> SUFFICES ASSUME IInv, ParamInv, pc = "callback", WellFormed, ~PastEnd
               PROVE  out = Pairs(calls)
    BY DEF NextParamEachCall
  <2> QED
    BY DEF ParamInv, BetweenCalls
<1> QED
  BY InitInv, AlwaysIInv, <1>1, <1>2, PTL DEF Spec
=============================================================================
