--------------------------- MODULE ApiLevelsProofs ---------------------------
(***************************************************************************)
(* Proofs about ApiLevels, for every buffer size, every number of levels   *)
(* and every URL.                                                          *)
(***************************************************************************)
EXTENDS ApiLevels, UrlBufferProofs, FiniteSetTheorems, TLAPS

(***************************************************************************)
(* The inductive invariant.  The scan stays in the buffer because the last *)
(* byte is a terminator until the scan stops at it: no action writes       *)
(* another value there.                                                    *)
(***************************************************************************)
IInv ==
  /\ TypeOK
  /\ Alternating
  /\ buf[UrlBufferSize - 1] = NUL

(* A Boolean-free form of the facts about constants the steps use.         *)
LEMMA Constants ==
  /\ UrlBufferSize \in Nat /\ UrlBufferSize >= 2
  /\ ApiSize \in Nat /\ ApiSize >= 1
  /\ NUL \in Bytes
  /\ 0 \in UrlIndex /\ UrlBufferSize - 1 \in UrlIndex
BY UrlBufferAssumption, ApiAssumption DEF UrlIndex

(* While the loop goes on there is a byte behind the current one.          *)
LEMMA RoomAhead ==
  ASSUME IInv, MoreUrl
  PROVE  /\ ptr + 1 \in UrlIndex
         /\ ctr - 1 \in UrlIndex
<1>1. ptr \in UrlIndex /\ ctr \in UrlIndex
  BY DEF IInv, TypeOK
<1>2. ptr # UrlBufferSize - 1
  BY DEF IInv, MoreUrl
<1>3. ctr > 0
  BY DEF MoreUrl
<1> QED
  BY <1>1, <1>2, <1>3, Constants DEF UrlIndex

(* The buffers _attoHTTPParseURL leaves.                                   *)
LEMMA RequestTerminated ==
  ASSUME NEW r \in Requests
  PROVE  /\ r \in [buf : [UrlIndex -> Bytes], len : UrlIndex]
         /\ r.buf \in [UrlIndex -> Bytes] /\ r.len \in UrlIndex
         /\ r.buf[UrlBufferSize - 1] = NUL
         /\ r.len > 0 => r.buf[r.len] = NUL
<1>1. Requests \subseteq [buf : [UrlIndex -> Bytes], len : UrlIndex]
  BY ApiAssumption, Zenon
<1>2. r \in [buf : [UrlIndex -> Bytes], len : UrlIndex]
  BY <1>1, Zenon
<1>3. r.buf \in [UrlIndex -> Bytes] /\ r.len \in UrlIndex
  BY <1>2
<1>4. r.buf[UrlBufferSize - 1] = NUL /\ (r.len > 0 => r.buf[r.len] = NUL)
  BY ApiAssumption, Zenon
<1> QED
  BY <1>2, <1>3, <1>4, Zenon

LEMMA InitInBounds == Init => IInv
<1> SUFFICES ASSUME Init PROVE IInv
  OBVIOUS
<1>1. /\ request \in [buf : [UrlIndex -> Bytes], len : UrlIndex]
      /\ request.buf[UrlBufferSize - 1] = NUL
  <2>1. request \in Requests
    BY DEF Init
  <2> QED
    BY <2>1, RequestTerminated, Zenon
<1>2. command = <<>> /\ id = <<>> /\ ptr = 0 /\ ctr = request.len
      /\ buf = request.buf /\ done = FALSE
  BY DEF Init
<1>3. /\ command \in Seq(UrlIndex) /\ Len(command) = 0
      /\ id \in Seq(UrlIndex) /\ Len(id) = 0
  BY <1>2
<1>4. request.buf \in [UrlIndex -> Bytes] /\ request.len \in UrlIndex
  BY <1>1
<1>5. Len(command) <= ApiSize /\ Len(id) <= ApiSize
  BY <1>3, Constants
<1>6. buf \in [UrlIndex -> Bytes] /\ ptr \in UrlIndex /\ ctr \in UrlIndex
  BY <1>2, <1>4, Constants
<1>7. done \in BOOLEAN
  BY <1>2
<1>8. TypeOK
  BY <1>1, <1>3, <1>5, <1>6, <1>7, Zenon DEF TypeOK, cmdlvl, idlvl
<1>9. Alternating
  BY <1>3 DEF Alternating, cmdlvl, idlvl
<1> QED
  BY <1>1, <1>2, <1>8, <1>9 DEF IInv

LEMMA NextInBounds == IInv /\ [Next]_vars => IInv'
<1> SUFFICES ASSUME IInv, [Next]_vars PROVE IInv'
  OBVIOUS
<1> USE Constants
<1>1. CASE TakeCommand
  <2>1. ptr + 1 \in UrlIndex /\ ctr - 1 \in UrlIndex
    BY <1>1, RoomAhead DEF TakeCommand, AtSlash
  <2>2. command' = Append(command, ptr + 1) /\ cmdlvl = idlvl /\ cmdlvl < ApiSize
    BY <1>1 DEF TakeCommand, CommandTurn
  <2>3. command' \in Seq(UrlIndex) /\ Len(command') = Len(command) + 1
    BY <2>1, <2>2 DEF IInv, TypeOK
  <2>4. buf' \in [UrlIndex -> Bytes] /\ buf'[UrlBufferSize - 1] = NUL
    BY <1>1 DEF TakeCommand, IInv, TypeOK
  <2> QED
    BY <1>1, <2>1, <2>2, <2>3, <2>4
    DEF TakeCommand, Advance, IInv, TypeOK, Alternating, cmdlvl, idlvl
<1>2. CASE TakeId
  <2>1. ptr + 1 \in UrlIndex /\ ctr - 1 \in UrlIndex
    BY <1>2, RoomAhead DEF TakeId, AtSlash
  <2>2. id' = Append(id, ptr + 1) /\ cmdlvl > idlvl /\ idlvl < ApiSize
    BY <1>2 DEF TakeId, IdTurn
  <2>3. id' \in Seq(UrlIndex) /\ Len(id') = Len(id) + 1
    BY <2>1, <2>2 DEF IInv, TypeOK
  <2>4. buf' \in [UrlIndex -> Bytes] /\ buf'[UrlBufferSize - 1] = NUL
    BY <1>2 DEF TakeId, IInv, TypeOK
  <2> QED
    BY <1>2, <2>1, <2>2, <2>3, <2>4
    DEF TakeId, Advance, IInv, TypeOK, Alternating, cmdlvl, idlvl
<1>3. CASE DropSlash
  <2>1. ptr + 1 \in UrlIndex /\ ctr - 1 \in UrlIndex
    BY <1>3, RoomAhead DEF DropSlash, AtSlash
  <2>2. buf' \in [UrlIndex -> Bytes] /\ buf'[UrlBufferSize - 1] = NUL
    BY <1>3 DEF DropSlash, IInv, TypeOK
  <2> QED
    BY <1>3, <2>1, <2>2
    DEF DropSlash, Advance, IInv, TypeOK, Alternating, cmdlvl, idlvl
<1>4. CASE PassByte
  <2>1. ptr + 1 \in UrlIndex /\ ctr - 1 \in UrlIndex
    BY <1>4, RoomAhead DEF PassByte
  <2> QED
    BY <1>4, <2>1 DEF PassByte, Advance, IInv, TypeOK, Alternating, cmdlvl, idlvl
<1>5. CASE Finish
  BY <1>5 DEF Finish, IInv, TypeOK, Alternating, cmdlvl, idlvl
<1>6. CASE UNCHANGED vars
  BY <1>6 DEF vars, IInv, TypeOK, Alternating, cmdlvl, idlvl
<1> QED
  BY <1>1, <1>2, <1>3, <1>4, <1>5, <1>6 DEF Next

(* The bounds alone: no level is written behind command[] or id[], and the *)
(* scan, and every level it keeps a pointer to, is within the URL buffer.  *)
THEOREM LevelTypes == Spec => []TypeOK
<1>1. IInv => TypeOK
  BY DEF IInv
<1> QED
  BY <1>1, InitInBounds, NextInBounds, PTL DEF Spec

(* The levels are written within command[] and id[], point into the URL    *)
(* buffer and alternate, and the scan does not leave the buffer.           *)
THEOREM LevelsInBounds == Spec => [](TypeOK /\ Alternating)
<1>1. IInv => TypeOK /\ Alternating
  BY DEF IInv
<1> QED
  BY <1>1, InitInBounds, NextInBounds, PTL DEF Spec

-----------------------------------------------------------------------------
(***************************************************************************)
(* What the scan has done when it stands at ptr: the slashes before ptr    *)
(* are terminators, every other byte is the request's, and there is a      *)
(* level exactly if one of those slashes has something after it.           *)
(***************************************************************************)
Source == request.buf
ScanInv ==
  /\ Source[UrlBufferSize - 1] = NUL
  /\ request.len > 0 => Source[request.len] = NUL
  /\ ctr = request.len - ptr
  /\ \A j \in 0..ptr - 1 : Source[j] # NUL
  /\ buf = [i \in UrlIndex |-> IF i < ptr /\ Source[i] = "/" THEN NUL ELSE Source[i]]
  /\ cmdlvl > 0 <=> \E j \in 0..ptr - 1 : Source[j] = "/" /\ request.len - j > 1
  /\ done => Source[ptr] = NUL \/ ptr = request.len

(* The request holds a string, and the scan is within it.                  *)
LEMMA SourceIsBuffer ==
  ASSUME IInv, ScanInv
  PROVE  /\ Source \in [UrlIndex -> Bytes] /\ request.len \in UrlIndex
         /\ ptr \in UrlIndex /\ ptr <= request.len
         /\ StrLen(Source) \in UrlIndex /\ Source[StrLen(Source)] = NUL
         /\ \A j \in 0..StrLen(Source) - 1 : Source[j] # NUL
         /\ ptr <= StrLen(Source)
<1>1. /\ Source \in [UrlIndex -> Bytes] /\ request.len \in UrlIndex
      /\ ptr \in UrlIndex /\ ctr \in UrlIndex /\ ctr = request.len - ptr
  BY DEF IInv, TypeOK, Source, ScanInv
<1>2. ptr <= request.len
  BY <1>1, Constants DEF UrlIndex
<1>3. /\ StrLen(Source) \in UrlIndex /\ Source[StrLen(Source)] = NUL
      /\ \A j \in 0..StrLen(Source) - 1 : Source[j] # NUL
  <2>1. DOMAIN Source = UrlIndex /\ Source[UrlBufferSize - 1] = NUL
    BY <1>1 DEF ScanInv
  <2> QED
    BY <2>1, StrLenProperties
<1>4. ptr <= StrLen(Source)
  <2>1. SUFFICES ASSUME ~(ptr <= StrLen(Source)) PROVE FALSE
    OBVIOUS
  <2>2. StrLen(Source) \in 0..ptr - 1
    BY <1>1, <1>3, <2>1, Constants DEF UrlIndex
  <2> QED
    BY <1>3, <2>2 DEF ScanInv
<1> QED
  BY <1>1, <1>2, <1>3, <1>4

(* One round of the loop: the scan moves on, and a slash is overwritten.   *)
Round ==
  /\ MoreUrl /\ request' = request /\ ptr' = ptr + 1 /\ ctr' = ctr - 1 /\ done' = done
  /\ buf' = IF buf[ptr] = "/" THEN [buf EXCEPT ![ptr] = NUL] ELSE buf

LEMMA RoundKeepsBuffer ==
  ASSUME IInv, ScanInv, Round
  PROVE  /\ Source[ptr] = buf[ptr] /\ Source[ptr] # NUL /\ ptr + 1 \in UrlIndex
         /\ Source' = Source /\ ctr' = request.len - ptr'
         /\ \A j \in 0..ptr' - 1 : Source[j] # NUL
         /\ buf' = [i \in UrlIndex |-> IF i < ptr' /\ Source[i] = "/" THEN NUL ELSE Source[i]]
<1>1. /\ ptr \in UrlIndex /\ ptr + 1 \in UrlIndex /\ ptr \in Nat /\ request.len \in Int
      /\ buf \in [UrlIndex -> Bytes]
  BY RoomAhead, Constants DEF Round, IInv, TypeOK, UrlIndex
<1>2. buf = [i \in UrlIndex |-> IF i < ptr /\ Source[i] = "/" THEN NUL ELSE Source[i]]
  BY DEF ScanInv
<1>3. ~(ptr < ptr)
  BY <1>1
<1>4. Source[ptr] = buf[ptr] /\ Source[ptr] # NUL
  BY <1>1, <1>2, <1>3, Zenon DEF Round, MoreUrl
<1>5. Source' = Source /\ ctr' = request.len - ptr' /\ ptr' = ptr + 1
  BY <1>1 DEF Round, Source, ScanInv
<1>6. ASSUME NEW j \in 0..ptr' - 1 PROVE Source[j] # NUL
  <2>1. j \in 0..ptr - 1 \/ j = ptr
    BY <1>1, <1>5
  <2> QED
    BY <1>4, <2>1 DEF ScanInv
<1>7. ASSUME NEW i \in UrlIndex
      PROVE  buf'[i] = IF i < ptr' /\ Source[i] = "/" THEN NUL ELSE Source[i]
  <2>1. buf[i] = IF i < ptr /\ Source[i] = "/" THEN NUL ELSE Source[i]
    BY <1>2, Zenon
  <2>2. CASE i = ptr
    <3>1. i < ptr'
      BY <1>1, <1>5, <2>2
    <3>2. CASE buf[ptr] = "/"
      <4>1. buf'[i] = NUL
        BY <1>1, <2>2, <3>2 DEF Round
      <4> QED
        BY <1>4, <2>2, <3>1, <3>2, <4>1
    <3>3. CASE buf[ptr] # "/"
      <4>1. buf'[i] = buf[i]
        BY <3>3 DEF Round
      <4> QED
        BY <1>4, <2>2, <3>3, <4>1
    <3> QED
      BY <3>2, <3>3
  <2>3. CASE i # ptr
    <3>1. i < ptr' <=> i < ptr
      BY <1>1, <1>5, <2>3 DEF UrlIndex
    <3>2. buf'[i] = buf[i]
      BY <1>1, <2>3 DEF Round
    <3> QED
      BY <2>1, <3>1, <3>2
  <2> QED
    BY <2>2, <2>3
<1>8. buf' = [i \in UrlIndex |-> buf'[i]]
  BY <1>1 DEF Round
<1> QED
  BY <1>1, <1>4, <1>5, <1>6, <1>7, <1>8, Zenon

(* The slash at ptr is a level exactly if something comes after it.        *)
LEMMA RoundLevels ==
  ASSUME IInv, ScanInv, Round, (Source[ptr] = "/" /\ ctr > 1) => Len(command') > 0,
         Len(command) > 0 => Len(command') > 0,
         Len(command') > 0 => Len(command) > 0 \/ (Source[ptr] = "/" /\ ctr > 1)
  PROVE  Len(command') > 0
           <=> \E j \in 0..ptr' - 1 : Source[j] = "/" /\ request.len - j > 1
<1>1. ptr \in Nat /\ ptr' = ptr + 1 /\ ctr = request.len - ptr
  BY Constants DEF Round, IInv, TypeOK, UrlIndex, ScanInv
<1>2. \A j : j \in 0..ptr' - 1 <=> j \in 0..ptr - 1 \/ j = ptr
  BY <1>1
<1>3. Len(command) > 0 <=> \E j \in 0..ptr - 1 : Source[j] = "/" /\ request.len - j > 1
  BY DEF ScanInv, cmdlvl
<1> QED
  BY <1>1, <1>2, <1>3

LEMMA RoundKeepsScan ==
  ASSUME IInv, ScanInv, Round, ~done,
         Len(command') > 0
           <=> \E j \in 0..ptr' - 1 : Source[j] = "/" /\ request.len - j > 1
  PROVE  ScanInv'
<1>1. /\ Source' = Source /\ ctr' = request.len - ptr' /\ request' = request
      /\ \A j \in 0..ptr' - 1 : Source[j] # NUL
      /\ buf' = [i \in UrlIndex |-> IF i < ptr' /\ Source[i] = "/" THEN NUL ELSE Source[i]]
      /\ ~done'
  BY RoundKeepsBuffer DEF Round
<1> QED
  BY <1>1, Zenon DEF ScanInv, cmdlvl

(* The branches on a slash and the one on another byte are rounds.         *)
LEMMA TakeCommandKeepsScan ==
  ASSUME IInv, ScanInv, TakeCommand
  PROVE  ScanInv'
<1>1. Round /\ ~done
  BY DEF TakeCommand, AtSlash, MoreUrl, Advance, Round
<1>2. Source[ptr] = "/" /\ ctr > 1
  BY <1>1, RoundKeepsBuffer DEF TakeCommand, AtSlash, SomethingAfter
<1>3. Len(command') > 0
  BY DEF TakeCommand, IInv, TypeOK
<1> QED
  BY <1>1, <1>2, <1>3, RoundLevels, RoundKeepsScan

LEMMA TakeIdKeepsScan ==
  ASSUME IInv, ScanInv, TakeId
  PROVE  ScanInv'
<1>1. Round /\ ~done
  BY DEF TakeId, AtSlash, MoreUrl, Advance, Round
<1>2. Len(command) > 0 /\ command' = command
  BY DEF TakeId, IdTurn, IInv, TypeOK, cmdlvl, idlvl
<1> QED
  BY <1>1, <1>2, RoundLevels, RoundKeepsScan

LEMMA DropSlashKeepsScan ==
  ASSUME IInv, ScanInv, DropSlash
  PROVE  ScanInv'
<1>1. Round /\ ~done
  BY DEF DropSlash, AtSlash, MoreUrl, Advance, Round
<1>2. command' = command
  BY DEF DropSlash
<1>3. ASSUME ctr > 1 PROVE Len(command) > 0
  <2> DEFINE n == Len(command)
             m == Len(id)
  <2>1. ~(n = m /\ n < ApiSize)
    BY <1>3, Zenon DEF DropSlash, SomethingAfter, CommandTurn, cmdlvl, idlvl
  <2>2. n \in Nat /\ m \in Nat /\ m <= n
    BY DEF IInv, TypeOK, Alternating, cmdlvl, idlvl
  <2>3. ApiSize \in Nat /\ ApiSize >= 1
    BY Constants
  <2> HIDE DEF n, m
  <2>4. n > 0
    BY <2>1, <2>2, <2>3
  <2> QED
    BY <2>4 DEF n
<1> QED
  BY <1>1, <1>2, <1>3, RoundLevels, RoundKeepsScan

LEMMA PassByteKeepsScan ==
  ASSUME IInv, ScanInv, PassByte
  PROVE  ScanInv'
<1>1. Round /\ ~done /\ command' = command
  BY DEF PassByte, MoreUrl, Advance, Round
<1>2. Source[ptr] # "/"
  BY <1>1, RoundKeepsBuffer DEF PassByte
<1> QED
  BY <1>1, <1>2, RoundLevels, RoundKeepsScan

LEMMA InitScan == Init => ScanInv
<1> SUFFICES ASSUME Init PROVE ScanInv
  OBVIOUS
<1>1. /\ Source \in [UrlIndex -> Bytes] /\ request.len \in UrlIndex
      /\ Source[UrlBufferSize - 1] = NUL
      /\ request.len > 0 => Source[request.len] = NUL
  <2>1. request \in Requests
    BY DEF Init
  <2> QED
    BY <2>1, RequestTerminated, Zenon DEF Source
<1>2. ptr = 0 /\ ctr = request.len /\ buf = Source /\ ~done /\ Len(command) = 0
  BY DEF Init, Source
<1>3. request.len \in Int /\ 0..ptr - 1 = {} /\ \A i \in UrlIndex : ~(i < ptr)
  BY <1>1, <1>2, Constants DEF UrlIndex
<1>4. buf = [i \in UrlIndex |-> IF i < ptr /\ Source[i] = "/" THEN NUL ELSE Source[i]]
  <2>1. Source = [i \in UrlIndex |-> Source[i]]
    BY <1>1
  <2> QED
    BY <1>2, <1>3, <2>1, Zenon
<1>5. ctr = request.len - ptr /\ ~(cmdlvl > 0)
  BY <1>2, <1>3 DEF cmdlvl
<1> QED
  BY <1>1, <1>2, <1>3, <1>4, <1>5, Zenon DEF ScanInv

LEMMA NextScan == IInv /\ ScanInv /\ [Next]_vars => ScanInv'
<1> SUFFICES ASSUME IInv, ScanInv, [Next]_vars PROVE ScanInv'
  OBVIOUS
<1>1. CASE Finish
  <2>1. Source[ptr] = NUL \/ ptr = request.len
    <3>1. buf[ptr] = NUL \/ ~(ctr > 0)
      BY <1>1 DEF Finish, MoreUrl
    <3>2. ptr \in UrlIndex /\ ptr \in Int /\ ctr \in Nat /\ request.len \in Int
          /\ ctr = request.len - ptr
      BY Constants DEF IInv, TypeOK, ScanInv, UrlIndex
    <3>3. buf[ptr] = Source[ptr]
      <4>1. ~(ptr < ptr)
        BY <3>2
      <4>2. buf = [i \in UrlIndex |->
                     IF i < ptr /\ Source[i] = "/" THEN NUL ELSE Source[i]]
        BY DEF ScanInv
      <4> QED
        BY <3>2, <4>1, <4>2, Zenon
    <3> QED
      BY <3>1, <3>2, <3>3
  <2>2. UNCHANGED <<request, buf, ptr, ctr, command, id>>
    BY <1>1 DEF Finish
  <2> QED
    BY <2>1, <2>2, Zenon DEF ScanInv, Source, cmdlvl
<1>2. CASE UNCHANGED vars
  BY <1>2, Zenon DEF vars, ScanInv, Source, cmdlvl
<1> QED
  BY <1>1, <1>2, TakeCommandKeepsScan, TakeIdKeepsScan, DropSlashKeepsScan,
     PassByteKeepsScan DEF Next

(* When the loop ends, the slashes it has passed are all the slashes of    *)
(* the string that is in use.                                              *)
LEMMA PassedSlashes ==
  ASSUME IInv, ScanInv, done
  PROVE  \A i \in UrlIndex :
            i < ptr /\ Source[i] = "/" <=> i \in Slashes(Source, request.len)
<1> TAKE i \in UrlIndex
<1>1. /\ ptr \in UrlIndex /\ ptr <= request.len /\ request.len \in UrlIndex
      /\ StrLen(Source) \in UrlIndex /\ ptr <= StrLen(Source)
      /\ \A j \in 0..StrLen(Source) - 1 : Source[j] # NUL
  BY SourceIsBuffer
<1>2. ptr = StrLen(Source) \/ ptr = request.len
  <2>1. SUFFICES ASSUME Source[ptr] = NUL, ptr # StrLen(Source) PROVE FALSE
    BY DEF ScanInv
  <2>2. ptr \in 0..StrLen(Source) - 1
    BY <1>1, <2>1, Constants DEF UrlIndex
  <2> QED
    BY <1>1, <2>1, <2>2
<1>3. i < ptr <=> i < StrLen(Source) /\ i < request.len
  BY <1>1, <1>2, Constants DEF UrlIndex
<1> QED
  BY <1>3, Zenon DEF Slashes

(* What Server says of the whole loop in one step is what the loop leaves: *)
(* the slashes of the URL in use are terminators and nothing else in the   *)
(* buffer has changed, and there is a level to call the REST callback with *)
(* exactly if a slash has something behind it.                             *)
THEOREM SplitAsServerSays == Spec => []AgreesWithServer
<1>1. ASSUME IInv, ScanInv PROVE AgreesWithServer
  <2>1. SUFFICES ASSUME done PROVE
             /\ buf = Split(Source, request.len)
             /\ (cmdlvl > 0) = (\E i \in Slashes(Source, request.len) :
                                  request.len - i > 1)
    BY DEF AgreesWithServer, Source
  <2>2. \A i \in UrlIndex :
            i < ptr /\ Source[i] = "/" <=> i \in Slashes(Source, request.len)
    BY <1>1, <2>1, PassedSlashes
  <2>3. buf = Split(Source, request.len)
    <3>1. buf = [i \in UrlIndex |->
                   IF i < ptr /\ Source[i] = "/" THEN NUL ELSE Source[i]]
      BY <1>1 DEF ScanInv
    <3> QED
      BY <2>2, <3>1, Zenon DEF Split
  <2>4. \A j : j \in 0..ptr - 1 <=> j \in UrlIndex /\ j < ptr
    BY <1>1, Constants DEF IInv, TypeOK, UrlIndex
  <2>5. cmdlvl > 0 <=> \E i \in Slashes(Source, request.len) : request.len - i > 1
    <3>1. cmdlvl > 0 <=> \E j \in 0..ptr - 1 : Source[j] = "/" /\ request.len - j > 1
      BY <1>1 DEF ScanInv
    <3>2. \A i \in Slashes(Source, request.len) : i \in UrlIndex
      BY DEF Slashes
    <3> QED
      BY <2>2, <2>4, <3>1, <3>2, Zenon
  <2>6. (cmdlvl > 0) \in BOOLEAN
    BY <1>1 DEF IInv, TypeOK, cmdlvl
  <2>7. (cmdlvl > 0) = (\E i \in Slashes(Source, request.len) : request.len - i > 1)
    BY <2>5, <2>6
  <2> QED
    BY <2>3, <2>7, Zenon
<1> QED
  BY <1>1, InitInBounds, NextInBounds, InitScan, NextScan, PTL DEF Spec

-----------------------------------------------------------------------------
(***************************************************************************)
(* The levels, by the number of levels before them: the k-th command is    *)
(* the level with 2k-2 levels before it, the k-th id the one with 2k-1,    *)
(* and as many levels are taken as the scan has passed, up to the room     *)
(* there is.                                                               *)
(***************************************************************************)
LevelsBelow(L, i) == {j \in L : j < i}
IsLevel(L, p, k) == p - 1 \in L /\ Cardinality(LevelsBelow(L, p - 1)) = k - 1
CountInv ==
  /\ cmdlvl + idlvl = Min2(Cardinality(LevelsBelow(Levels, ptr)), 2 * ApiSize)
  /\ \A k \in 1..cmdlvl : IsLevel(Levels, command[k], 2 * k - 1)
  /\ \A k \in 1..idlvl : IsLevel(Levels, id[k], 2 * k)

LEMMA LevelsFinite ==
  ASSUME NEW i
  PROVE  /\ Levels \subseteq UrlIndex
         /\ IsFiniteSet(LevelsBelow(Levels, i)) /\ Cardinality(LevelsBelow(Levels, i)) \in Nat
<1>1. Levels \subseteq UrlIndex
  BY DEF Levels, Slashes
<1>2. LevelsBelow(Levels, i) \in SUBSET UrlIndex
  BY <1>1 DEF LevelsBelow
<1>3. IsFiniteSet(UrlIndex)
  <2>1. 0 \in Int /\ UrlBufferSize - 1 \in Int
    BY Constants
  <2> QED
    BY <2>1, FS_Interval, Zenon DEF UrlIndex
<1>4. IsFiniteSet(LevelsBelow(Levels, i))
  BY <1>2, <1>3, FS_Subset, Zenon
<1> QED
  BY <1>1, <1>4, FS_CardinalityType, Zenon

(* Counting a level more.                                                  *)
LEMMA LevelCounted ==
  ASSUME NEW i \in Levels
  PROVE  Cardinality(LevelsBelow(Levels, i) \cup {i}) = Cardinality(LevelsBelow(Levels, i)) + 1
<1>1. IsFiniteSet(LevelsBelow(Levels, i)) /\ i \in UrlIndex
  BY LevelsFinite
<1>2. ~(i < i)
  BY <1>1, Constants DEF UrlIndex
<1>3. i \notin LevelsBelow(Levels, i)
  BY <1>2 DEF LevelsBelow
<1> QED
  BY <1>1, <1>3, FS_AddElement, Zenon

(* A level is known by the number of levels before it.                     *)
LEMMA FewerBefore ==
  ASSUME NEW i \in Levels, NEW j \in Levels, i < j
  PROVE  Cardinality(LevelsBelow(Levels, i)) < Cardinality(LevelsBelow(Levels, j))
<1>1. \A l \in UrlIndex : l < i => l < j
  BY Constants, LevelsFinite DEF UrlIndex
<1>2. LevelsBelow(Levels, i) \cup {i} \in SUBSET LevelsBelow(Levels, j)
  BY <1>1, LevelsFinite DEF LevelsBelow
<1>3. Cardinality(LevelsBelow(Levels, i) \cup {i}) <= Cardinality(LevelsBelow(Levels, j))
  BY <1>2, LevelsFinite, FS_Subset, Zenon
<1>4. Cardinality(LevelsBelow(Levels, i) \cup {i}) = Cardinality(LevelsBelow(Levels, i)) + 1
  BY LevelCounted
<1>5. Cardinality(LevelsBelow(Levels, i)) \in Nat /\ Cardinality(LevelsBelow(Levels, j)) \in Nat
  BY LevelsFinite
<1> QED
  BY <1>3, <1>4, <1>5

LEMMA LevelIsNth ==
  ASSUME NEW p \in Int, NEW k, IsLevel(Levels, p, k)
  PROVE  NthSlash(k) = p - 1
<1> DEFINE Nth(i) == Cardinality({j \in Levels : j < i}) = k - 1
<1>1. p - 1 \in Levels /\ Nth(p - 1)
  BY DEF IsLevel, LevelsBelow
<1>2. ASSUME NEW i \in Levels, Nth(i) PROVE i = p - 1
  <2>1. /\ Cardinality(LevelsBelow(Levels, i)) = Cardinality(LevelsBelow(Levels, p - 1))
        /\ Cardinality(LevelsBelow(Levels, i)) \in Nat
    BY <1>1, <1>2, LevelsFinite DEF LevelsBelow
  <2>2. ~(i < p - 1) /\ ~(p - 1 < i)
    BY <1>1, <2>1, FewerBefore
  <2>3. i \in Int /\ p - 1 \in Int
    BY LevelsFinite, Constants DEF UrlIndex
  <2> QED
    BY <2>2, <2>3
<1>3. NthSlash(k) = CHOOSE i \in Levels : Nth(i)
  BY DEF NthSlash
<1> HIDE DEF Nth
<1> QED
  BY <1>1, <1>2, <1>3, Zenon

(* What a round counts.                                                    *)
LEMMA RoundCounts ==
  ASSUME IInv, ScanInv, Round
  PROVE  /\ Source[ptr] = "/" /\ ctr > 1 =>
              /\ ptr \in Levels
              /\ Cardinality(LevelsBelow(Levels, ptr + 1)) = Cardinality(LevelsBelow(Levels, ptr)) + 1
         /\ ~(Source[ptr] = "/" /\ ctr > 1) => LevelsBelow(Levels, ptr + 1) = LevelsBelow(Levels, ptr)
         /\ ptr' = ptr + 1 /\ Levels' = Levels
<1>1. /\ ptr \in UrlIndex /\ ptr + 1 \in UrlIndex /\ ctr \in Nat /\ ctr > 0
      /\ request.len \in Nat /\ ptr < request.len /\ ctr = request.len - ptr
  <2>1. ptr \in UrlIndex /\ ctr \in UrlIndex /\ ctr > 0 /\ request.len \in UrlIndex
        /\ ctr = request.len - ptr /\ ptr + 1 \in UrlIndex
    BY SourceIsBuffer, RoundKeepsBuffer DEF IInv, TypeOK, ScanInv, Round, MoreUrl
  <2> QED
    BY <2>1, Constants DEF UrlIndex
<1>2. ptr < StrLen(Source)
  <2>1. StrLen(Source) \in UrlIndex /\ Source[StrLen(Source)] = NUL /\ ptr <= StrLen(Source)
    BY SourceIsBuffer
  <2>2. Source[ptr] # NUL
    BY RoundKeepsBuffer
  <2>3. ptr # StrLen(Source)
    BY <2>1, <2>2
  <2> QED
    BY <1>1, <2>1, <2>3, Constants DEF UrlIndex
<1>3. ptr \in Levels <=> Source[ptr] = "/" /\ ctr > 1
  BY <1>1, <1>2, Zenon DEF Levels, Slashes, Source
<1>4. \A j \in UrlIndex : j < ptr + 1 <=> j < ptr \/ j = ptr
  BY <1>1, Constants DEF UrlIndex
<1>5. ASSUME ptr \in Levels PROVE LevelsBelow(Levels, ptr + 1) = LevelsBelow(Levels, ptr) \cup {ptr}
  BY <1>4, <1>5, LevelsFinite DEF LevelsBelow
<1>6. ASSUME ptr \notin Levels PROVE LevelsBelow(Levels, ptr + 1) = LevelsBelow(Levels, ptr)
  BY <1>4, <1>6, LevelsFinite DEF LevelsBelow
<1>7. request' = request /\ ptr' = ptr + 1
  BY DEF Round
<1>8. Levels' = Levels
  BY <1>7, Zenon DEF Levels
<1> QED
  BY <1>3, <1>5, <1>6, <1>7, <1>8, LevelCounted, Zenon

LEMMA LevelAt ==
  ASSUME NEW i \in Int, NEW k, i \in Levels,
         Cardinality(LevelsBelow(Levels, i)) = k - 1
  PROVE  IsLevel(Levels, i + 1, k)
<1>1. i + 1 - 1 = i
  OBVIOUS
<1> QED
  BY <1>1 DEF IsLevel

LEMMA AppendedLevel ==
  ASSUME NEW S, NEW s \in Seq(S), NEW x \in S
  PROVE  /\ Len(Append(s, x)) = Len(s) + 1 /\ Len(s) \in Nat
         /\ \A k \in 1..Len(s) : Append(s, x)[k] = s[k]
         /\ Append(s, x)[Len(s) + 1] = x
         /\ \A k \in 1..Len(s) + 1 : k \in 1..Len(s) \/ k = Len(s) + 1
OBVIOUS

LEMMA TakeCommandKeepsCount ==
  ASSUME IInv, ScanInv, CountInv, TakeCommand
  PROVE  CountInv'
<1> DEFINE c == Cardinality(LevelsBelow(Levels, ptr))
           n == Len(command)
<1>1. Round
  BY DEF TakeCommand, AtSlash, MoreUrl, Advance, Round
<1>2. /\ ptr' = ptr + 1 /\ ptr \in Levels /\ Cardinality(LevelsBelow(Levels', ptr')) = c + 1
      /\ Levels' = Levels
  <2>1. Source[ptr] = "/" /\ ctr > 1
    BY <1>1, RoundKeepsBuffer DEF TakeCommand, AtSlash, SomethingAfter
  <2> QED
    BY <1>1, <2>1, RoundCounts, Zenon
<1>3. /\ command' = Append(command, ptr + 1) /\ id' = id /\ n = Len(id) /\ n < ApiSize
      /\ command \in Seq(UrlIndex) /\ ptr + 1 \in UrlIndex /\ ptr \in UrlIndex
  BY RoomAhead DEF TakeCommand, AtSlash, CommandTurn, cmdlvl, idlvl, IInv, TypeOK
<1>4. /\ Len(command') = n + 1 /\ n \in Nat /\ command'[n + 1] = ptr + 1
      /\ \A k \in 1..n : command'[k] = command[k]
      /\ \A k \in 1..n + 1 : k \in 1..n \/ k = n + 1
  <2> DEFINE a == Append(command, ptr + 1)
  <2>1. /\ Len(a) = n + 1 /\ n \in Nat /\ a[n + 1] = ptr + 1
        /\ \A k \in 1..n : a[k] = command[k]
        /\ \A k \in 1..n + 1 : k \in 1..n \/ k = n + 1
    BY <1>3, AppendedLevel
  <2> HIDE DEF n
  <2> QED
    BY <1>3, <2>1, Zenon
<1>5. c \in Nat
  BY LevelsFinite
<1>6. n + Len(id) = Min2(c, 2 * ApiSize)
  BY DEF CountInv, cmdlvl, idlvl
<1>7. /\ \A k \in 1..n : IsLevel(Levels, command[k], 2 * k - 1)
      /\ \A k \in 1..Len(id) : IsLevel(Levels, id[k], 2 * k)
  BY DEF CountInv, cmdlvl, idlvl
<1> HIDE DEF c, n
<1>8. c = 2 * n /\ (n + 1) + Len(id) = Min2(c + 1, 2 * ApiSize)
  BY <1>3, <1>4, <1>5, <1>6, Constants DEF Min2
<1>9. IsLevel(Levels, ptr + 1, 2 * (n + 1) - 1)
  <2>1. ptr \in Int /\ c = 2 * (n + 1) - 1 - 1
    BY <1>3, <1>4, <1>8, Constants DEF UrlIndex
  <2> QED
    BY <1>2, <2>1, LevelAt DEF c
<1>10. ASSUME NEW k \in 1..n + 1 PROVE IsLevel(Levels', command'[k], 2 * k - 1)
  <2>1. CASE k \in 1..n
    BY <1>2, <1>4, <1>7, <2>1, Zenon
  <2>2. CASE k = n + 1
    BY <1>2, <1>4, <1>9, <2>2, Zenon
  <2> QED
    BY <1>4, <2>1, <2>2
<1>11. \A k \in 1..Len(id') : IsLevel(Levels', id'[k], 2 * k)
  BY <1>2, <1>3, <1>7, Zenon
<1>12. Len(command') + Len(id') = Min2(Cardinality(LevelsBelow(Levels', ptr')), 2 * ApiSize)
  BY <1>2, <1>3, <1>4, <1>8, Zenon
<1> QED
  BY <1>4, <1>10, <1>11, <1>12, Zenon DEF CountInv, cmdlvl, idlvl

LEMMA TakeIdKeepsCount ==
  ASSUME IInv, ScanInv, CountInv, TakeId
  PROVE  CountInv'
<1> DEFINE c == Cardinality(LevelsBelow(Levels, ptr))
           n == Len(id)
<1>1. Round
  BY DEF TakeId, AtSlash, MoreUrl, Advance, Round
<1>2. /\ ptr' = ptr + 1 /\ ptr \in Levels /\ Cardinality(LevelsBelow(Levels', ptr')) = c + 1
      /\ Levels' = Levels
  <2>1. Source[ptr] = "/" /\ ctr > 1
    BY <1>1, RoundKeepsBuffer DEF TakeId, AtSlash, SomethingAfter
  <2> QED
    BY <1>1, <2>1, RoundCounts, Zenon
<1>3. /\ id' = Append(id, ptr + 1) /\ command' = command
      /\ Len(command) > n /\ Len(command) <= n + 1 /\ n < ApiSize /\ Len(command) \in Nat
      /\ id \in Seq(UrlIndex) /\ ptr + 1 \in UrlIndex /\ ptr \in UrlIndex
  BY RoomAhead DEF TakeId, AtSlash, IdTurn, cmdlvl, idlvl, IInv, TypeOK, Alternating
<1>4. /\ Len(id') = n + 1 /\ n \in Nat /\ id'[n + 1] = ptr + 1
      /\ \A k \in 1..n : id'[k] = id[k]
      /\ \A k \in 1..n + 1 : k \in 1..n \/ k = n + 1
  <2> DEFINE a == Append(id, ptr + 1)
  <2>1. /\ Len(a) = n + 1 /\ n \in Nat /\ a[n + 1] = ptr + 1
        /\ \A k \in 1..n : a[k] = id[k]
        /\ \A k \in 1..n + 1 : k \in 1..n \/ k = n + 1
    BY <1>3, AppendedLevel
  <2> HIDE DEF n
  <2> QED
    BY <1>3, <2>1, Zenon
<1>5. c \in Nat
  BY LevelsFinite
<1>6. Len(command) + n = Min2(c, 2 * ApiSize)
  BY DEF CountInv, cmdlvl, idlvl
<1>7. /\ \A k \in 1..Len(command) : IsLevel(Levels, command[k], 2 * k - 1)
      /\ \A k \in 1..n : IsLevel(Levels, id[k], 2 * k)
  BY DEF CountInv, cmdlvl, idlvl
<1> HIDE DEF c, n
<1>8. c = 2 * n + 1 /\ Len(command) + (n + 1) = Min2(c + 1, 2 * ApiSize)
  BY <1>3, <1>4, <1>5, <1>6, Constants DEF Min2
<1>9. IsLevel(Levels, ptr + 1, 2 * (n + 1))
  <2>1. ptr \in Int /\ c = 2 * (n + 1) - 1
    BY <1>3, <1>4, <1>8, Constants DEF UrlIndex
  <2> QED
    BY <1>2, <2>1, LevelAt DEF c
<1>10. ASSUME NEW k \in 1..n + 1 PROVE IsLevel(Levels', id'[k], 2 * k)
  <2>1. CASE k \in 1..n
    BY <1>2, <1>4, <1>7, <2>1, Zenon
  <2>2. CASE k = n + 1
    BY <1>2, <1>4, <1>9, <2>2, Zenon
  <2> QED
    BY <1>4, <2>1, <2>2
<1>11. \A k \in 1..Len(command') : IsLevel(Levels', command'[k], 2 * k - 1)
  BY <1>2, <1>3, <1>7, Zenon
<1>12. Len(command') + Len(id') = Min2(Cardinality(LevelsBelow(Levels', ptr')), 2 * ApiSize)
  BY <1>2, <1>3, <1>4, <1>8, Zenon
<1> QED
  BY <1>4, <1>10, <1>11, <1>12, Zenon DEF CountInv, cmdlvl, idlvl

(* A round that takes no level: none was there, or there is no room.       *)
LEMMA SkipKeepsCount ==
  ASSUME IInv, ScanInv, CountInv, Round, command' = command, id' = id,
         Source[ptr] = "/" /\ ctr > 1 => Len(command) + Len(id) = 2 * ApiSize
  PROVE  CountInv'
<1> DEFINE c == Cardinality(LevelsBelow(Levels, ptr))
           d == Cardinality(LevelsBelow(Levels', ptr'))
<1>1. ptr' = ptr + 1 /\ Levels' = Levels
  BY RoundCounts
<1>2. d = c \/ (d = c + 1 /\ Len(command) + Len(id) = 2 * ApiSize)
  BY RoundCounts, Zenon
<1>3. c \in Nat
  BY LevelsFinite
<1>4. Len(command) + Len(id) = Min2(c, 2 * ApiSize)
  BY DEF CountInv, cmdlvl, idlvl
<1> HIDE DEF c, d
<1>5. Len(command) + Len(id) = Min2(d, 2 * ApiSize)
  BY <1>2, <1>3, <1>4, Constants DEF Min2
<1> QED
  BY <1>1, <1>5, Zenon DEF CountInv, cmdlvl, idlvl, d

LEMMA DropSlashKeepsCount ==
  ASSUME IInv, ScanInv, CountInv, DropSlash
  PROVE  CountInv'
<1>1. Round /\ command' = command /\ id' = id
  BY DEF DropSlash, AtSlash, MoreUrl, Advance, Round
<1>2. ASSUME ctr > 1 PROVE Len(command) + Len(id) = 2 * ApiSize
  <2> DEFINE n == Len(command)
             m == Len(id)
  <2>1. ~(n = m /\ n < ApiSize) /\ ~(n > m /\ m < ApiSize)
    BY <1>2, Zenon DEF DropSlash, SomethingAfter, CommandTurn, IdTurn, cmdlvl, idlvl
  <2>2. n \in Nat /\ m \in Nat /\ m <= n /\ n <= m + 1 /\ n <= ApiSize
    BY DEF IInv, TypeOK, Alternating, cmdlvl, idlvl
  <2>3. ApiSize \in Nat
    BY Constants
  <2> HIDE DEF n, m
  <2>4. n + m = 2 * ApiSize
    BY <2>1, <2>2, <2>3
  <2> QED
    BY <2>4 DEF n, m
<1> QED
  BY <1>1, <1>2, SkipKeepsCount

LEMMA PassByteKeepsCount ==
  ASSUME IInv, ScanInv, CountInv, PassByte
  PROVE  CountInv'
<1>1. Round /\ command' = command /\ id' = id
  BY DEF PassByte, MoreUrl, Advance, Round
<1>2. Source[ptr] # "/"
  BY <1>1, RoundKeepsBuffer DEF PassByte
<1> QED
  BY <1>1, <1>2, SkipKeepsCount

LEMMA InitCount == Init => CountInv
<1> SUFFICES ASSUME Init PROVE CountInv
  OBVIOUS
<1>1. ptr = 0 /\ Len(command) = 0 /\ Len(id) = 0
  BY DEF Init
<1>2. LevelsBelow(Levels, ptr) = {}
  <2>1. \A i \in UrlIndex : ~(i < ptr)
    BY <1>1, Constants DEF UrlIndex
  <2> QED
    BY <2>1, LevelsFinite DEF LevelsBelow
<1>3. Cardinality(LevelsBelow(Levels, ptr)) = 0
  BY <1>2, FS_EmptySet, Zenon
<1>4. Len(command) + Len(id) = Min2(Cardinality(LevelsBelow(Levels, ptr)), 2 * ApiSize)
  BY <1>1, <1>3, Constants DEF Min2
<1>5. 1..Len(command) = {} /\ 1..Len(id) = {}
  BY <1>1
<1> QED
  BY <1>4, <1>5, Zenon DEF CountInv, cmdlvl, idlvl

LEMMA NextCount == IInv /\ ScanInv /\ CountInv /\ [Next]_vars => CountInv'
<1> SUFFICES ASSUME IInv, ScanInv, CountInv, [Next]_vars PROVE CountInv'
  OBVIOUS
<1>1. CASE UNCHANGED <<request, ptr, command, id>>
  <2>1. Levels' = Levels
    BY <1>1, Zenon DEF Levels
  <2> QED
    BY <1>1, <2>1, Zenon DEF CountInv, cmdlvl, idlvl
<1>2. CASE Finish \/ UNCHANGED vars
  BY <1>1, <1>2 DEF Finish, vars
<1> QED
  BY <1>2, TakeCommandKeepsCount, TakeIdKeepsCount, DropSlashKeepsCount,
     PassByteKeepsCount DEF Next

-----------------------------------------------------------------------------
(***************************************************************************)
(* Once the loop has ended, the string behind a level ends where the       *)
(* component of the URL does: up to the place the scan has reached, the    *)
(* buffer has a terminator exactly where the request has a slash or one.   *)
(***************************************************************************)
LevelEnd(i, n) == n >= i /\ buf[n] = NUL /\ \A j \in i..n - 1 : buf[j] # NUL
ComponentEnd(i, n) ==
  /\ n >= i /\ Source[n] \in {"/", NUL}
  /\ \A j \in i..n - 1 : Source[j] \notin {"/", NUL}

LEMMA ScanEnd ==
  ASSUME IInv, ScanInv, done, Levels # {}
  PROVE  /\ ptr \in UrlIndex /\ buf[ptr] = NUL /\ Source[ptr] = NUL
         /\ \A j \in UrlIndex : j <= ptr => (buf[j] = NUL <=> Source[j] \in {"/", NUL})
         /\ \A j \in UrlIndex : j <= ptr /\ Source[j] \notin {"/", NUL} => buf[j] = Source[j]
         /\ \A i \in Levels : i < ptr
<1>1. /\ ptr \in UrlIndex /\ request.len \in UrlIndex /\ ptr \in Int
      /\ Source[ptr] = NUL \/ ptr = request.len
      /\ request.len > 0 => Source[request.len] = NUL
  BY SourceIsBuffer, Constants DEF ScanInv, UrlIndex
<1>2. \A i \in Levels : i \in UrlIndex /\ i < request.len /\ i \in Slashes(Source, request.len)
  BY Zenon DEF Levels, Slashes, Source
<1>3. Source[ptr] = NUL
  <2>1. PICK i \in UrlIndex : i < request.len
    BY <1>2
  <2>2. request.len > 0
    BY <1>1, <2>1, Constants DEF UrlIndex
  <2> QED
    BY <1>1, <2>2
<1>4. \A i \in UrlIndex : buf[i] = IF i < ptr /\ Source[i] = "/" THEN NUL ELSE Source[i]
  BY Zenon DEF ScanInv
<1>5. ~(ptr < ptr)
  BY <1>1
<1>6. buf[ptr] = NUL
  BY <1>1, <1>3, <1>4, <1>5, Zenon
<1>7. \A j \in UrlIndex : j <= ptr => j < ptr \/ j = ptr
  BY <1>1, Constants DEF UrlIndex
<1>8. \A j \in UrlIndex : j <= ptr => (buf[j] = NUL <=> Source[j] \in {"/", NUL})
  BY <1>3, <1>4, <1>6, <1>7, Zenon
<1>9. \A j \in UrlIndex : Source[j] \notin {"/", NUL} => buf[j] = Source[j]
  BY <1>4, Zenon
<1>10. \A i \in Levels : i < ptr
  BY <1>2, PassedSlashes
<1> QED
  BY <1>1, <1>3, <1>6, <1>8, <1>9, <1>10, Zenon

LEMMA SameEnd ==
  ASSUME IInv, ScanInv, done, NEW i \in Int, i - 1 \in Levels
  PROVE  /\ i \in UrlIndex
         /\ \A n \in UrlIndex : LevelEnd(i, n) <=> ComponentEnd(i, n)
         /\ \E n \in UrlIndex : LevelEnd(i, n) /\ n <= ptr
         /\ \A n, m \in UrlIndex : LevelEnd(i, n) /\ LevelEnd(i, m) => n = m
<1>1. /\ ptr \in UrlIndex /\ buf[ptr] = NUL /\ Source[ptr] = NUL
      /\ \A j \in UrlIndex : j <= ptr => (buf[j] = NUL <=> Source[j] \in {"/", NUL})
      /\ i - 1 < ptr /\ i - 1 \in UrlIndex
  BY ScanEnd, LevelsFinite
<1>2. i \in UrlIndex /\ i <= ptr /\ i \in Nat /\ ptr \in Nat
  BY <1>1, Constants DEF UrlIndex
<1>3. \A n \in UrlIndex : \A j \in i..n : j \in UrlIndex
  BY <1>2, Constants DEF UrlIndex
<1>4. ASSUME NEW n \in UrlIndex PROVE LevelEnd(i, n) <=> ComponentEnd(i, n)
  <2>1. CASE n <= ptr
    <3>1. buf[n] = NUL <=> Source[n] \in {"/", NUL}
      BY <1>1, <2>1
    <3>2. \A j \in i..n - 1 : j \in UrlIndex /\ j <= ptr
      BY <1>1, <1>2, <2>1, Constants DEF UrlIndex
    <3>3. \A j \in i..n - 1 : buf[j] = NUL <=> Source[j] \in {"/", NUL}
      BY <1>1, <3>2
    <3> QED
      BY <3>1, <3>3, Zenon DEF LevelEnd, ComponentEnd
  <2>2. CASE ~(n <= ptr)
    <3>1. ptr \in i..n - 1
      BY <1>2, <2>2, Constants DEF UrlIndex
    <3> QED
      BY <1>1, <3>1, Zenon DEF LevelEnd, ComponentEnd
  <2> QED
    BY <2>1, <2>2
<1>5. \E n \in UrlIndex : LevelEnd(i, n) /\ n <= ptr
  <2> DEFINE T == {n \in UrlIndex : n >= i /\ buf[n] = NUL}
  <2>1. T \subseteq Nat /\ ptr \in T
    BY <1>1, <1>2, Constants DEF UrlIndex
  <2>2. PICK n \in T : \A m \in T : n <= m
    BY <2>1, LeastNumber
  <2>3. n \in UrlIndex /\ n <= ptr /\ n >= i /\ buf[n] = NUL
    BY <2>1, <2>2
  <2>4. ASSUME NEW j \in i..n - 1 PROVE buf[j] # NUL
    <3>1. j \in UrlIndex /\ j >= i /\ ~(n <= j)
      BY <1>2, <2>3, Constants DEF UrlIndex
    <3> QED
      BY <2>2, <3>1
  <2> QED
    BY <2>3, <2>4 DEF LevelEnd
<1>6. ASSUME NEW n \in UrlIndex, NEW m \in UrlIndex, LevelEnd(i, n), LevelEnd(i, m)
      PROVE  n = m
  <2>1. ~(n \in i..m - 1) /\ ~(m \in i..n - 1) /\ n >= i /\ m >= i
    BY <1>6 DEF LevelEnd
  <2> QED
    BY <1>2, <2>1, Constants DEF UrlIndex
<1> QED
  BY <1>2, <1>4, <1>5, <1>6

LEMMA LevelIsComponent ==
  ASSUME IInv, ScanInv, done, NEW i \in UrlIndex, NEW k, IsLevel(Levels, i, k)
  PROVE  LevelString(i) = Component(k)
<1>1. i \in Int /\ i - 1 \in Levels /\ NthSlash(k) = i - 1 /\ NthSlash(k) + 1 = i
  <2>1. i \in Int
    BY Constants DEF UrlIndex
  <2>2. NthSlash(k) = i - 1 /\ i - 1 \in Levels
    BY <2>1, LevelIsNth DEF IsLevel
  <2> QED
    BY <2>1, <2>2
<1>2. PICK n \in UrlIndex : LevelEnd(i, n) /\ n <= ptr
  BY <1>1, SameEnd
<1>3. ComponentEnd(i, n)
  BY <1>1, <1>2, SameEnd
<1>4. \A m \in UrlIndex : LevelEnd(i, m) => m = n
  BY <1>1, <1>2, SameEnd
<1>5. \A m \in UrlIndex : ComponentEnd(i, m) => m = n
  BY <1>1, <1>4, SameEnd
<1>6. n = CHOOSE m \in UrlIndex : LevelEnd(i, m)
  BY <1>2, <1>4, Zenon
<1>7. n = CHOOSE m \in UrlIndex : ComponentEnd(i, m)
  BY <1>3, <1>5, Zenon
<1>8. LevelString(i) = [l \in 1..n - i |-> buf[i + l - 1]]
  BY <1>6, Zenon DEF LevelString, LevelEnd
<1>9. Component(k) = [l \in 1..n - i |-> Source[i + l - 1]]
  BY <1>1, <1>7, Zenon DEF Component, ComponentEnd, Source
<1>10. ASSUME NEW l \in 1..n - i PROVE buf[i + l - 1] = Source[i + l - 1]
  <2>1. /\ i + l - 1 \in i..n - 1 /\ i + l - 1 \in UrlIndex /\ i + l - 1 <= ptr
    BY <1>2, Constants DEF UrlIndex, IInv, TypeOK
  <2>2. Source[i + l - 1] \notin {"/", NUL}
    BY <1>3, <2>1, Zenon DEF ComponentEnd
  <2> QED
    BY <1>1, <2>1, <2>2, ScanEnd
<1> QED
  BY <1>8, <1>9, <1>10, Zenon

(* What the callback is handed are the components of the URL, in order:    *)
(* the k-th command is component 2k-1, the k-th id component 2k, none is   *)
(* left out, and only those beyond 2 * ApiSize are dropped.                *)
THEOREM LevelsAreTheUrl == Spec => []LevelsAreComponents
<1>1. ASSUME IInv, ScanInv, CountInv PROVE LevelsAreComponents
  <2>1. SUFFICES ASSUME done PROVE
             /\ cmdlvl + idlvl = Min2(Cardinality(Levels), 2 * ApiSize)
             /\ \A k \in 1..cmdlvl : LevelString(command[k]) = Component(2 * k - 1)
             /\ \A k \in 1..idlvl : LevelString(id[k]) = Component(2 * k)
    BY DEF LevelsAreComponents
  <2>2. LevelsBelow(Levels, ptr) = Levels
    <3>1. \A i \in Levels : i < ptr
      BY <1>1, <2>1, ScanEnd
    <3> QED
      BY <3>1 DEF LevelsBelow
  <2>3. ASSUME NEW k \in 1..cmdlvl PROVE LevelString(command[k]) = Component(2 * k - 1)
    <3>1. command[k] \in UrlIndex
      BY <1>1 DEF IInv, TypeOK, cmdlvl
    <3>2. IsLevel(Levels, command[k], 2 * k - 1)
      BY <1>1, Zenon DEF CountInv
    <3> QED
      BY <1>1, <2>1, <3>1, <3>2, LevelIsComponent
  <2>4. ASSUME NEW k \in 1..idlvl PROVE LevelString(id[k]) = Component(2 * k)
    <3>1. id[k] \in UrlIndex
      BY <1>1 DEF IInv, TypeOK, idlvl
    <3>2. IsLevel(Levels, id[k], 2 * k)
      BY <1>1, Zenon DEF CountInv
    <3> QED
      BY <1>1, <2>1, <3>1, <3>2, LevelIsComponent
  <2>5. cmdlvl + idlvl = Min2(Cardinality(Levels), 2 * ApiSize)
    BY <1>1, <2>2, Zenon DEF CountInv
  <2> QED
    BY <2>3, <2>4, <2>5
<1> QED
  BY <1>1, InitInBounds, NextInBounds, InitScan, NextScan, InitCount, NextCount,
     PTL DEF Spec
=============================================================================
