------------------------- MODULE RequestParserProofs -------------------------
(***************************************************************************)
(* Proofs about RequestParser, for every buffer size, every set of bytes   *)
(* and every way reads may fail.                                           *)
(***************************************************************************)
EXTENDS RequestParser, TLAPS

(***************************************************************************)
(* TypeOK and UrlBufferClean are inductive together: the loop that fills   *)
(* the URL buffer reads the old byte when a read fails, so that the bytes  *)
(* pushed, and the place where the loop stops, depend on what the buffer   *)
(* holds.                                                                  *)
(***************************************************************************)
IInv == TypeOK /\ UrlBufferClean

LEMMA Constants ==
  /\ UrlBufferSize \in Nat /\ UrlBufferSize >= 2
  /\ MethodSize \in Nat /\ MethodSize >= 2
  /\ VersionSize \in Nat /\ VersionSize >= 2
  /\ NameSize \in Nat /\ NameSize >= 2
  /\ ValueSize \in Nat /\ ValueSize >= 2
  /\ MaxInput \in Nat
  /\ NUL \in Bytes /\ NUL \notin Blank /\ NUL # "?"
  /\ 0 \in UrlIndex /\ UrlBufferSize - 1 \in UrlIndex
  /\ Garbage \subseteq Bytes /\ ClientBytes \subseteq Bytes
BY UrlBufferAssumption, ParserAssumption DEF UrlIndex, Bytes, Blank, Space

(* What a call of _attoHTTPReadC keeps typed.                              *)
LEMMA ReadTyped ==
  ASSUME TypeOK, NEW stale \in Bytes \cup {None}, NEW ret \in Rets, NEW c,
         ReadC(stale, ret, c)
  PROVE  /\ c \in Bytes
         /\ got' \in 0..MaxInput
         /\ last' \in ClientBytes \cup {None}
         /\ newlines' \in 0..2
         /\ erred' \in BOOLEAN
<1> USE Constants
<1>1. CASE extra # None
  BY <1>1 DEF ReadC, TypeOK
<1>2. CASE extra = None
  <2>1. c \in Bytes /\ got' \in 0..MaxInput /\ last' \in ClientBytes \cup {None}
        /\ newlines' \in 0..2
    BY <1>2 DEF ReadC, GetByte, TypeOK
  <2>2. erred' = erred \/ erred' = (erred \/ ret = -1)
    BY <1>2 DEF ReadC, GetByte
  <2>3. erred \in BOOLEAN
    BY DEF TypeOK
  <2>4. (erred \/ ret = -1) \in BOOLEAN
    OBVIOUS
  <2> QED
    BY <2>1, <2>2, <2>3, <2>4, Zenon
<1> QED
  BY <1>1, <1>2

(* A read after which no read of the request has failed with -1.           *)
LEMMA ReadWithoutError ==
  ASSUME NEW stale, NEW ret \in Rets, NEW c, ReadC(stale, ret, c), ~erred'
  PROVE  ~erred /\ ret \in {0, 1}
<1>1. ret \in {1, 0, -1}
  BY ParserAssumption DEF Rets
<1>2. CASE extra # None
  BY <1>2 DEF ReadC
<1>3. CASE extra = None
  <2>1. GetByte(stale, ret, c)
    BY <1>3 DEF ReadC
  <2>2. CASE ret = 1
    <3>1. ret \notin Fails
      BY <2>2, ParserAssumption
    <3>2. UNCHANGED erred
      BY <2>1, <3>1 DEF GetByte
    <3> QED
      BY <2>2, <3>2
  <2>3. CASE ret # 1
    <3>1. erred' = (erred \/ ret = -1)
      BY <2>1, <2>3 DEF GetByte
    <3> QED
      BY <1>1, <3>1
  <2> QED
    BY <2>2, <2>3
<1> QED
  BY <1>2, <1>3

LEMMA PushTyped ==
  ASSUME NEW c \in Bytes, Push(c)
  PROVE  extra' \in (Bytes \ {NUL}) \cup {None}
BY DEF Push

(* _attoHTTPParseSpace, wherever it is called from.                        *)
LEMMA SpaceTyped ==
  ASSUME TypeOK, NEW ret \in Rets, NEW c, NEW ok, NEW bad,
         ParseSpace(ret, c, ok, bad)
  PROVE  /\ c \in Bytes
         /\ got' \in 0..MaxInput
         /\ last' \in ClientBytes \cup {None}
         /\ newlines' \in 0..2
         /\ erred' \in BOOLEAN
         /\ phantom' \in BOOLEAN
         /\ extra' \in (Bytes \ {NUL}) \cup {None}
         /\ cur' \in Bytes \cup {None}
         /\ pc' \in {pc, ok, bad}
<1>1. cur \in Bytes \cup {None} /\ ReadC(cur, ret, c)
  BY DEF TypeOK, ParseSpace
<1>2. /\ c \in Bytes
      /\ got' \in 0..MaxInput
      /\ last' \in ClientBytes \cup {None}
      /\ newlines' \in 0..2
      /\ erred' \in BOOLEAN
  BY <1>1, ReadTyped
<1>3. phantom' \in BOOLEAN
  BY DEF ParseSpace
<1>4. extra' \in (Bytes \ {NUL}) \cup {None}
  BY <1>2, PushTyped DEF ParseSpace, NoPush
<1>5. cur' \in Bytes \cup {None} /\ pc' \in {pc, ok, bad}
  BY <1>2 DEF ParseSpace
<1> QED
  BY <1>2, <1>3, <1>4, <1>5

LEMMA MethodSpaceStep == ASSUME IInv, MethodSpace PROVE IInv'
<1>1. PICK ret \in Rets, c \in Bytes :
        /\ ParseSpace(ret, c, "method", "done")
        /\ outcome' = IF pc' = "done" THEN "500" ELSE outcome
  BY DEF MethodSpace
<1>2. TypeOK
  BY DEF IInv
<1> QED
  BY <1>1, <1>2, SpaceTyped DEF MethodSpace, IInv, TypeOK, UrlBufferClean

LEMMA ParseMethodStep == ASSUME IInv, ParseMethod PROVE IInv'
<1> USE Constants
<1> DEFINE Grown(c) == IF c \in Blank THEN mtok ELSE Append(mtok, c)
           Again(ret, c) == /\ c \notin Blank /\ ret > 0
                            /\ Room(Len(Grown(c)), MethodSize)
           Known(c) == Before(Grown(c), NUL) \in Supported
<1>1. PICK ret \in Rets, c \in Bytes :
        /\ ReadC(None, ret, c)
        /\ phantom' = (phantom \/ ret # 1)
        /\ mtok' = IF Again(ret, c) THEN Grown(c) ELSE <<>>
        /\ pc' = IF Again(ret, c) THEN pc ELSE IF Known(c) THEN "uspace" ELSE "done"
        /\ outcome' = IF Again(ret, c) \/ Known(c) THEN outcome ELSE "501"
  BY DEF ParseMethod
<1>2. TypeOK
  BY DEF IInv
<1>3. /\ got' \in 0..MaxInput
      /\ last' \in ClientBytes \cup {None}
      /\ newlines' \in 0..2
      /\ erred' \in BOOLEAN
  BY <1>1, <1>2, ReadTyped
<1>4. mtok' \in Seq(Bytes) /\ Len(mtok') < MethodSize - 1
  BY <1>1, <1>2 DEF TypeOK, Room
<1>5. phantom' \in BOOLEAN /\ outcome' \in {"parsing", "500", "501"}
      /\ pc' \in {"method", "uspace", "done"}
  BY <1>1, <1>2 DEF TypeOK, ParseMethod
<1>6. extra' = None
  BY DEF ParseMethod, NoPush
<1> HIDE DEF Grown, Again, Known
<1> QED
  BY <1>2, <1>3, <1>4, <1>5, <1>6 DEF ParseMethod, IInv, TypeOK, UrlBufferClean

LEMMA URLSpaceStep == ASSUME IInv, URLSpace PROVE IInv'
<1>1. PICK ret \in Rets, c \in Bytes :
        /\ ParseSpace(ret, c, "url", "vspace")
        /\ urlLen' = IF pc' = "url" THEN 0 ELSE urlLen
        /\ token' = IF pc' = "url" THEN <<c>> ELSE token
  BY DEF URLSpace
<1>2. TypeOK /\ pc = "uspace"
  BY DEF IInv, URLSpace
<1>3. token' \in Seq(Bytes)
  BY <1>1, <1>2 DEF TypeOK
<1>4. urlLen' \in UrlIndex /\ (pc' = "url" => urlLen' < UrlBufferSize - 1)
  <2>1. urlLen \in UrlIndex
    BY <1>2 DEF TypeOK
  <2>2. 0 \in UrlIndex /\ 0 < UrlBufferSize - 1
    BY Constants
  <2>3. CASE pc' = "url"
    BY <1>1, <2>2, <2>3
  <2>4. CASE pc' # "url"
    BY <1>1, <2>1, <2>4
  <2> QED
    BY <2>3, <2>4
<1> QED
  BY <1>1, <1>2, <1>3, <1>4, SpaceTyped DEF URLSpace, IInv, TypeOK, UrlBufferClean

LEMMA SkipURLStep == ASSUME IInv, SkipURL PROVE IInv'
<1> USE Constants
<1>1. PICK ret \in Rets, c \in Bytes :
        /\ ReadC(cur, ret, c)
        /\ phantom' = (phantom \/ ret # 1)
        /\ cutUrl' = (cutUrl \/ ret # 1)
        /\ \/ NoPush /\ cur' = c /\ UNCHANGED <<pc, url>>
           \/ /\ Push(c) /\ cur' = None /\ pc' = "vspace"
              /\ url' = [url EXCEPT ![urlLen] = NUL]
  BY DEF SkipURL
<1>2. TypeOK /\ cur \in Bytes \cup {None}
  BY DEF IInv, TypeOK
<1>3. /\ got' \in 0..MaxInput
      /\ last' \in ClientBytes \cup {None}
      /\ newlines' \in 0..2
      /\ erred' \in BOOLEAN
  BY <1>1, <1>2, ReadTyped
<1>4. /\ url' \in [UrlIndex -> Bytes]
      /\ url'[UrlBufferSize - 1] = NUL
      /\ \A i \in UrlIndex : url'[i] \notin Blank \cup {"?"}
  BY <1>1, <1>2 DEF IInv, TypeOK, UrlBufferClean
<1>5. extra' \in (Bytes \ {NUL}) \cup {None}
  BY <1>1, PushTyped DEF NoPush
<1>6. phantom' \in BOOLEAN /\ cutUrl' \in BOOLEAN /\ cur' \in Bytes \cup {None}
      /\ pc' \in {"urlskip", "vspace"}
  BY <1>1 DEF SkipURL
<1> QED
  BY <1>2, <1>3, <1>4, <1>5, <1>6 DEF SkipURL, IInv, TypeOK, UrlBufferClean

LEMMA VersionSpaceStep == ASSUME IInv, VersionSpace PROVE IInv'
<1>1. PICK ret \in Rets, c \in Bytes : ParseSpace(ret, c, "version", "veol")
  BY DEF VersionSpace
<1>2. TypeOK /\ pc = "vspace" /\ ptr = 0
  BY DEF IInv, TypeOK, VersionSpace
<1>3. token' \in Seq(Bytes)
  <2>1. token' = <<>>
    BY DEF VersionSpace
  <2> QED
    BY <2>1
<1>4. cutUrl' \in BOOLEAN /\ oldUrl' \in [UrlIndex -> Bytes]
  <2>1. url \in [UrlIndex -> Bytes]
    BY <1>2 DEF TypeOK
  <2> QED
    BY <2>1 DEF VersionSpace
<1> QED
  BY <1>1, <1>2, <1>3, <1>4, SpaceTyped, Constants
  DEF VersionSpace, IInv, TypeOK, UrlBufferClean

LEMMA HeaderSpaceStep == ASSUME IInv, HeaderSpace PROVE IInv'
<1>1. PICK ret \in Rets, c \in Bytes : ParseSpace(ret, c, "hvalue", "hvalue")
  BY DEF HeaderSpace
<1>2. TypeOK /\ pc = "hspace" /\ ptr = 0
  BY DEF IInv, TypeOK, HeaderSpace
<1> QED
  BY <1>1, <1>2, SpaceTyped, Constants
  DEF HeaderSpace, IInv, TypeOK, UrlBufferClean

(***************************************************************************)
(* The loop over the URL.  Every index it uses is below UrlBufferSize, and *)
(* what it leaves in the buffer is no blank: a blank ends the loop and is  *)
(* overwritten by the terminator, and an old byte is never one.            *)
(***************************************************************************)
LEMMA ParseURLStep == ASSUME IInv, ParseURL PROVE IInv'
<1> USE Constants
<1> DEFINE buf(c) == IF c \in Blank THEN url ELSE [url EXCEPT ![urlLen] = UrlByte(c)]
           len(c) == IF c \in Blank THEN urlLen ELSE urlLen + 1
           next(c) == IF c \in Blank THEN c ELSE buf(c)[len(c)]
           again(ret, c) == ~(c \in Blank) /\ ret # 0 /\ Room(len(c), UrlBufferSize)
           skip(ret, c) == ~again(ret, c) /\ ret # 0 /\ next(c) \notin Blank
<1>1. PICK ret \in Rets, c \in Bytes :
        /\ ReadC(url[urlLen], ret, c)
        /\ phantom' = (phantom \/ ret # 1)
        /\ cutUrl' = (cutUrl \/ ret # 1)
        /\ token' = IF Fresh(ret) /\ c \notin Blank THEN Append(token, c) ELSE token
        /\ urlLen' = len(c)
        /\ IF again(ret, c) \/ skip(ret, c)
           THEN NoPush /\ url' = buf(c)
           ELSE Push(next(c)) /\ url' = [buf(c) EXCEPT ![len(c)] = NUL]
        /\ cur' = IF skip(ret, c) THEN next(c) ELSE cur
        /\ pc' = IF again(ret, c) THEN pc
                 ELSE IF skip(ret, c) THEN "urlskip" ELSE "vspace"
  BY DEF ParseURL
<1>2. /\ TypeOK /\ pc = "url"
      /\ url \in [UrlIndex -> Bytes] /\ urlLen \in UrlIndex
      /\ urlLen < UrlBufferSize - 1
      /\ cur \in Bytes \cup {None} /\ token \in Seq(Bytes)
  BY DEF IInv, TypeOK, ParseURL
<1>3. url[urlLen] \in Bytes \cup {None}
  BY <1>2
<1>4. /\ got' \in 0..MaxInput
      /\ last' \in ClientBytes \cup {None}
      /\ newlines' \in 0..2
      /\ erred' \in BOOLEAN
  BY <1>1, <1>2, <1>3, ReadTyped
<1>5. /\ url[UrlBufferSize - 1] = NUL
      /\ \A i \in UrlIndex : url[i] \notin Blank \cup {"?"}
  BY DEF IInv, UrlBufferClean
<1>6. len(c) \in UrlIndex
  BY <1>2 DEF UrlIndex
<1>7. UrlByte(c) \in Bytes /\ UrlByte(c) # "?" /\ (c \notin Blank => UrlByte(c) \notin Blank)
  BY DEF UrlByte
<1>8. /\ buf(c) \in [UrlIndex -> Bytes]
      /\ buf(c)[UrlBufferSize - 1] = NUL
      /\ \A i \in UrlIndex : buf(c)[i] \notin Blank \cup {"?"}
  BY <1>2, <1>5, <1>7
<1>9. next(c) \in Bytes
  BY <1>6, <1>8
<1>10. again(ret, c) => len(c) < UrlBufferSize - 1
  BY DEF Room
<1> HIDE DEF buf, len, next, again, skip
<1>11. /\ url' \in [UrlIndex -> Bytes]
       /\ url'[UrlBufferSize - 1] = NUL
       /\ \A i \in UrlIndex : url'[i] \notin Blank \cup {"?"}
  BY <1>1, <1>6, <1>8
<1>12. extra' \in (Bytes \ {NUL}) \cup {None}
  BY <1>1, <1>9, PushTyped DEF NoPush
<1>13. phantom' \in BOOLEAN /\ cutUrl' \in BOOLEAN
  BY <1>1
<1>14. cur' \in Bytes \cup {None} /\ token' \in Seq(Bytes)
  BY <1>1, <1>2, <1>9
<1>15. /\ urlLen' \in UrlIndex /\ pc' \in {"url", "urlskip", "vspace"}
       /\ pc' = "url" => urlLen' < UrlBufferSize - 1
  BY <1>1, <1>2, <1>6, <1>10
<1> QED
  BY <1>2, <1>4, <1>11, <1>12, <1>13, <1>14, <1>15
  DEF ParseURL, IInv, TypeOK, UrlBufferClean

LEMMA ParseVersionStep == ASSUME IInv, ParseVersion PROVE IInv'
<1> USE Constants
<1> DEFINE p(c) == IF c \in Space THEN ptr ELSE ptr + 1
           again(ret, c) == ~(c \in Space) /\ ret # 0 /\ Room(p(c), VersionSize)
<1>1. PICK ret \in Rets, c \in Bytes, g \in Garbage :
        /\ ReadC(None, ret, c)
        /\ IF again(ret, c) THEN NoPush ELSE Push(IF c \in Space THEN c ELSE g)
        /\ ptr' = IF again(ret, c) THEN p(c) ELSE 0
        /\ pc' = IF again(ret, c) THEN pc ELSE "veol"
        /\ phantom' = (phantom \/ ret # 1 \/ ~(c \in Space \/ again(ret, c)))
  BY DEF ParseVersion
<1>2. TypeOK /\ pc = "version" /\ ptr \in Nat
  BY DEF IInv, TypeOK, ParseVersion
<1>3. /\ got' \in 0..MaxInput
      /\ last' \in ClientBytes \cup {None}
      /\ newlines' \in 0..2
      /\ erred' \in BOOLEAN
  BY <1>1, <1>2, ReadTyped
<1>4. /\ ptr' \in Nat /\ pc' \in {"version", "veol"}
      /\ pc' = "version" => ptr' < VersionSize - 1
      /\ pc' # "version" => ptr' = 0
  BY <1>1, <1>2 DEF Room
<1> HIDE DEF p, again
<1>5. extra' \in (Bytes \ {NUL}) \cup {None}
  <2>1. (IF c \in Space THEN c ELSE g) \in Bytes
    BY <1>1
  <2> QED
    BY <1>1, <2>1, PushTyped DEF NoPush
<1>6. phantom' \in BOOLEAN
  BY <1>1
<1> QED
  BY <1>2, <1>3, <1>4, <1>5, <1>6 DEF ParseVersion, IInv, TypeOK, UrlBufferClean

LEMMA HeaderNameStep == ASSUME IInv, HeaderName PROVE IInv'
<1> USE Constants
<1> DEFINE p(c) == IF c = ":" THEN ptr ELSE ptr + 1
           again(ret, c) == c # ":" /\ ret > 0 /\ Room(p(c), NameSize)
<1>1. PICK ret \in Rets, c \in Bytes :
        /\ ReadC(None, ret, c)
        /\ phantom' = (phantom \/ ret # 1)
        /\ ptr' = IF again(ret, c) THEN p(c) ELSE 0
        /\ pc' = IF again(ret, c) THEN pc ELSE "hspace"
  BY DEF HeaderName
<1>2. TypeOK /\ pc = "hname" /\ ptr \in Nat
  BY DEF IInv, TypeOK, HeaderName
<1>3. /\ got' \in 0..MaxInput
      /\ last' \in ClientBytes \cup {None}
      /\ newlines' \in 0..2
      /\ erred' \in BOOLEAN
  BY <1>1, <1>2, ReadTyped
<1>4. /\ ptr' \in Nat /\ pc' \in {"hname", "hspace"}
      /\ pc' = "hname" => ptr' < NameSize - 1
      /\ pc' # "hname" => ptr' = 0
  BY <1>1, <1>2 DEF Room
<1> HIDE DEF p, again
<1>5. extra' = None /\ phantom' \in BOOLEAN
  BY <1>1 DEF HeaderName, NoPush
<1> QED
  BY <1>2, <1>3, <1>4, <1>5 DEF HeaderName, IInv, TypeOK, UrlBufferClean

LEMMA HeaderValueStep == ASSUME IInv, HeaderValue PROVE IInv'
<1> USE Constants
<1> DEFINE stop(c) == c \in {"\r", "\n"}
           p(c) == IF stop(c) THEN ptr ELSE ptr + 1
           again(ret, c) == ~stop(c) /\ ret > 0 /\ Room(p(c), ValueSize)
<1>1. PICK ret \in Rets, c \in Bytes, g \in Garbage :
        /\ ReadC(None, ret, c)
        /\ phantom' = (phantom \/ ret # 1)
        /\ IF again(ret, c) \/ ~Room(p(c), ValueSize) THEN NoPush
           ELSE Push(IF stop(c) THEN c ELSE g)
        /\ ptr' = IF again(ret, c) THEN p(c) ELSE 0
        /\ pc' = IF again(ret, c) THEN pc ELSE "heol"
  BY DEF HeaderValue
<1>2. TypeOK /\ pc = "hvalue" /\ ptr \in Nat
  BY DEF IInv, TypeOK, HeaderValue
<1>3. /\ got' \in 0..MaxInput
      /\ last' \in ClientBytes \cup {None}
      /\ newlines' \in 0..2
      /\ erred' \in BOOLEAN
  BY <1>1, <1>2, ReadTyped
<1>4. /\ ptr' \in Nat /\ pc' \in {"hvalue", "heol"}
      /\ pc' = "hvalue" => ptr' < ValueSize - 1
      /\ pc' # "hvalue" => ptr' = 0
  BY <1>1, <1>2 DEF Room
<1> HIDE DEF stop, p, again
<1>5. extra' \in (Bytes \ {NUL}) \cup {None}
  <2>1. (IF stop(c) THEN c ELSE g) \in Bytes
    BY <1>1
  <2> QED
    BY <1>1, <2>1, PushTyped DEF NoPush
<1>6. phantom' \in BOOLEAN
  BY <1>1
<1> QED
  BY <1>2, <1>3, <1>4, <1>5, <1>6 DEF HeaderValue, IInv, TypeOK, UrlBufferClean

LEMMA ParseEOLStep == ASSUME IInv, ParseEOL PROVE IInv'
<1> USE Constants
<1> DEFINE n(c) == IF c = "\n" THEN eolCount + 1 ELSE eolCount
           again(ret, c) == (c \in Space \/ n(c) = 0) /\ More8(ret) /\ n(c) < 2
           stop(ret, c) == BlankLine(n(c)) \/ (pc = "heol" /\ ret <= 0)
<1>1. PICK ret \in Rets, c \in Bytes :
        /\ ReadC(cur, ret, c)
        /\ phantom' = (phantom \/ ret # 1)
        /\ IF again(ret, c) THEN NoPush ELSE Push(c)
        /\ cur' = IF again(ret, c) THEN c ELSE None
        /\ eolCount' = IF again(ret, c) THEN n(c) ELSE 0
        /\ headersDone' = (headersDone \/ (~again(ret, c) /\ BlankLine(n(c))))
        /\ pc' = IF again(ret, c) THEN pc ELSE IF stop(ret, c) THEN "done" ELSE "hname"
  BY DEF ParseEOL
<1>2. /\ TypeOK /\ pc \in {"veol", "heol"} /\ cur \in Bytes \cup {None}
      /\ eolCount \in 0..1 /\ ptr = 0
  BY DEF IInv, TypeOK, ParseEOL
<1>3. /\ got' \in 0..MaxInput
      /\ last' \in ClientBytes \cup {None}
      /\ newlines' \in 0..2
      /\ erred' \in BOOLEAN
  BY <1>1, <1>2, ReadTyped
<1>4. eolCount' \in 0..1
  BY <1>1, <1>2
<1> HIDE DEF n, again, stop
<1>5. extra' \in (Bytes \ {NUL}) \cup {None}
  BY <1>1, PushTyped DEF NoPush
<1>6. /\ phantom' \in BOOLEAN /\ headersDone' \in BOOLEAN
      /\ cur' \in Bytes \cup {None} /\ pc' \in {"veol", "heol", "done", "hname"}
  BY <1>1, <1>2
<1>7. 0 < NameSize - 1
  OBVIOUS
<1> QED
  BY <1>2, <1>3, <1>4, <1>5, <1>6, <1>7 DEF ParseEOL, IInv, TypeOK, UrlBufferClean

LEMMA ExecuteStep == ASSUME IInv, Execute PROVE IInv'
<1>1. TypeOK /\ ptr = 0
  BY DEF IInv, TypeOK, Execute
<1>2. token' \in Seq(Bytes)
  <2>1. token' = <<>>
    BY DEF Execute
  <2> QED
    BY <2>1
<1>3. /\ pc' = "mspace" /\ extra' = None /\ cur' = None /\ urlLen' = 0
      /\ outcome' = "parsing" /\ got' = 0 /\ last' = None /\ newlines' = 0
      /\ oldUrl' = url /\ UNCHANGED <<url, ptr, mtok, eolCount>>
  BY DEF Execute, InitRun
<1>4. /\ headersDone' \in BOOLEAN /\ phantom' \in BOOLEAN
      /\ cutUrl' \in BOOLEAN /\ erred' \in BOOLEAN
  BY DEF Execute, InitRun
<1>5. got' \in 0..MaxInput /\ newlines' \in 0..2 /\ urlLen' \in UrlIndex
  BY <1>3, Constants
<1>6. TypeOK'
  BY <1>1, <1>2, <1>3, <1>4, <1>5 DEF TypeOK
<1>7. UrlBufferClean'
  BY <1>3 DEF IInv, UrlBufferClean
<1> QED
  BY <1>6, <1>7 DEF IInv

(* Splitting a URL at its slashes only adds terminators.                   *)
LEMMA SplitTyped ==
  ASSUME NEW b \in [UrlIndex -> Bytes], NEW len,
         b[UrlBufferSize - 1] = NUL,
         \A i \in UrlIndex : b[i] \notin Blank \cup {"?"}
  PROVE  /\ Split(b, len) \in [UrlIndex -> Bytes]
         /\ Split(b, len)[UrlBufferSize - 1] = NUL
         /\ \A i \in UrlIndex : Split(b, len)[i] \notin Blank \cup {"?"}
BY Constants DEF Split

LEMMA DispatchStep == ASSUME IInv, Dispatch PROVE IInv'
<1>1. /\ TypeOK /\ ptr = 0 /\ pc' = "closed"
      /\ url \in [UrlIndex -> Bytes] /\ url[UrlBufferSize - 1] = NUL
      /\ \A i \in UrlIndex : url[i] \notin Blank \cup {"?"}
  BY DEF IInv, TypeOK, UrlBufferClean, Dispatch
<1>2. url' = url \/ url' = Split(url, urlLen)
  BY DEF Dispatch
<1>3. /\ url' \in [UrlIndex -> Bytes] /\ url'[UrlBufferSize - 1] = NUL
      /\ \A i \in UrlIndex : url'[i] \notin Blank \cup {"?"}
  BY <1>1, <1>2, SplitTyped
<1>4. UNCHANGED <<extra, cur, ptr, mtok, urlLen, eolCount, headersDone, outcome,
                  got, oldUrl, token, cutUrl, last, newlines,
                  erred, phantom>>
  BY DEF Dispatch, history
<1> QED
  BY <1>1, <1>3, <1>4 DEF IInv, TypeOK, UrlBufferClean

LEMMA InitTyped == Init => IInv
<1> SUFFICES ASSUME Init PROVE IInv
  OBVIOUS
<1>1. token \in Seq(Bytes) /\ mtok \in Seq(Bytes) /\ Len(mtok) = 0
  <2>1. token = <<>> /\ mtok = <<>>
    BY DEF Init
  <2> QED
    BY <2>1
<1>2. url \in [UrlIndex -> Bytes] /\ \A i \in UrlIndex : url[i] = NUL
  BY Constants DEF Init
<1>3. /\ pc = "closed" /\ extra = None /\ cur = None /\ ptr = 0 /\ eolCount = 0
      /\ urlLen = 0 /\ headersDone = FALSE /\ outcome = "parsing" /\ got = 0
      /\ oldUrl = url /\ cutUrl = FALSE /\ last = None /\ newlines = 0
      /\ erred = FALSE /\ phantom = FALSE
  BY DEF Init
<1>4. TypeOK
  <2>1. got \in 0..MaxInput /\ eolCount \in 0..1 /\ newlines \in 0..2
        /\ urlLen \in UrlIndex /\ ptr \in Nat
    BY <1>3, Constants
  <2>2. Len(mtok) < MethodSize - 1
    BY <1>1, Constants
  <2>3. pc = "closed" /\ extra = None /\ cur = None /\ outcome = "parsing"
        /\ last = None /\ ptr = 0 /\ oldUrl = url
    BY <1>3
  <2>4. /\ headersDone \in BOOLEAN /\ cutUrl \in BOOLEAN
          /\ erred \in BOOLEAN /\ phantom \in BOOLEAN
    BY <1>3
  <2>5. /\ pc \in {"closed"} /\ pc # "url"
        /\ pc # "version" /\ pc # "hname" /\ pc # "hvalue"
    BY <2>3
  <2> QED
    BY <1>1, <1>2, <2>1, <2>2, <2>3, <2>4, <2>5, Zenon DEF TypeOK
<1>5. UrlBufferClean
  BY <1>2, Constants DEF UrlBufferClean
<1> QED
  BY <1>4, <1>5 DEF IInv

LEMMA NextTyped == IInv /\ [Next]_vars => IInv'
<1> SUFFICES ASSUME IInv, [Next]_vars PROVE IInv'
  OBVIOUS
<1>1. CASE Execute
  BY <1>1, ExecuteStep
<1>2. CASE Parse
  BY <1>2, MethodSpaceStep, ParseMethodStep, URLSpaceStep, ParseURLStep,
     SkipURLStep, VersionSpaceStep, ParseVersionStep, ParseEOLStep,
     HeaderNameStep, HeaderSpaceStep, HeaderValueStep
  DEF Parse
<1>3. CASE Dispatch
  BY <1>3, DispatchStep
<1>4. CASE UNCHANGED vars
  BY <1>4 DEF vars, pvars, history, IInv, TypeOK, UrlBufferClean
<1> QED
  BY <1>1, <1>2, <1>3, <1>4 DEF Next

(* No loop of the parser writes outside its buffer, whatever the client    *)
(* sends and whenever a read fails, and the URL buffer that every request  *)
(* inherits from the one before it is terminated and free of blanks.       *)
THEOREM ParserInBounds == Spec => [](TypeOK /\ UrlBufferClean)
<1>1. IInv => TypeOK /\ UrlBufferClean
  BY DEF IInv
<1> QED
  BY <1>1, InitTyped, NextTyped, PTL DEF Spec

(* The bounds alone: every index into the parser's buffers is one the code *)
(* may write its byte, or the terminator, at.                              *)
THEOREM ParserTypes == Spec => []TypeOK
<1>1. IInv => TypeOK
  BY DEF IInv
<1> QED
  BY <1>1, InitTyped, NextTyped, PTL DEF Spec

-----------------------------------------------------------------------------
(***************************************************************************)
(* Where the head of a request ends.  A line break the parser counts may   *)
(* have been received earlier and pushed back, and the count begins anew   *)
(* with every line, so the count says something about what was received    *)
(* only together with these facts: a byte that is pushed back is the last  *)
(* one received, one line break counted is one received since the last     *)
(* byte that is no space, and nothing is pushed back while one is counted. *)
(***************************************************************************)
PushedIsLast == extra # None /\ ~phantom => extra = last
LineCounted ==
  /\ last = "\n" => newlines >= 1
  /\ eolCount = 1 => pc \in {"veol", "heol"} /\ extra = None
  /\ eolCount = 1 /\ ~phantom => newlines >= 1
HeadInv ==
  /\ PushedIsLast
  /\ LineCounted
  /\ headersDone => pc \in {"done", "closed"}
  /\ HeadEndsAtBlankLine

(* What a read that was asked for by the running loop leaves.              *)
LEMMA ReadLast ==
  ASSUME IInv, HeadInv, NEW stale \in Bytes \cup {None}, NEW ret \in Rets, NEW c,
         ReadC(stale, ret, c)
  PROVE  /\ last' = "\n" => newlines' >= 1
         /\ ret = 1 /\ ~phantom => c = last'
         /\ ret = 1 /\ ~phantom /\ c = "\n" =>
              newlines' >= 1 /\ (extra = None /\ newlines >= 1 => newlines' = 2)
         /\ c \in Space /\ newlines >= 1 => newlines' >= 1
<1>1. newlines \in 0..2
  BY DEF IInv, TypeOK
<1>2. CASE extra # None
  BY <1>1, <1>2 DEF ReadC, HeadInv, PushedIsLast, LineCounted
<1>3. CASE extra = None
  <2>1. CASE ret = 1 /\ c \in ClientBytes
    BY <1>1, <1>3, <2>1, ParserAssumption DEF ReadC, GetByte, HeadInv, LineCounted, Space
  <2>2. CASE ~(ret = 1 /\ c \in ClientBytes)
    BY <1>1, <1>3, <2>2, ParserAssumption DEF ReadC, GetByte, HeadInv, LineCounted, Space
  <2> QED
    BY <2>1, <2>2
<1> QED
  BY <1>2, <1>3

(* A byte that was received is pushed back, or none is.                    *)
LEMMA ReadPushed ==
  ASSUME IInv, HeadInv, NEW stale \in Bytes \cup {None}, NEW ret \in Rets,
         NEW c \in Bytes, ReadC(stale, ret, c), phantom' = (phantom \/ ret # 1),
         Push(c) \/ NoPush
  PROVE  PushedIsLast'
<1>1. ret = 1 /\ ~phantom => c = last'
  BY ReadLast
<1> QED
  BY <1>1 DEF PushedIsLast, Push, NoPush

(* Every loop but that of _attoHTTPParseEOL.                               *)
LEMMA OtherLoopKeepsHead ==
  ASSUME IInv, HeadInv, NEW stale \in Bytes \cup {None}, NEW ret \in Rets,
         NEW c \in Bytes, ReadC(stale, ret, c), PushedIsLast',
         UNCHANGED <<eolCount, headersDone>>,
         pc \notin {"veol", "heol", "done", "closed"}
  PROVE  HeadInv'
<1>1. last' = "\n" => newlines' >= 1
  BY ReadLast
<1>2. eolCount # 1 /\ ~headersDone
  BY DEF HeadInv, LineCounted
<1> QED
  BY <1>1, <1>2 DEF HeadInv, LineCounted, HeadEndsAtBlankLine

LEMMA SpaceKeepsHead ==
  ASSUME IInv, HeadInv, NEW ret \in Rets, NEW c \in Bytes, NEW ok, NEW bad,
         ParseSpace(ret, c, ok, bad), UNCHANGED <<eolCount, headersDone>>,
         pc \notin {"veol", "heol", "done", "closed"}
  PROVE  HeadInv'
<1>1. cur \in Bytes \cup {None} /\ ReadC(cur, ret, c)
      /\ phantom' = (phantom \/ ret # 1) /\ (Push(c) \/ NoPush)
  BY DEF IInv, TypeOK, ParseSpace
<1> QED
  BY <1>1, ReadPushed, OtherLoopKeepsHead

LEMMA ParseMethodKeepsHead == ASSUME IInv, HeadInv, ParseMethod PROVE HeadInv'
<1>1. PICK ret \in Rets, c \in Bytes :
        ReadC(None, ret, c) /\ phantom' = (phantom \/ ret # 1)
  BY Zenon DEF ParseMethod
<1>2. NoPush /\ UNCHANGED <<eolCount, headersDone>> /\ pc = "method"
  BY DEF ParseMethod
<1> QED
  BY <1>1, <1>2, ReadPushed, OtherLoopKeepsHead

(* The byte behind the URL that is pushed back is the blank that ended it: *)
(* the URL buffer, which is looked at too, holds none.                     *)
LEMMA ParseURLKeepsHead == ASSUME IInv, HeadInv, ParseURL PROVE HeadInv'
<1> DEFINE buf(c) == IF c \in Blank THEN url ELSE [url EXCEPT ![urlLen] = UrlByte(c)]
           len(c) == IF c \in Blank THEN urlLen ELSE urlLen + 1
           next(c) == IF c \in Blank THEN c ELSE buf(c)[len(c)]
           again(ret, c) == ~(c \in Blank) /\ ret # 0 /\ Room(len(c), UrlBufferSize)
           skip(ret, c) == ~again(ret, c) /\ ret # 0 /\ next(c) \notin Blank
<1>1. PICK ret \in Rets, c \in Bytes :
        /\ ReadC(url[urlLen], ret, c)
        /\ phantom' = (phantom \/ ret # 1)
        /\ IF again(ret, c) \/ skip(ret, c)
           THEN NoPush /\ url' = buf(c)
           ELSE Push(next(c)) /\ url' = [buf(c) EXCEPT ![len(c)] = NUL]
  BY DEF ParseURL
<1>2. /\ UNCHANGED <<eolCount, headersDone>> /\ pc = "url"
      /\ url \in [UrlIndex -> Bytes] /\ urlLen \in UrlIndex
      /\ urlLen < UrlBufferSize - 1
      /\ \A i \in UrlIndex : url[i] \notin Blank
  BY DEF ParseURL, IInv, TypeOK, UrlBufferClean
<1>3. url[urlLen] \in Bytes \cup {None}
  BY <1>2
<1>4. ASSUME c \notin Blank PROVE next(c) \notin Blank
  <2>1. len(c) = urlLen + 1 /\ urlLen + 1 \in UrlIndex /\ urlLen + 1 # urlLen
    BY <1>2, <1>4, Constants DEF UrlIndex
  <2>2. buf(c)[len(c)] = url[urlLen + 1]
    BY <1>2, <1>4, <2>1
  <2> QED
    BY <1>2, <1>4, <2>1, <2>2
<1>5. ret = 0 \/ NoPush \/ Push(c)
  BY <1>1, <1>4
<1> HIDE DEF buf, len, next, again, skip
<1>6. PushedIsLast'
  <2>1. CASE ret = 0
    <3>1. ret # 1
      BY <2>1
    <3>2. phantom'
      BY <1>1, <3>1, Zenon
    <3> QED
      BY <3>2, Zenon DEF PushedIsLast
  <2>2. CASE NoPush \/ Push(c)
    BY <1>1, <1>3, <2>2, ReadPushed
  <2> QED
    BY <1>5, <2>1, <2>2
<1> QED
  BY <1>1, <1>2, <1>3, <1>6, OtherLoopKeepsHead

LEMMA SkipURLKeepsHead == ASSUME IInv, HeadInv, SkipURL PROVE HeadInv'
<1>1. PICK ret \in Rets, c \in Bytes :
        /\ ReadC(cur, ret, c) /\ phantom' = (phantom \/ ret # 1)
        /\ Push(c) \/ NoPush
  BY DEF SkipURL
<1>2. UNCHANGED <<eolCount, headersDone>> /\ pc = "urlskip"
      /\ cur \in Bytes \cup {None}
  BY DEF SkipURL, IInv, TypeOK
<1> QED
  BY <1>1, <1>2, ReadPushed, OtherLoopKeepsHead

LEMMA ParseVersionKeepsHead == ASSUME IInv, HeadInv, ParseVersion PROVE HeadInv'
<1> DEFINE p(c) == IF c \in Space THEN ptr ELSE ptr + 1
           again(ret, c) == ~(c \in Space) /\ ret # 0 /\ Room(p(c), VersionSize)
<1>1. PICK ret \in Rets, c \in Bytes, g \in Garbage :
        /\ ReadC(None, ret, c)
        /\ IF again(ret, c) THEN NoPush ELSE Push(IF c \in Space THEN c ELSE g)
        /\ phantom' = (phantom \/ ret # 1 \/ ~(c \in Space \/ again(ret, c)))
  BY DEF ParseVersion
<1>2. UNCHANGED <<eolCount, headersDone>> /\ pc = "version"
  BY DEF ParseVersion
<1> HIDE DEF p, again
<1>3. PushedIsLast'
  <2>1. CASE phantom'
    BY <2>1 DEF PushedIsLast
  <2>2. CASE ~phantom'
    <3>1. phantom' = (phantom \/ ret # 1) /\ (NoPush \/ Push(c))
      BY <1>1, <2>2
    <3> QED
      BY <1>1, <3>1, ReadPushed
  <2> QED
    BY <2>1, <2>2
<1> QED
  BY <1>1, <1>2, <1>3, OtherLoopKeepsHead

LEMMA HeaderNameKeepsHead == ASSUME IInv, HeadInv, HeaderName PROVE HeadInv'
<1>1. PICK ret \in Rets, c \in Bytes :
        ReadC(None, ret, c) /\ phantom' = (phantom \/ ret # 1)
  BY Zenon DEF HeaderName
<1>2. NoPush /\ UNCHANGED <<eolCount, headersDone>> /\ pc = "hname"
  BY DEF HeaderName
<1> QED
  BY <1>1, <1>2, ReadPushed, OtherLoopKeepsHead

LEMMA HeaderValueKeepsHead == ASSUME IInv, HeadInv, HeaderValue PROVE HeadInv'
<1> DEFINE stop(c) == c \in {"\r", "\n"}
           p(c) == IF stop(c) THEN ptr ELSE ptr + 1
           again(ret, c) == ~stop(c) /\ ret > 0 /\ Room(p(c), ValueSize)
<1>1. PICK ret \in Rets, c \in Bytes, g \in Garbage :
        /\ ReadC(None, ret, c)
        /\ phantom' = (phantom \/ ret # 1)
        /\ IF again(ret, c) \/ ~Room(p(c), ValueSize) THEN NoPush
           ELSE Push(IF stop(c) THEN c ELSE g)
  BY DEF HeaderValue
<1>2. UNCHANGED <<eolCount, headersDone>> /\ pc = "hvalue"
  BY DEF HeaderValue
<1>3. ret # 1 \/ NoPush \/ Push(c)
  BY <1>1
<1> HIDE DEF stop, p, again
<1>4. PushedIsLast'
  <2>1. CASE ret # 1
    BY <1>1, <2>1 DEF PushedIsLast
  <2>2. CASE NoPush \/ Push(c)
    BY <1>1, <2>2, ReadPushed
  <2> QED
    BY <1>3, <2>1, <2>2
<1> QED
  BY <1>1, <1>2, <1>4, OtherLoopKeepsHead

LEMMA ParseEOLKeepsHead == ASSUME IInv, HeadInv, ParseEOL PROVE HeadInv'
<1> DEFINE n(c) == IF c = "\n" THEN eolCount + 1 ELSE eolCount
           again(ret, c) == (c \in Space \/ n(c) = 0) /\ More8(ret) /\ n(c) < 2
           stop(ret, c) == BlankLine(n(c)) \/ (pc = "heol" /\ ret <= 0)
<1>1. PICK ret \in Rets, c \in Bytes :
        /\ ReadC(cur, ret, c)
        /\ phantom' = (phantom \/ ret # 1)
        /\ IF again(ret, c) THEN NoPush ELSE Push(c)
        /\ eolCount' = IF again(ret, c) THEN n(c) ELSE 0
        /\ headersDone' = (headersDone \/ (~again(ret, c) /\ BlankLine(n(c))))
        /\ pc' = IF again(ret, c) THEN pc ELSE IF stop(ret, c) THEN "done" ELSE "hname"
  BY DEF ParseEOL
<1>2. /\ pc \in {"veol", "heol"} /\ cur \in Bytes \cup {None}
      /\ eolCount \in 0..1 /\ newlines \in 0..2
  BY DEF IInv, TypeOK, ParseEOL
<1>3. ~headersDone /\ (eolCount = 1 => extra = None) /\ (eolCount = 1 /\ ~phantom => newlines >= 1)
  BY <1>2 DEF HeadInv, LineCounted
<1>4. /\ last' = "\n" => newlines' >= 1
      /\ ret = 1 /\ ~phantom => c = last'
      /\ ret = 1 /\ ~phantom /\ c = "\n" =>
           newlines' >= 1 /\ (extra = None /\ newlines >= 1 => newlines' = 2)
      /\ c \in Space /\ newlines >= 1 => newlines' >= 1
  BY <1>1, <1>2, ReadLast
<1>5. PushedIsLast'
  BY <1>1, <1>2, ReadPushed
<1>6. ASSUME eolCount' = 1 PROVE pc' \in {"veol", "heol"} /\ extra' = None
  BY <1>1, <1>2, <1>6 DEF NoPush
<1>7. ASSUME eolCount' = 1, ~phantom' PROVE newlines' >= 1
  <2>1. again(ret, c) /\ n(c) = 1
    BY <1>1, <1>2, <1>7
  <2>2. ret = 1 /\ ~phantom
    BY <1>1, <1>7, Zenon
  <2>3. CASE c = "\n"
    BY <1>4, <2>2, <2>3
  <2>4. CASE c # "\n"
    <3>1. eolCount = 1 /\ c \in Space
      BY <1>2, <2>1, <2>4
    <3> QED
      BY <1>3, <1>4, <2>2, <3>1
  <2> QED
    BY <2>3, <2>4
<1>8. ASSUME headersDone' PROVE pc' = "done"
  BY <1>1, <1>3, <1>8
<1>9. ASSUME headersDone', ~phantom' PROVE newlines' = 2 /\ last' = "\n"
  <2>1. ret = 1 /\ ~phantom /\ n(c) > 1
    BY <1>1, <1>3, <1>9 DEF BlankLine
  <2>2. c = "\n" /\ eolCount = 1
    BY <1>2, <2>1
  <2> QED
    BY <1>3, <1>4, <2>1, <2>2
<1> HIDE DEF n, again, stop
<1> QED
  BY <1>4, <1>5, <1>6, <1>7, <1>8, <1>9
  DEF HeadInv, LineCounted, HeadEndsAtBlankLine

LEMMA ExecuteKeepsHead == ASSUME IInv, HeadInv, Execute PROVE HeadInv'
<1>1. /\ pc = "closed" /\ extra' = None /\ ~headersDone' /\ last' = None
      /\ newlines' = 0 /\ eolCount' = eolCount
  BY DEF Execute, InitRun
<1>2. eolCount # 1 /\ None # "\n"
  BY <1>1 DEF HeadInv, LineCounted, None
<1> QED
  BY <1>1, <1>2 DEF HeadInv, PushedIsLast, LineCounted, HeadEndsAtBlankLine

LEMMA DispatchKeepsHead == ASSUME IInv, HeadInv, Dispatch PROVE HeadInv'
<1>1. /\ pc = "done" /\ pc' = "closed"
      /\ UNCHANGED <<extra, eolCount, headersDone, phantom, last, newlines>>
  BY DEF Dispatch, history
<1> QED
  BY <1>1 DEF HeadInv, PushedIsLast, LineCounted, HeadEndsAtBlankLine

LEMMA NextKeepsHead == IInv /\ HeadInv /\ [Next]_vars => HeadInv'
<1> SUFFICES ASSUME IInv, HeadInv, [Next]_vars PROVE HeadInv'
  OBVIOUS
<1>1. CASE MethodSpace
  <2>1. PICK ret \in Rets, c \in Bytes : ParseSpace(ret, c, "method", "done")
    BY <1>1, Zenon DEF MethodSpace
  <2> QED
    BY <1>1, <2>1, SpaceKeepsHead DEF MethodSpace
<1>2. CASE URLSpace
  <2>1. PICK ret \in Rets, c \in Bytes : ParseSpace(ret, c, "url", "vspace")
    BY <1>2, Zenon DEF URLSpace
  <2> QED
    BY <1>2, <2>1, SpaceKeepsHead DEF URLSpace
<1>3. CASE VersionSpace
  <2>1. PICK ret \in Rets, c \in Bytes : ParseSpace(ret, c, "version", "veol")
    BY <1>3, Zenon DEF VersionSpace
  <2> QED
    BY <1>3, <2>1, SpaceKeepsHead DEF VersionSpace
<1>4. CASE HeaderSpace
  <2>1. PICK ret \in Rets, c \in Bytes : ParseSpace(ret, c, "hvalue", "hvalue")
    BY <1>4, Zenon DEF HeaderSpace
  <2> QED
    BY <1>4, <2>1, SpaceKeepsHead DEF HeaderSpace
<1>5. CASE Parse
  BY <1>1, <1>2, <1>3, <1>4, <1>5, ParseMethodKeepsHead, ParseURLKeepsHead,
     SkipURLKeepsHead, ParseVersionKeepsHead, ParseEOLKeepsHead,
     HeaderNameKeepsHead, HeaderValueKeepsHead DEF Parse
<1>6. CASE UNCHANGED vars
  <2>1. UNCHANGED <<pc, extra, eolCount, headersDone, phantom, last, newlines>>
    BY <1>6 DEF vars, pvars, history
  <2> QED
    BY <2>1, Zenon DEF HeadInv, PushedIsLast, LineCounted, HeadEndsAtBlankLine
<1> QED
  BY <1>5, <1>6, ExecuteKeepsHead, DispatchKeepsHead DEF Next

LEMMA InitHead == Init => HeadInv
<1> SUFFICES ASSUME Init PROVE HeadInv
  OBVIOUS
<1>1. extra = None /\ ~headersDone /\ last = None /\ eolCount = 0
  BY DEF Init
<1> QED
  BY <1>1 DEF HeadInv, PushedIsLast, LineCounted, HeadEndsAtBlankLine, None

(* When the parser declares the headers finished and has used nothing but  *)
(* bytes the client sent, the client's last byte ended a blank line, and   *)
(* nothing behind it has been taken off the wire: attoHTTPGetByte hands    *)
(* the callback a body from its first byte.                                *)
THEOREM BodyIsIntact == Spec => []HeadEndsAtBlankLine
<1>1. HeadInv => HeadEndsAtBlankLine
  BY DEF HeadInv
<1> QED
  BY <1>1, InitTyped, NextTyped, InitHead, NextKeepsHead, PTL DEF Spec

-----------------------------------------------------------------------------
(***************************************************************************)
(* What the loops of _attoHTTPParseURL leave.  While the first one runs,   *)
(* the buffer holds the token as far as it has been read, over the URL of  *)
(* the request before; its first byte is the one that was pushed back when *)
(* the blanks before the URL ended.  The second loop starts with a token   *)
(* that fills the buffer.  A read that fails with -1 does not end the      *)
(* loops, so that old bytes are taken for bytes of the token from there on *)
(* and nothing is said of the request any more.                            *)
(***************************************************************************)
Filled(b, n, tok, old) ==
  b = [i \in UrlIndex |-> IF i < n THEN UrlByte(tok[i + 1]) ELSE old[i]]
NoNul(tok) == \A i \in DOMAIN tok : tok[i] # NUL
Inherited == token = <<>> /\ url = oldUrl /\ urlLen = 0 /\ ~cutUrl
Reading ==
  /\ ~cutUrl /\ Filled(url, urlLen, token, oldUrl)
  /\ extra # None => /\ urlLen = 0 /\ Len(token) = 1
                     /\ extra = token[1] /\ extra \notin Blank
  /\ extra = None => Len(token) >= 1 /\ urlLen = Len(token)
Full ==
  /\ Filled(url, urlLen, token, oldUrl)
  /\ Len(token) = urlLen /\ urlLen = UrlBufferSize - 1
UrlInv ==
  /\ pc \in {"mspace", "method", "uspace"} => Inherited
  /\ pc = "url" /\ NoNul(token) /\ ~erred => Reading
  /\ pc = "urlskip" /\ NoNul(token) /\ ~erred => Full
  /\ UrlStored

(* One byte more.                                                          *)
LEMMA FilledMore ==
  ASSUME NEW b, NEW old, NEW tok, NEW tok2, NEW c, NEW n \in UrlIndex,
         Filled(b, n, tok, old), tok2[n + 1] = c,
         \A i \in 1..n : tok2[i] = tok[i]
  PROVE  Filled([b EXCEPT ![n] = UrlByte(c)], n + 1, tok2, old)
<1> DEFINE d == [b EXCEPT ![n] = UrlByte(c)]
<1>1. b = [i \in UrlIndex |-> IF i < n THEN UrlByte(tok[i + 1]) ELSE old[i]]
  BY DEF Filled
<1>2. d = [i \in UrlIndex |-> IF i = n THEN UrlByte(c) ELSE b[i]]
  BY <1>1, Zenon
<1>3. ASSUME NEW i \in UrlIndex
      PROVE  d[i] = IF i < n + 1 THEN UrlByte(tok2[i + 1]) ELSE old[i]
  <2>1. n \in Nat /\ i \in Nat
    BY Constants DEF UrlIndex
  <2>2. CASE i = n
    <3>1. d[i] = UrlByte(c) /\ i < n + 1
      BY <1>2, <2>1, <2>2
    <3> QED
      BY <2>2, <3>1
  <2>3. CASE i < n
    <3>1. d[i] = b[i] /\ i < n + 1 /\ i + 1 \in 1..n
      BY <1>2, <2>1, <2>3
    <3>2. b[i] = UrlByte(tok[i + 1])
      BY <1>1, <2>3, Zenon
    <3> QED
      BY <3>1, <3>2
  <2>4. CASE ~(i < n) /\ i # n
    <3>1. d[i] = b[i] /\ ~(i < n + 1)
      BY <1>2, <2>1, <2>4
    <3>2. b[i] = old[i]
      BY <1>1, <2>4, Zenon
    <3> QED
      BY <3>1, <3>2
  <2> QED
    BY <2>2, <2>3, <2>4
<1>4. d = [i \in UrlIndex |-> d[i]]
  BY <1>2
<1> HIDE DEF d
<1>5. d = [i \in UrlIndex |-> IF i < n + 1 THEN UrlByte(tok2[i + 1]) ELSE old[i]]
  BY <1>3, <1>4, Zenon
<1> QED
  BY <1>5 DEF Filled, d

(* The token is complete, or the stream has ended.                         *)
Terminated(b, m) == [b EXCEPT ![m] = NUL]

LEMMA WholeToken ==
  ASSUME NEW tok, Len(tok) \in UrlIndex
  PROVE  Cut(tok, UrlBufferSize - 1) = tok
<1>1. Len(tok) <= UrlBufferSize - 1
  BY Constants DEF UrlIndex
<1> QED
  BY <1>1, Zenon DEF Cut

LEMMA FilledLen ==
  ASSUME NEW tok, Len(tok) \in UrlIndex
  PROVE  /\ StoredLen(tok, FALSE) = Len(tok)
         /\ StoredLen(tok, TRUE)
              = IF Len(tok) < UrlBufferSize - 1 THEN Len(tok) + 1 ELSE Len(tok)
BY WholeToken, Zenon DEF StoredLen

LEMMA FilledStored ==
  ASSUME NEW tok, Len(tok) \in UrlIndex,
         NEW b, NEW old, Filled(b, Len(tok), tok, old), NEW eof
  PROVE  Terminated(b, StoredLen(tok, eof)) = Stored(old, tok, eof)
<1>1. Cut(tok, UrlBufferSize - 1) = tok
  BY WholeToken
<1> DEFINE n == Len(tok)
           m == StoredLen(tok, eof)
<1>2. m = n \/ m = n + 1
  BY <1>1, Zenon DEF StoredLen
<1> HIDE DEF n, m
<1>3. ~(m < n) /\ n \in Nat
  BY <1>2, Constants DEF UrlIndex, n
<1>4. b = [i \in UrlIndex |-> IF i < n THEN UrlByte(tok[i + 1]) ELSE old[i]]
  BY Zenon DEF Filled, n
<1>5. [b EXCEPT ![m] = NUL] = [i \in UrlIndex |-> IF i = m THEN NUL ELSE b[i]]
  BY <1>4, Zenon
<1>6. Stored(old, tok, eof) =
        [i \in UrlIndex |-> IF i < n THEN IF tok[i + 1] = "?" THEN NUL ELSE tok[i + 1]
                            ELSE IF i = m THEN NUL ELSE old[i]]
  BY <1>1, Zenon DEF Stored, m, n
<1>7. ASSUME NEW i \in UrlIndex
      PROVE  (IF i = m THEN NUL ELSE b[i])
               = IF i < n THEN IF tok[i + 1] = "?" THEN NUL ELSE tok[i + 1]
                 ELSE IF i = m THEN NUL ELSE old[i]
  <2>1. b[i] = IF i < n THEN UrlByte(tok[i + 1]) ELSE old[i]
    BY <1>4, Zenon
  <2>2. i < n => i # m
    BY <1>3
  <2> QED
    BY <2>1, <2>2, Zenon DEF UrlByte
<1>8. [b EXCEPT ![m] = NUL] = Stored(old, tok, eof)
  BY <1>5, <1>6, <1>7, Zenon
<1> QED
  BY <1>8, Zenon DEF m, Terminated

(* A loop that is not one of _attoHTTPParseURL, nor before it.             *)
LEMMA BehindUrl ==
  ASSUME pc' \notin {"mspace", "method", "uspace", "url", "urlskip", "vspace"}
  PROVE  UrlInv'
BY DEF UrlInv, UrlStored

LEMMA BeforeUrl ==
  ASSUME UrlInv, pc \in {"mspace", "method", "uspace"},
         UNCHANGED <<url, urlLen, oldUrl, token, cutUrl>>,
         pc' \in {"mspace", "method", "uspace", "done"}
  PROVE  UrlInv'
<1>1. Inherited
  BY DEF UrlInv
<1>2. Inherited'
  BY <1>1, Zenon DEF Inherited
<1> QED
  BY <1>2 DEF UrlInv, UrlStored

LEMMA URLSpaceKeepsUrl == ASSUME IInv, UrlInv, URLSpace PROVE UrlInv'
<1>1. PICK ret \in Rets, c \in Bytes :
        /\ ParseSpace(ret, c, "url", "vspace")
        /\ urlLen' = IF pc' = "url" THEN 0 ELSE urlLen
        /\ token' = IF pc' = "url" THEN <<c>> ELSE token
  BY DEF URLSpace
<1>2. /\ pc = "uspace" /\ UNCHANGED <<url, oldUrl, cutUrl>>
      /\ pc' \in {"uspace", "url", "vspace"}
  BY <1>1 DEF URLSpace, ParseSpace
<1>3. /\ token = <<>> /\ url = oldUrl /\ urlLen = 0 /\ ~cutUrl
      /\ url \in [UrlIndex -> Bytes]
  BY <1>2 DEF UrlInv, Inherited, IInv, TypeOK
<1>4. CASE pc' = "uspace"
  <2>1. UNCHANGED <<url, urlLen, oldUrl, token, cutUrl>>
    BY <1>1, <1>2, <1>4
  <2> QED
    BY <1>2, <1>4, <2>1, BeforeUrl
<1>5. CASE pc' = "url"
  <2>1. /\ urlLen' = 0 /\ token' = <<c>> /\ Push(c) /\ c \notin Blank
    <3>1. ret = 1 \/ ret = 0 \/ ret = -1
      BY ParserAssumption DEF Rets
    <3> QED
      BY <1>1, <1>2, <1>5, <3>1 DEF ParseSpace
  <2>2. Filled(url', urlLen', token', oldUrl')
    <3>1. \A i \in UrlIndex : ~(i < 0)
      BY Constants DEF UrlIndex
    <3>2. url = [i \in UrlIndex |-> oldUrl[i]]
      BY <1>3
    <3> QED
      BY <1>2, <2>1, <3>1, <3>2, Zenon DEF Filled
  <2>3. Len(token') = 1 /\ token'[1] = c /\ 1 \in DOMAIN token'
    BY <2>1
  <2>4. ASSUME NoNul(token)' PROVE Reading'
    <3>1. c # NUL
      BY <2>3, <2>4, Zenon DEF NoNul
    <3>2. extra' = c /\ c # None
      BY <2>1, <3>1, ParserAssumption DEF Push
    <3> QED
      BY <1>2, <1>3, <2>1, <2>2, <2>3, <3>2, Zenon DEF Reading
  <2> QED
    BY <1>5, <2>4 DEF UrlInv, UrlStored
<1>6. CASE pc' = "vspace"
  <2>1. token' = <<>> /\ url' = oldUrl' /\ urlLen' = 0
    BY <1>1, <1>2, <1>3, <1>6
  <2> QED
    BY <1>6, <2>1 DEF UrlInv, UrlStored
<1> QED
  BY <1>2, <1>4, <1>5, <1>6

(* A byte of the token is stored.                                          *)
LEMMA StoreByte ==
  ASSUME IInv, Reading, pc = "url",
         NEW c \in Bytes, c \notin Blank,
         IF extra = None THEN token' = Append(token, c)
         ELSE c = extra /\ token' = token
  PROVE  /\ Len(token') = urlLen + 1
         /\ Filled([url EXCEPT ![urlLen] = UrlByte(c)], urlLen + 1, token', oldUrl)
<1>1. token \in Seq(Bytes) /\ urlLen \in UrlIndex /\ urlLen \in Nat
      /\ Filled(url, urlLen, token, oldUrl)
  BY Constants DEF IInv, TypeOK, Reading, UrlIndex
<1>2. /\ Len(token') = urlLen + 1 /\ token'[urlLen + 1] = c
      /\ \A i \in 1..urlLen : token'[i] = token[i]
  <2>1. CASE extra = None
    <3>1. token' = Append(token, c) /\ urlLen = Len(token)
      BY <2>1 DEF Reading
    <3> QED
      BY <1>1, <3>1
  <2>2. CASE extra # None
    BY <1>1, <2>2 DEF Reading
  <2> QED
    BY <2>1, <2>2
<1>3. Filled([url EXCEPT ![urlLen] = UrlByte(c)], urlLen + 1, token', oldUrl)
  BY <1>1, <1>2, FilledMore
<1> QED
  BY <1>2, <1>3

LEMMA ParseURLKeepsUrl ==
  ASSUME IInv, UrlInv, ParseURL
  PROVE  UrlInv'
<1> DEFINE buf(c) == IF c \in Blank THEN url ELSE [url EXCEPT ![urlLen] = UrlByte(c)]
           len(c) == IF c \in Blank THEN urlLen ELSE urlLen + 1
           next(c) == IF c \in Blank THEN c ELSE buf(c)[len(c)]
           again(ret, c) == ~(c \in Blank) /\ ret # 0 /\ Room(len(c), UrlBufferSize)
           skip(ret, c) == ~again(ret, c) /\ ret # 0 /\ next(c) \notin Blank
<1>1. PICK ret \in Rets, c \in Bytes :
        /\ ReadC(url[urlLen], ret, c)
        /\ cutUrl' = (cutUrl \/ ret # 1)
        /\ token' = IF Fresh(ret) /\ c \notin Blank THEN Append(token, c) ELSE token
        /\ urlLen' = len(c)
        /\ IF again(ret, c) \/ skip(ret, c)
           THEN NoPush /\ url' = buf(c)
           ELSE Push(next(c)) /\ url' = [buf(c) EXCEPT ![len(c)] = NUL]
        /\ pc' = IF again(ret, c) THEN pc
                 ELSE IF skip(ret, c) THEN "urlskip" ELSE "vspace"
  BY DEF ParseURL
<1>e. SUFFICES ASSUME ~erred' PROVE UrlInv'
  <2>1. pc' \in {"url", "urlskip", "vspace"}
    BY <1>1 DEF ParseURL
  <2> QED
    BY <2>1 DEF UrlInv, UrlStored
<1>f. ~erred /\ ret \in {0, 1}
  BY <1>1, <1>e, ReadWithoutError
<1>2. /\ pc = "url" /\ oldUrl' = oldUrl /\ ret \in {0, 1}
      /\ url \in [UrlIndex -> Bytes] /\ urlLen \in UrlIndex /\ urlLen \in Nat
      /\ urlLen < UrlBufferSize - 1 /\ urlLen + 1 \in UrlIndex
      /\ token \in Seq(Bytes) /\ token' \in Seq(Bytes)
      /\ url[UrlBufferSize - 1] = NUL
      /\ \A i \in UrlIndex : url[i] \notin Blank \cup {"?"}
  <2>1. /\ pc = "url" /\ oldUrl' = oldUrl
        /\ url \in [UrlIndex -> Bytes] /\ urlLen \in UrlIndex
        /\ urlLen < UrlBufferSize - 1 /\ token \in Seq(Bytes)
        /\ url[UrlBufferSize - 1] = NUL
        /\ \A i \in UrlIndex : url[i] \notin Blank \cup {"?"}
    BY DEF ParseURL, IInv, TypeOK, UrlBufferClean
  <2>2. urlLen \in Nat /\ urlLen + 1 \in UrlIndex
    BY <2>1, Constants DEF UrlIndex
  <2>3. ret \in {0, 1}
    BY <1>f
  <2>4. token' \in Seq(Bytes)
    BY <1>1, <2>1
  <2> QED
    BY <2>1, <2>2, <2>3, <2>4
<1>3. SUFFICES ASSUME NoNul(token') PROVE UrlInv'
  <2>1. CASE ~NoNul(token')
    <3>1. pc' \in {"url", "urlskip", "vspace"}
      BY <1>1, <1>2
    <3> QED
      BY <2>1, <3>1 DEF UrlInv, UrlStored, NoNul
  <2> QED
    BY <2>1
<1>4. NoNul(token)
  <2>1. \A i \in DOMAIN token : i \in DOMAIN token' /\ token'[i] = token[i]
    <3>1. CASE token' = token
      BY <3>1, Zenon
    <3>2. CASE token' = Append(token, c)
      BY <1>2, <3>2
    <3> QED
      BY <1>1, <3>1, <3>2
  <2> QED
    BY <1>3, <2>1, Zenon DEF NoNul
<1>5. Reading
  BY <1>2, <1>4, <1>f DEF UrlInv
<1>6. CASE c \in Blank
  <2>1. extra = None /\ ret = 1
    <3>1. extra # None => c = extra
      BY <1>1, Zenon DEF ReadC
    <3>2. extra = None /\ ret # 1 => c \in {url[urlLen]} \/ url[urlLen] = None
      BY <1>1 DEF ReadC, GetByte
    <3>3. url[urlLen] \in Bytes /\ url[urlLen] \notin Blank
      BY <1>2
    <3> QED
      BY <1>5, <1>6, <3>1, <3>2, <3>3, ParserAssumption DEF Reading
  <2>2. /\ token' = token /\ urlLen' = urlLen /\ pc' = "vspace"
        /\ url' = [url EXCEPT ![urlLen] = NUL] /\ cutUrl' = FALSE
    BY <1>1, <1>5, <1>6, <2>1 DEF Reading
  <2>3. /\ Len(token) >= 1 /\ urlLen = Len(token) /\ Len(token) \in UrlIndex
        /\ Filled(url, Len(token), token, oldUrl)
    BY <1>2, <1>5, <2>1 DEF Reading
  <2>4. StoredLen(token, cutUrl') = urlLen
    <3>1. StoredLen(token, FALSE) = urlLen
      BY <2>3, FilledLen
    <3> QED
      BY <2>2, <3>1
  <2>5. url' = Stored(oldUrl, token, cutUrl')
    <3>1. Terminated(url, StoredLen(token, cutUrl')) = Stored(oldUrl, token, cutUrl')
      BY <2>3, FilledStored
    <3> QED
      BY <2>2, <2>4, <3>1 DEF Terminated
  <2>6. UrlStored'
    <3>1. token # <<>>
      BY <2>3
    <3> QED
      BY <1>2, <2>2, <2>4, <2>5, <3>1, Zenon DEF UrlStored
  <2> QED
    BY <2>2, <2>6 DEF UrlInv
<1>7. CASE c \notin Blank /\ ret = 1
  <2>1. IF extra = None THEN token' = Append(token, c) ELSE c = extra /\ token' = token
    BY <1>1, <1>7 DEF ReadC, Fresh
  <2>2. /\ Len(token') = urlLen + 1 /\ Filled(buf(c), urlLen + 1, token', oldUrl)
        /\ len(c) = urlLen + 1
    BY <1>2, <1>5, <1>7, <2>1, StoreByte
  <2>3. again(ret, c) <=> urlLen + 1 < UrlBufferSize - 1
    BY <1>7 DEF Room
  <2>4. CASE again(ret, c)
    <3>1. /\ pc' = "url" /\ url' = buf(c) /\ urlLen' = urlLen + 1 /\ extra' = None
          /\ ~cutUrl'
      BY <1>1, <1>2, <1>5, <1>7, <2>2, <2>4 DEF NoPush, Reading
    <3>2. Len(token') >= 1
      BY <1>2, <2>2
    <3>3. Reading'
      BY <1>2, <2>2, <3>1, <3>2, Zenon DEF Reading
    <3> QED
      BY <3>1, <3>3 DEF UrlInv, UrlStored
  <2>5. CASE ~again(ret, c)
    <3>1. urlLen + 1 = UrlBufferSize - 1
      BY <1>2, <2>3, <2>5, Constants DEF UrlIndex
    <3>2. next(c) = NUL
      <4>1. UrlBufferSize - 1 # urlLen
        BY <1>2
      <4>2. buf(c)[UrlBufferSize - 1] = NUL
        BY <1>2, <1>7, <4>1, Constants
      <4> QED
        BY <1>7, <2>2, <3>1, <4>2
    <3>3. skip(ret, c)
      BY <1>7, <2>5, <3>2, Constants
    <3>4. pc' = "urlskip" /\ url' = buf(c) /\ urlLen' = urlLen + 1
      BY <1>1, <2>2, <2>5, <3>3
    <3>5. Full'
      BY <1>2, <2>2, <3>1, <3>4, Zenon DEF Full
    <3> QED
      BY <3>4, <3>5 DEF UrlInv, UrlStored
  <2> QED
    BY <2>4, <2>5
<1>8. CASE c \notin Blank /\ ret = 0
  <2>1. extra = None /\ c = url[urlLen] /\ c # "?"
    <3>1. extra = None
      BY <1>1, <1>8 DEF ReadC
    <3>2. url[urlLen] \in Bytes /\ url[urlLen] # None /\ url[urlLen] # "?"
      BY <1>2, ParserAssumption
    <3> QED
      BY <1>1, <1>8, <3>1, <3>2 DEF ReadC, GetByte
  <2>2. buf(c) = url /\ len(c) = urlLen + 1
    BY <1>2, <1>8, <2>1 DEF UrlByte
  <2>3. ~again(ret, c) /\ ~skip(ret, c)
    BY <1>8
  <2>4. token' = token
    BY <1>1, <1>8 DEF Fresh
  <2>5. cutUrl' = TRUE
    <3>1. ret # 1
      BY <1>8
    <3> QED
      BY <1>1, <3>1, Zenon
  <2>6. urlLen' = urlLen + 1 /\ pc' = "vspace" /\ url' = [url EXCEPT ![urlLen + 1] = NUL]
    BY <1>1, <2>2, <2>3
  <2>7. /\ Len(token) >= 1 /\ urlLen = Len(token) /\ Len(token) \in UrlIndex
        /\ Filled(url, Len(token), token, oldUrl)
    BY <1>2, <1>5, <2>1 DEF Reading
  <2>8. Terminated(url, StoredLen(token, cutUrl')) = Stored(oldUrl, token, cutUrl')
    BY <2>7, FilledStored
  <2>9. StoredLen(token, cutUrl') = urlLen + 1
    <3>1. StoredLen(token, TRUE)
            = IF Len(token) < UrlBufferSize - 1 THEN Len(token) + 1 ELSE Len(token)
      BY <2>7, FilledLen
    <3> QED
      BY <1>2, <2>5, <2>7, <3>1
  <2>10. url' = Stored(oldUrl, token, cutUrl')
    BY <2>6, <2>8, <2>9 DEF Terminated
  <2>11. UrlStored'
    <3>1. token # <<>>
      BY <2>7
    <3> QED
      BY <1>2, <2>4, <2>6, <2>9, <2>10, <3>1, Zenon DEF UrlStored
  <2> QED
    BY <2>6, <2>11 DEF UrlInv
<1> QED
  BY <1>2, <1>6, <1>7, <1>8

LEMMA SkipURLKeepsUrl == ASSUME IInv, UrlInv, SkipURL PROVE UrlInv'
<1>1. \/ UNCHANGED <<pc, url>>
      \/ pc' = "vspace" /\ url' = [url EXCEPT ![urlLen] = NUL]
  BY DEF SkipURL
<1>2. /\ pc = "urlskip" /\ urlLen' = urlLen /\ oldUrl' = oldUrl /\ token' = token
      /\ token \in Seq(Bytes) /\ urlLen \in UrlIndex
  BY DEF SkipURL, IInv, TypeOK
<1>e. SUFFICES ASSUME ~erred' PROVE UrlInv'
  BY <1>1, <1>2 DEF UrlInv, UrlStored
<1>f. ~erred
  BY <1>e, ReadWithoutError DEF SkipURL
<1>3. CASE UNCHANGED <<pc, url>>
  BY <1>2, <1>3, <1>f, Zenon DEF UrlInv, UrlStored, Full
<1>4. CASE pc' = "vspace" /\ url' = [url EXCEPT ![urlLen] = NUL]
  <2>1. SUFFICES ASSUME NoNul(token) PROVE UrlStored'
    BY <1>2, <1>4 DEF UrlInv, UrlStored, NoNul
  <2>2. /\ Len(token) = urlLen /\ Len(token) \in UrlIndex
        /\ urlLen = UrlBufferSize - 1 /\ Filled(url, Len(token), token, oldUrl)
    BY <1>2, <1>f, <2>1 DEF UrlInv, Full
  <2>3. Terminated(url, StoredLen(token, cutUrl')) = Stored(oldUrl, token, cutUrl')
    BY <2>2, FilledStored
  <2>4. token # <<>>
    <3>1. Len(token) # 0
      BY <2>2, Constants
    <3> QED
      BY <3>1
  <2>5. cutUrl' \in BOOLEAN
    BY NextTyped DEF Next, Parse, IInv, TypeOK
  <2>6. StoredLen(token, cutUrl') = urlLen
    <3>1. StoredLen(token, FALSE) = urlLen
      BY <2>2, FilledLen
    <3>2. StoredLen(token, TRUE) = urlLen
      <4>1. ~(Len(token) < UrlBufferSize - 1)
        BY <2>2, Constants
      <4> QED
        BY <2>2, <4>1, FilledLen
    <3> QED
      BY <2>5, <3>1, <3>2, Zenon
  <2>7. url' = Stored(oldUrl, token, cutUrl')
    BY <1>4, <2>3, <2>6 DEF Terminated
  <2> QED
    BY <1>2, <2>4, <2>6, <2>7, Zenon DEF UrlStored
<1> QED
  BY <1>1, <1>3, <1>4

LEMMA VersionSpaceKeepsUrl == ASSUME VersionSpace PROVE UrlInv'
<1>1. PICK ret \in Rets, c \in Bytes : ParseSpace(ret, c, "version", "veol")
  BY DEF VersionSpace
<1>2. pc' \in {"version", "veol"} \/ (pc' = "vspace" /\ cur' = c)
  BY <1>1 DEF VersionSpace, ParseSpace
<1>3. c # None
  BY ParserAssumption
<1> QED
  BY <1>2, <1>3, BehindUrl DEF UrlInv, UrlStored

LEMMA ExecuteKeepsUrl == ASSUME Execute PROVE UrlInv'
<1>1. /\ pc' = "mspace" /\ token' = <<>> /\ url' = oldUrl' /\ urlLen' = 0 /\ ~cutUrl'
  BY DEF Execute, InitRun
<1> QED
  BY <1>1 DEF UrlInv, UrlStored, Inherited

LEMMA NextKeepsUrl ==
  ASSUME IInv, UrlInv, [Next]_vars
  PROVE  UrlInv'
<1>1. CASE MethodSpace
  <2>1. PICK ret \in Rets, c \in Bytes : ParseSpace(ret, c, "method", "done")
    BY <1>1, Zenon DEF MethodSpace
  <2>2. pc' \in {"mspace", "method", "done"}
    BY <1>1, <2>1 DEF MethodSpace, ParseSpace
  <2> QED
    BY <1>1, <2>2, BeforeUrl DEF MethodSpace
<1>2. CASE ParseMethod
  <2>1. pc' \in {"method", "uspace", "done"}
    BY <1>2 DEF ParseMethod
  <2> QED
    BY <1>2, <2>1, BeforeUrl DEF ParseMethod
<1>3. CASE ParseVersion \/ ParseEOL \/ HeaderName \/ HeaderSpace \/ HeaderValue
  <2>1. pc' \in {"version", "veol", "heol", "hname", "hspace", "hvalue", "done"}
    BY <1>3 DEF ParseVersion, ParseEOL, HeaderName, HeaderSpace, HeaderValue, ParseSpace
  <2> QED
    BY <2>1, BehindUrl
<1>4. CASE Dispatch
  BY <1>4, BehindUrl DEF Dispatch
<1>5. CASE UNCHANGED vars
  <2>1. UNCHANGED <<pc, extra, cur, url, urlLen, oldUrl, token, cutUrl, erred>>
    BY <1>5 DEF vars, pvars, history
  <2> QED
    BY <2>1, Zenon DEF UrlInv, UrlStored, Inherited, Reading, Full
<1> QED
  BY <1>1, <1>2, <1>3, <1>4, <1>5, URLSpaceKeepsUrl, ParseURLKeepsUrl,
     SkipURLKeepsUrl, VersionSpaceKeepsUrl, ExecuteKeepsUrl DEF Next, Parse

(* As long as reads that fail return 0, as every wrapper's timeout does,   *)
(* the loops of _attoHTTPParseURL store of every token without a NUL, over *)
(* any buffer and wherever the stream ends, what Stored says, which is     *)
(* what the request lifecycle (module Server) and the parsers of           *)
(* parameters start from.                                                  *)
THEOREM UrlIsStored == Spec => []UrlStored
<1>1. Init => UrlInv
  BY BehindUrl DEF Init, UrlInv, UrlStored
<1>2. IInv /\ UrlInv /\ [Next]_vars => UrlInv'
  BY NextKeepsUrl
<1>3. UrlInv => UrlStored
  BY DEF UrlInv
<1> QED
  BY <1>1, <1>2, <1>3, InitTyped, NextTyped, PTL DEF Spec
=============================================================================
