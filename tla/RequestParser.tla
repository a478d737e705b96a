---------------------------- MODULE RequestParser ----------------------------
(***************************************************************************)
(* The byte-level parser of attohttp.c: _attoHTTPParseMethod, ParseURL,    *)
(* ParseVersion and ParseHeaders on top of _attoHTTPReadC and its one      *)
(* byte of pushback.  Every action is one call of _attoHTTPReadC and the   *)
(* code that runs until the next one, because that is where the parser     *)
(* waits for the client.                                                   *)
(*                                                                         *)
(* A read that fails leaves the byte it was to fill as it was: the last    *)
(* byte read by that loop, the old contents of the buffer, or, for a local *)
(* variable nothing was stored in, any byte.                               *)
(***************************************************************************)
EXTENDS UrlBuffer

CONSTANTS
  ClientBytes,   \* bytes clients send
  Garbage,       \* bytes uninitialised memory may hold
  Fails,         \* what attoHTTPGetByte returns besides 1: 0, -1
  MethodSize,    \* sizeof(buffer) in _attoHTTPParseMethod
  VersionSize,   \* sizeof(buffer) in _attoHTTPParseVersion
  NameSize,      \* ATTOHTTP_HEADER_NAME_SIZE
  ValueSize,     \* ATTOHTTP_HEADER_VALUE_SIZE
  Supported,     \* the method tokens with a httpmethod_t
  MaxInput       \* bound on the bytes a client sends

None == "none"   \* no byte
Bytes == ClientBytes \cup Garbage \cup {NUL}
Blank == {"sp"}                   \* isblank: space and tab behave alike
Space == {"sp", "\r", "\n"}        \* isspace

ASSUME ParserAssumption ==
  /\ None \notin Bytes /\ NUL \notin Space /\ NUL # "?"
  /\ Fails \subseteq {0, -1}
  /\ MethodSize \in Nat \ {0, 1} /\ VersionSize \in Nat \ {0, 1}
  /\ NameSize \in Nat \ {0, 1} /\ ValueSize \in Nat \ {0, 1}
  /\ MaxInput \in Nat

VARIABLES
  pc,           \* the loop the parser is in, "done" between two requests
  extra,        \* _attoHTTP_extra_c, None unless > 0
  cur,          \* the local c of the running loop, None if uninitialised
  ptr,          \* index into the local buffer of the running loop
  mtok,         \* buffer of _attoHTTPParseMethod
  url,          \* _attoHTTP_url
  urlLen,       \* _attoHTTP_url_len
  eolCount,     \* of _attoHTTPParseEOL
  headersDone,  \* _attoHTTP_headersDone
  outcome,      \* "parsing", "501" or "500": _attoHTTP_returnCode
  got           \* number of bytes received in this request

(* History variables, read by no action.                                   *)
VARIABLES
  oldUrl,       \* url when the request started
  token,        \* bytes received that make up the URL token
  cutUrl,       \* a read failed inside the URL token
  last,         \* the last byte received from the client, None at first
  newlines,     \* "\\n" received since the last byte that is no space, up to 2
  erred,        \* a read of this request has failed with -1
  phantom       \* a byte the client did not send may have been used

pvars == <<pc, extra, cur, ptr, mtok, url, urlLen, eolCount, headersDone,
           outcome, got>>
history == <<oldUrl, token, cutUrl, last, newlines, erred, phantom>>
vars == <<pvars, history>>

\* The macro _attoHTTPPushC.  A pushed NUL is never read back.
Push(c) == extra' = IF c = NUL THEN None ELSE c

\* attoHTTPGetByte(read, &x), x holding stale, in the wrappers: it returns ret
\* and leaves c in x.  Without a byte x is not written.
GetByte(stale, ret, c) ==
  \/ /\ ret = 1 /\ c \in ClientBytes
     /\ got < MaxInput
     /\ got' = got + 1
     /\ last' = c
     /\ newlines' = IF c \notin Space THEN 0
                    ELSE IF c = "\n" /\ newlines < 2 THEN newlines + 1
                    ELSE newlines
     /\ UNCHANGED erred
  \/ /\ ret \in Fails
     /\ c \in (IF stale = None THEN Garbage ELSE {stale})
     /\ erred' = (erred \/ ret = -1)
     /\ UNCHANGED <<got, last, newlines>>

\* _attoHTTPReadC(&x) likewise.  That a pushed byte is gone once it is read is
\* left to Push and NoPush.
ReadC(stale, ret, c) ==
  IF extra # None
  THEN ret = 1 /\ c = extra /\ UNCHANGED <<got, last, newlines, erred>>
  ELSE GetByte(stale, ret, c)

NoPush == extra' = None

\* c came off the wire in this step, not out of the pushback.
Fresh(ret) == extra = None /\ ret = 1

\* The condition on the index in the loops that fill a buffer: the last byte
\* is kept for the terminator.
RoomToTheEnd(p, size) == p < size
Room(p, size) == p < size - 1

\* What the URL buffer keeps of a byte.
QueryKept(c) == c
UrlByte(c) == IF c = "?" THEN NUL ELSE c

\* ret > 0 where ret is a uint8_t, as in _attoHTTPParseEOL: -1 is 255.
AlwaysMore(ret) == TRUE
More8(ret) == ret # 0

\* eolCount > 1
AnyLineEnd(n) == n > 0
BlankLine(n) == n > 1

-----------------------------------------------------------------------------
(***************************************************************************)
(* The loops                                                               *)
(***************************************************************************)
Rets == {1} \cup Fails

\* _attoHTTPParseSpace, called in four places: blanks are skipped, and the
\* byte that ends the loop is pushed even if the read of it failed.
ParseSpace(ret, c, ok, bad) ==
  /\ ReadC(cur, ret, c)
  /\ phantom' = (phantom \/ ret # 1)
  /\ IF c \in Blank /\ ret > 0
     THEN NoPush /\ cur' = c /\ UNCHANGED pc
     ELSE Push(c) /\ cur' = None /\ pc' = IF ret > 0 THEN ok ELSE bad

MethodSpace ==
  /\ pc = "mspace"
  /\ \E ret \in Rets, c \in Bytes :
       /\ ParseSpace(ret, c, "method", "done")
       /\ outcome' = IF pc' = "done" THEN "500" ELSE outcome
  /\ UNCHANGED <<ptr, mtok, url, urlLen, eolCount, headersDone, oldUrl, token,
                 cutUrl>>

\* The rest of _attoHTTPParseMethod
ParseMethod ==
  /\ pc = "method"
  /\ \E ret \in Rets, c \in Bytes :
       /\ ReadC(None, ret, c)
       /\ phantom' = (phantom \/ ret # 1)
       /\ LET m == IF c \in Blank THEN mtok ELSE Append(mtok, c)
              again == c \notin Blank /\ ret > 0 /\ Room(Len(m), MethodSize)
              known == Before(m, NUL) \in Supported
          IN /\ mtok' = IF again THEN m ELSE <<>>
             /\ pc' = IF again THEN pc ELSE IF known THEN "uspace" ELSE "done"
             /\ outcome' = IF again \/ known THEN outcome ELSE "501"
  /\ NoPush
  /\ UNCHANGED <<cur, ptr, url, urlLen, eolCount, headersDone, oldUrl, token,
                 cutUrl>>

URLSpace ==
  /\ pc = "uspace"
  /\ \E ret \in Rets, c \in Bytes :
       /\ ParseSpace(ret, c, "url", "vspace")
       /\ urlLen' = IF pc' = "url" THEN 0 ELSE urlLen
       /\ token' = IF pc' = "url" THEN <<c>> ELSE token
  /\ UNCHANGED <<ptr, mtok, url, eolCount, headersDone, outcome, oldUrl, cutUrl>>

\* The first loop of _attoHTTPParseURL, which reads into the buffer itself,
\* and what follows it up to the next read.
ParseURL ==
  /\ pc = "url"
  /\ \E ret \in Rets, c \in Bytes :
       /\ ReadC(url[urlLen], ret, c)
       /\ phantom' = (phantom \/ ret # 1)
       /\ cutUrl' = (cutUrl \/ ret # 1)
       /\ token' = IF Fresh(ret) /\ c \notin Blank THEN Append(token, c) ELSE token
       /\ LET stop == c \in Blank
              buf == IF stop THEN url
                     ELSE [url EXCEPT ![urlLen] = UrlByte(c)]
              len == IF stop THEN urlLen ELSE urlLen + 1
              next == IF stop THEN c ELSE buf[len]
              again == ~stop /\ ret # 0 /\ Room(len, UrlBufferSize)
              skip == ~again /\ ret # 0 /\ next \notin Blank
          IN /\ urlLen' = len
             /\ IF again \/ skip
                THEN NoPush /\ url' = buf
                ELSE Push(next) /\ url' = [buf EXCEPT ![len] = NUL]
             /\ cur' = IF skip THEN next ELSE cur
             /\ pc' = IF again THEN pc ELSE IF skip THEN "urlskip" ELSE "vspace"
  /\ UNCHANGED <<ptr, mtok, eolCount, headersDone, outcome, oldUrl>>

\* Its second loop: the part of the URL that does not fit is dropped.
SkipURL ==
  /\ pc = "urlskip"
  /\ \E ret \in Rets, c \in Bytes :
       /\ ReadC(cur, ret, c)
       /\ phantom' = (phantom \/ ret # 1)
       /\ cutUrl' = (cutUrl \/ ret # 1)
       /\ IF ret # 0 /\ c \notin Blank
          THEN NoPush /\ cur' = c /\ UNCHANGED <<pc, url>>
          ELSE /\ Push(c) /\ cur' = None /\ pc' = "vspace"
               /\ url' = [url EXCEPT ![urlLen] = NUL]
  /\ UNCHANGED <<ptr, mtok, urlLen, eolCount, headersDone, outcome, oldUrl, token>>

VersionSpace ==
  /\ pc = "vspace"
  /\ \E ret \in Rets, c \in Bytes : ParseSpace(ret, c, "version", "veol")
  /\ token' = <<>> /\ cutUrl' = FALSE /\ oldUrl' = url
  /\ UNCHANGED <<ptr, mtok, url, urlLen, eolCount, headersDone, outcome>>

\* The rest of _attoHTTPParseVersion up to _attoHTTPParseEOL.  Unless a space
\* ended the loop, the byte that is pushed was never stored.
ParseVersion ==
  /\ pc = "version"
  /\ \E ret \in Rets, c \in Bytes, g \in Garbage :
       /\ ReadC(None, ret, c)
       /\ LET stop == c \in Space
              p == IF stop THEN ptr ELSE ptr + 1
              again == ~stop /\ ret # 0 /\ Room(p, VersionSize)
          IN /\ IF again THEN NoPush ELSE Push(IF stop THEN c ELSE g)
             /\ ptr' = IF again THEN p ELSE 0
             /\ pc' = IF again THEN pc ELSE "veol"
             /\ phantom' = (phantom \/ ret # 1 \/ ~(stop \/ again))
  /\ UNCHANGED <<cur, mtok, url, urlLen, eolCount, headersDone, outcome, oldUrl,
                 token, cutUrl>>

\* _attoHTTPParseEOL.  Its ret is a uint8_t, so -1 goes on like 1; the value
\* returned is an int8_t again.
ParseEOL ==
  /\ pc \in {"veol", "heol"}
  /\ \E ret \in Rets, c \in Bytes :
       /\ ReadC(cur, ret, c)
       /\ phantom' = (phantom \/ ret # 1)
       /\ LET n == IF c = "\n" THEN eolCount + 1 ELSE eolCount
              again == (c \in Space \/ n = 0) /\ More8(ret) /\ n < 2
              stop == BlankLine(n) \/ (pc = "heol" /\ ret <= 0)
          IN /\ IF again THEN NoPush ELSE Push(c)
             /\ cur' = IF again THEN c ELSE None
             /\ eolCount' = IF again THEN n ELSE 0
             /\ headersDone' = (headersDone \/ (~again /\ BlankLine(n)))
             /\ pc' = IF again THEN pc ELSE IF stop THEN "done" ELSE "hname"
  /\ UNCHANGED <<ptr, mtok, url, urlLen, outcome, oldUrl, token, cutUrl>>

\* _attoHTTPParseHeader: the name, up to ":" or the end of its buffer
HeaderName ==
  /\ pc = "hname"
  /\ \E ret \in Rets, c \in Bytes :
       /\ ReadC(None, ret, c)
       /\ phantom' = (phantom \/ ret # 1)
       /\ LET p == IF c = ":" THEN ptr ELSE ptr + 1
              again == c # ":" /\ ret > 0 /\ Room(p, NameSize)
          IN /\ ptr' = IF again THEN p ELSE 0
             /\ pc' = IF again THEN pc ELSE "hspace"
  /\ NoPush
  /\ UNCHANGED <<cur, mtok, url, urlLen, eolCount, headersDone, outcome, oldUrl,
                 token, cutUrl>>

HeaderSpace ==
  /\ pc = "hspace"
  /\ \E ret \in Rets, c \in Bytes : ParseSpace(ret, c, "hvalue", "hvalue")
  /\ UNCHANGED <<ptr, mtok, url, urlLen, eolCount, headersDone, outcome, oldUrl,
                 token, cutUrl>>

\* The value, up to the end of the line or of its buffer.  A failed read
\* pushes the byte behind the value, whatever the buffer holds there.
HeaderValue ==
  /\ pc = "hvalue"
  /\ \E ret \in Rets, c \in Bytes, g \in Garbage :
       /\ ReadC(None, ret, c)
       /\ phantom' = (phantom \/ ret # 1)
       /\ LET stop == c \in {"\r", "\n"}
              p == IF stop THEN ptr ELSE ptr + 1
              again == ~stop /\ ret > 0 /\ Room(p, ValueSize)
          IN /\ IF again \/ ~Room(p, ValueSize) THEN NoPush
                ELSE Push(IF stop THEN c ELSE g)
             /\ ptr' = IF again THEN p ELSE 0
             /\ pc' = IF again THEN pc ELSE "heol"
  /\ UNCHANGED <<cur, mtok, url, urlLen, eolCount, headersDone, outcome, oldUrl,
                 token, cutUrl>>

-----------------------------------------------------------------------------
(***************************************************************************)
(* The connection around the parser                                        *)
(***************************************************************************)
\* _attoHTTPInitRun: the URL buffer is not among what it resets.
InitRunKeepsUrlLen ==
  /\ extra' = None
  /\ headersDone' = FALSE
  /\ outcome' = "parsing"
  /\ UNCHANGED <<url, urlLen>>
InitRun ==
  /\ extra' = None
  /\ urlLen' = 0
  /\ headersDone' = FALSE
  /\ outcome' = "parsing"
  /\ UNCHANGED url

\* A new connection: the first thing attoHTTPExecute does.
Execute ==
  /\ pc = "closed"
  /\ pc' = "mspace"
  /\ InitRun
  /\ cur' = None
  /\ got' = 0
  /\ oldUrl' = url /\ token' = <<>> /\ cutUrl' = FALSE
  /\ last' = None /\ newlines' = 0 /\ erred' = FALSE /\ phantom' = FALSE
  /\ UNCHANGED <<ptr, mtok, eolCount>>

\* The request is answered and the connection closed; a request that goes to
\* the REST callback leaves the URL split at its slashes (module Server).
Dispatch ==
  /\ pc = "done"
  /\ pc' = "closed"
  /\ \/ UNCHANGED url
     \/ outcome = "parsing" /\ url' = Split(url, urlLen)
  /\ UNCHANGED <<extra, cur, ptr, mtok, urlLen, eolCount, headersDone, outcome,
                 got, history>>

Init ==
  /\ pc = "closed"
  /\ extra = None /\ cur = None
  /\ ptr = 0 /\ mtok = <<>> /\ eolCount = 0
  /\ url = [i \in UrlIndex |-> NUL] /\ urlLen = 0
  /\ headersDone = FALSE /\ outcome = "parsing"
  /\ got = 0
  /\ oldUrl = url /\ token = <<>> /\ cutUrl = FALSE
  /\ last = None /\ newlines = 0 /\ erred = FALSE /\ phantom = FALSE

Parse ==
  \/ MethodSpace
  \/ ParseMethod
  \/ URLSpace
  \/ ParseURL
  \/ SkipURL
  \/ VersionSpace
  \/ ParseVersion
  \/ ParseEOL
  \/ HeaderName
  \/ HeaderSpace
  \/ HeaderValue

Next == Execute \/ Parse \/ Dispatch

Spec == Init /\ [][Next]_vars

\* A step of the parser that needs no read to fail with -1: where reads can time
\* out, which returns 0, nothing says that one of them must fail with an error.
ParseWithoutError == Parse /\ (0 \in Fails => UNCHANGED erred)

\* attoHTTPExecute is never suspended: every call of attoHTTPGetByte returns,
\* at the latest when it times out.
FairSpec == Spec /\ WF_vars(ParseWithoutError)

-----------------------------------------------------------------------------
(* Types, and with them the bounds of every buffer: each index is one the  *)
(* code may write its byte, or the terminator, at.                         *)
TypeOK ==
  /\ pc \in {"closed", "mspace", "method", "uspace", "url", "urlskip", "vspace",
             "version", "veol", "hname", "hspace", "hvalue", "heol", "done"}
  /\ extra \in (Bytes \ {NUL}) \cup {None}
  /\ cur \in Bytes \cup {None}
  /\ ptr \in Nat
  /\ pc = "version" => ptr < VersionSize - 1
  /\ pc = "hname" => ptr < NameSize - 1
  /\ pc = "hvalue" => ptr < ValueSize - 1
  /\ pc \notin {"version", "hname", "hvalue"} => ptr = 0
  /\ mtok \in Seq(Bytes)
  /\ Len(mtok) < MethodSize - 1
  /\ url \in [UrlIndex -> Bytes]
  /\ urlLen \in UrlIndex
  /\ pc = "url" => urlLen < UrlBufferSize - 1
  /\ eolCount \in 0..1
  /\ headersDone \in BOOLEAN
  /\ outcome \in {"parsing", "500", "501"}
  /\ got \in 0..MaxInput
  /\ oldUrl \in [UrlIndex -> Bytes]
  /\ token \in Seq(Bytes)
  /\ cutUrl \in BOOLEAN
  /\ last \in ClientBytes \cup {None}
  /\ newlines \in 0..2
  /\ erred \in BOOLEAN /\ phantom \in BOOLEAN

(* _attoHTTP_url always ends in a terminator and never holds a blank or a  *)
(* "?": whatever a failed read leaves, and whatever the next request finds *)
(* in the buffer, the string functions stop inside it and the loop of      *)
(* _attoHTTPParseURL does not mistake an old byte for the end of the URL.  *)
UrlBufferClean ==
  /\ url[UrlBufferSize - 1] = NUL
  /\ \A i \in UrlIndex : url[i] \notin Blank \cup {"?"}

(* Unless a read fails with -1, the loops of _attoHTTPParseURL store what  *)
(* UrlBuffer!Stored says, for every token, buffer size and place where the *)
(* stream may end; a request without a URL leaves the buffer of the        *)
(* request before it.                                                      *)
UrlStored ==
  (pc = "vspace" /\ cur = None /\ ~erred /\ \A i \in DOMAIN token : token[i] # NUL) =>
    IF token = <<>> THEN url = oldUrl /\ urlLen = 0
    ELSE /\ url = Stored(oldUrl, token, cutUrl)
         /\ urlLen = StoredLen(token, cutUrl)

(* If the client's bytes, and nothing else, were used, the headers end at a *)
(* line break that follows another with only spaces between them, and the   *)
(* parser has read nothing behind it: the body is intact.                   *)
HeadEndsAtBlankLine ==
  (headersDone /\ ~phantom) => newlines = 2 /\ last = "\n"

(* Every request none of whose reads fails with -1 is parsed to its end    *)
(* once the client has sent all it will send, whenever it stops: the loops *)
(* all end on a read that returns 0.                                       *)
ParsingEnds == pc = "mspace" ~> (pc = "done" \/ erred)

(* attohttp.c:1293, attoHTTPExecute "will process one connection, start to *)
(* finish, when it is run": every request is parsed to its end.            *)
EveryRequestEnds == pc = "mspace" ~> pc = "done"
=============================================================================
