----------------------------- MODULE UrlParams -----------------------------
(***************************************************************************)
(* attoHTTPParseURLParam: how a REST callback takes the parameters of its  *)
(* request one by one, out of the URL buffer for GET and out of the body   *)
(* for a url-encoded POST.  One step is one call of                        *)
(* _attoHTTPParseURLParamChar and what is done with the character.         *)
(*                                                                         *)
(* The caller says that its buffers have NameSize and ValueSize bytes;     *)
(* name and value are the bytes a call has written to them, from their     *)
(* first one on, the terminators of lines 1076 and 1077 included: these go *)
(* behind a buffer that is full.                                           *)
(***************************************************************************)
EXTENDS UrlBuffer, FiniteSets

CONSTANTS
  Bytes,         \* all bytes but NUL
  Tokens,        \* URL tokens clients send with GET
  PostTokens,    \* URL tokens clients send with POST
  Bodies,        \* url-encoded bodies clients send
  Decoded,       \* strtol(decode, NULL, 16) for the two bytes behind a "%"
  NameSize,      \* name_len of the callback's calls
  ValueSize,     \* value_len of the callback's calls
  MaxCalls,      \* bound on attoHTTPParseParam calls in one request
  StartMod       \* 2^16, _attoHTTP_url_params_start is a uint16_t

Space == {"sp", "\r", "\n"}                  \* isspace
UrlBytes == (Bytes \ {"?"}) \cup {NUL}      \* what the URL buffer may hold

ASSUME UrlParamsAssumption ==
  /\ NUL \notin Bytes
  /\ Tokens \subseteq Seq(Bytes) /\ PostTokens \subseteq Seq(Bytes)
  /\ Bodies \subseteq Seq(Bytes)
  /\ Decoded \in [(Bytes \cup {NUL}) \X (Bytes \cup {NUL}) -> Bytes \cup {NUL}]
  /\ NameSize \in 1..255 /\ ValueSize \in 1..255
  /\ MaxCalls \in Nat
  /\ StartMod \in Nat /\ UrlBufferSize + 3 * MaxCalls < StartMod

VARIABLES
  pc,        \* "idle", "callback", or the read ParseURLParam stands at
  method,    \* _attoHTTPMethod
  url,       \* _attoHTTP_url
  urlLen,    \* _attoHTTP_url_len
  params,    \* _attoHTTP_url_params, as an index of url; NoPtr is NULL
  start,     \* _attoHTTP_url_params_start
  body,      \* bytes of the body that have not been read
  name, value,   \* what the last call wrote to the caller's buffers
  nameLen, valueLen, count,   \* locals of ParseURLParam
  hex,       \* decode[0]
  calls      \* calls of ParseParam in this request

(* History variables, read by no guard. *)
VARIABLES
  sent,      \* the characters of this request the parameters are in
  whole,     \* no read of this request failed with characters outstanding
  out        \* the pairs handed out in this request, in order

locals == <<name, nameLen, value, valueLen, count>>
vars == <<pc, method, url, urlLen, params, start, body, locals, hex, calls,
          sent, whole, out>>

NoPtr == -1
Reading == {"param", "hex1", "hex2"}

-----------------------------------------------------------------------------
\* The position behind the last "?" that _attoHTTPParseURL stores.
LastMark(tok, i) ==
  /\ i \in 1..Len(Cut(tok, UrlBufferSize - 1))
  /\ tok[i] = "?"
  /\ \A j \in i + 1..Len(Cut(tok, UrlBufferSize - 1)) : tok[j] # "?"
ParamsOf(tok) ==
  IF \E i \in 1..Len(tok) : LastMark(tok, i)
  THEN CHOOSE i \in 1..Len(tok) : LastMark(tok, i)
  ELSE NoPtr

\* attoHTTPExecute up to the call of the REST callback: _attoHTTPInitRun,
\* _attoHTTPParseURL and the split of the URL into levels.
CallCallback(m, tok, eof, b) ==
  LET stored == Stored(url, tok, eof)
      len == StoredLen(tok, eof)
  IN /\ pc = "idle"
     /\ \E i \in Slashes(stored, len) : len - i > 1
     /\ pc' = "callback"
     /\ method' = m
     /\ url' = Split(stored, len)
     /\ urlLen' = len
     /\ params' = ParamsOf(tok)
     /\ start' = IF ParamsOf(tok) = NoPtr THEN UrlBufferSize ELSE ParamsOf(tok)
     /\ body' = b
     /\ sent' = IF m # "GET" THEN b
                ELSE IF ParamsOf(tok) = NoPtr THEN <<>>
                ELSE SubSeq(tok, ParamsOf(tok) + 1,
                            Len(Cut(tok, UrlBufferSize - 1)))
     /\ whole' = ~eof
     /\ calls' = 0 /\ out' = <<>>
     /\ UNCHANGED <<locals, hex>>

GetRequest(tok, eof) == CallCallback("GET", tok, eof, <<>>)
PostRequest(tok, b) == CallCallback("POST", tok, FALSE, b)

\* The callback calls attoHTTPParseParam, which clears the caller's buffers
\* and, for GET and for url-encoded bodies, calls attoHTTPParseURLParam.
ParseParam ==
  /\ pc = "callback"
  /\ calls < MaxCalls
  /\ calls' = calls + 1
  /\ name' = <<>> /\ value' = <<>>
  /\ nameLen' = NameSize /\ valueLen' = ValueSize
  /\ count' = 0
  /\ pc' = "param"
  /\ UNCHANGED <<method, url, urlLen, params, start, body, hex, sent, whole, out>>

-----------------------------------------------------------------------------
(***************************************************************************)
(* _attoHTTPParseURLParamChar: it returns ret and, when ret is 1, stores c *)
(***************************************************************************)
\* What *_attoHTTP_url_params may be; anything, if it points elsewhere.
Pointed == IF params \in UrlIndex THEN {url[params]} ELSE Bytes \cup {NUL}

InParamsAndOne == start <= UrlBufferSize
InParams == start < UrlBufferSize

UrlCharKeepsSeparator(ret, c) ==
  /\ method = "GET"
  /\ ret = IF InParams THEN 1 ELSE 0
  /\ InParams => c \in Pointed
  /\ start' = IF InParams /\ c = "&" THEN start ELSE (start + 1) % StartMod
  /\ params' = IF InParams /\ c # "&" THEN params + 1 ELSE params
  /\ UNCHANGED <<body, whole>>
UrlChar(ret, c) ==
  /\ method = "GET"
  /\ ret = IF InParams THEN 1 ELSE 0
  /\ InParams => c \in Pointed
  /\ start' = (start + 1) % StartMod
  /\ params' = IF InParams THEN params + 1 ELSE params
  /\ UNCHANGED <<body, whole>>

\* Blanks and "?" of a body are skipped; n bytes are read.
Skipped == Space \cup {"?"}
BodyChar(ret, c) ==
  /\ method # "GET"
  /\ \E n \in 1..Len(body) :
       /\ \A i \in 1..n - 1 : body[i] \in Skipped
       /\ body[n] \notin Skipped
       /\ ret = 1 /\ c = body[n]
       /\ body' = SubSeq(body, n + 1, Len(body))
  /\ UNCHANGED <<start, params, whole>>

\* The stream has ended, or the read times out behind n skipped bytes.
BodyFails(ret) ==
  /\ method # "GET"
  /\ ret = 0
  /\ \E n \in 0..Len(body) :
       /\ \A i \in 1..n : body[i] \in Skipped
       /\ body' = SubSeq(body, n + 1, Len(body))
       /\ whole' = (whole /\ n = Len(body))
  /\ UNCHANGED <<start, params>>

ParseURLParamChar(ret, c) ==
  UrlChar(ret, c) \/ BodyChar(ret, c) \/ BodyFails(ret)

\* After the loop that left n and v in the buffers, with nlen bytes of the
\* name's unused, both are terminated wherever they end, and
\* attoHTTPParseURLParam returns name_len == 0.
Return(n, v, nlen) ==
  /\ pc' = "callback"
  /\ value' = Append(v, NUL) /\ name' = Append(n, NUL)
  /\ out' = IF nlen = 0 THEN Append(out, <<n, v>>) ELSE out

\* The loop goes on while there is room for the value.
RoomUnchecked(vlen) == vlen >= 0
RoomLeft(vlen) == vlen > 0

\* A character that is neither a separator nor an escape.
Store(c) ==
  IF nameLen > 0
  THEN /\ name' = Append(name, c) /\ nameLen' = nameLen - 1
       /\ count' = count + 1
       /\ pc' = "param"
       /\ UNCHANGED <<value, valueLen, out>>
  ELSE /\ valueLen' = valueLen - 1
       /\ UNCHANGED <<nameLen, count>>
       /\ IF RoomLeft(valueLen - 1)
          THEN pc' = "param" /\ value' = Append(value, c) /\ UNCHANGED <<name, out>>
          ELSE Return(name, Append(value, c), nameLen)

\* A "&" ends the parameter once a character of its name has been stored.
AlwaysEnds == TRUE
Ends == count > 0

\* Nothing more to read, or a terminator.  A read of a body that fails with
\* -1 ends the loop as one that returns 0 does.
EndOfInput(ret, c) == ret = 0 \/ c = NUL

\* One iteration of the loop, up to the escape a "%" begins.  Except in
\* Store, value_len is above 0 and the loop goes on.
Param ==
  /\ pc = "param"
  /\ \E ret \in {0, 1}, c \in Bytes \cup {NUL} :
       /\ ParseURLParamChar(ret, c)
       /\ \/ /\ EndOfInput(ret, c)
             /\ Return(name, value, nameLen)
             /\ UNCHANGED <<nameLen, valueLen, count>>
          \/ /\ ~EndOfInput(ret, c) /\ c = "="
             /\ nameLen' = 0
             /\ UNCHANGED <<pc, name, value, valueLen, count, out>>
          \/ /\ ~EndOfInput(ret, c) /\ c \in {"&"} \cup Space
             /\ IF Ends THEN Return(name, value, nameLen)
                ELSE UNCHANGED <<pc, name, value, out>>
             /\ UNCHANGED <<nameLen, valueLen, count>>
          \/ /\ ~EndOfInput(ret, c) /\ c = "%"
             /\ pc' = "hex1"
             /\ UNCHANGED <<locals, out>>
          \/ /\ ~EndOfInput(ret, c) /\ c \notin {"=", "&", "%"} \cup Space
             /\ Store(c)
  /\ UNCHANGED <<method, url, urlLen, hex, calls, sent>>

\* The two characters of an escape.  What the reads return is ignored; after
\* one that fails, decode holds a byte that was never set.
Hex1 ==
  /\ pc = "hex1"
  /\ \E ret \in {0, 1}, c \in Bytes \cup {NUL} :
       ParseURLParamChar(ret, c) /\ hex' = c
  /\ pc' = "hex2"
  /\ UNCHANGED <<method, url, urlLen, locals, calls, sent, out>>

Hex2 ==
  /\ pc = "hex2"
  /\ \E ret \in {0, 1}, c \in Bytes \cup {NUL} :
       ParseURLParamChar(ret, c) /\ Store(Decoded[<<hex, c>>])
  /\ UNCHANGED <<method, url, urlLen, hex, calls, sent>>

\* The callback returns, its buffers with it, and the request ends.
EndCallback ==
  /\ pc = "callback"
  /\ pc' = "idle"
  /\ name' = <<>> /\ value' = <<>> /\ nameLen' = 0 /\ valueLen' = 0 /\ count' = 0
  /\ hex' = NUL
  /\ body' = <<>>
  /\ calls' = 0
  /\ sent' = <<>> /\ whole' = TRUE /\ out' = <<>>
  /\ UNCHANGED <<method, url, urlLen, params, start>>

-----------------------------------------------------------------------------
Init ==
  /\ pc = "idle"
  /\ method = "GET"
  /\ url = [i \in UrlIndex |-> NUL]
  /\ urlLen = 0
  /\ params = NoPtr /\ start = UrlBufferSize
  /\ body = <<>>
  /\ name = <<>> /\ value = <<>> /\ nameLen = 0 /\ valueLen = 0 /\ count = 0
  /\ hex = NUL
  /\ calls = 0
  /\ sent = <<>> /\ whole = TRUE /\ out = <<>>

ReadParam == Param \/ Hex1 \/ Hex2

Next ==
  \/ \E tok \in Tokens, eof \in BOOLEAN : GetRequest(tok, eof)
  \/ \E tok \in PostTokens, b \in Bodies : PostRequest(tok, b)
  \/ ParseParam
  \/ ReadParam
  \/ EndCallback

Spec == Init /\ [][Next]_vars
FairSpec == Spec /\ WF_vars(ReadParam)

-----------------------------------------------------------------------------
(* Types.  Neither of the lengths that count down passes zero, though the  *)
(* loop only asks for value_len.                                           *)
TypeOK ==
  /\ pc \in Reading \cup {"idle", "callback"}
  /\ method \in {"GET", "POST"}
  /\ url \in [UrlIndex -> UrlBytes]
  /\ urlLen \in UrlIndex
  /\ params \in {NoPtr} \cup 0..UrlBufferSize
  /\ start \in 0..StartMod - 1
  /\ body \in Seq(Bytes)
  /\ name \in Seq(Bytes \cup {NUL}) /\ value \in Seq(Bytes \cup {NUL})
  /\ nameLen \in 0..NameSize /\ valueLen \in 0..ValueSize
  /\ count \in 0..NameSize
  /\ hex \in Bytes \cup {NUL}
  /\ calls \in 0..MaxCalls
  /\ whole \in BOOLEAN

\* Of a buffer of n bytes, what was written to it is inside, or all but a
\* terminator right behind it.
Fits(written, n) == Len(written) <= n
FitsButTerminator(written, n) ==
  Fits(written, n) \/ (Len(written) = n + 1 /\ written[n + 1] = NUL)

(* The lengths documented in attohttp.c:1032, 1034, 1094 and 1096 hold for *)
(* the characters of a name and of a value but not for what ends them:     *)
(* while a call reads, what it has written is inside of the caller's       *)
(* buffers, and when it has returned, at most one byte of each, the        *)
(* terminator of a name or value that fills its buffer, is behind it.      *)
OnlyTerminatorBehind ==
  /\ pc \in Reading => Fits(name, NameSize) /\ Fits(value, ValueSize)
  /\ FitsButTerminator(name, NameSize) /\ FitsButTerminator(value, ValueSize)

(* _attoHTTPParseURLParamChar guards a pointer with an index that is kept  *)
(* apart from it and counts on behind the end of the buffer, modulo 2^16:  *)
(* whenever the guard lets a read through, in a call or in the next one,   *)
(* the pointer is the index and points into the URL buffer.                *)
ReadsInBuffer ==
  (pc # "idle" /\ method = "GET" /\ InParams)
    => params = start /\ params \in UrlIndex

(* Every attoHTTPParseURLParam returns, whatever the request is made of.   *)
CallsReturn == pc \in Reading ~> pc = "callback"

(***************************************************************************)
(* What a well-formed request means, without the loop: segments between    *)
(* "&", each a name, one "=" and a value that fit in the caller's buffers, *)
(* with two bytes behind every "%" and without white space.                *)
(***************************************************************************)
\* The k-th position of a set of positions.
Nth(S, k) == CHOOSE i \in S : Cardinality({j \in S : j <= i}) = k

Kept == {i \in 1..Len(sent) : sent[i] \notin Skipped}
Query == IF method = "GET" THEN sent
         ELSE [k \in 1..Cardinality(Kept) |-> sent[Nth(Kept, k)]]
Amps == {i \in 1..Len(Query) : Query[i] = "&"}
Segments == IF Query = <<>> THEN 0 ELSE Cardinality(Amps) + 1
Border(k) ==
  IF k = 0 THEN 0 ELSE IF k > Cardinality(Amps) THEN Len(Query) + 1
  ELSE Nth(Amps, k)
Segment(k) == SubSeq(Query, Border(k - 1) + 1, Border(k) - 1)

\* Every byte stands for a character but the two behind a "%".
Chars(s) == {i \in 1..Len(s) : \A j \in {i - 1, i - 2} \cap 1..Len(s) : s[j] # "%"}
Decode(s) ==
  [k \in 1..Cardinality(Chars(s)) |->
     LET i == Nth(Chars(s), k)
     IN IF s[i] = "%" THEN Decoded[<<s[i + 1], s[i + 2]>>] ELSE s[i]]
Escaped(s) ==
  \A i \in 1..Len(s) :
    s[i] = "%" => i + 2 <= Len(s) /\ s[i+1] # "%" /\ s[i+2] # "%"
NameOf(s) == Before(s, "=")
ValueOf(s) == SubSeq(s, Len(NameOf(s)) + 2, Len(s))
WellFormedSegment(s) ==
  /\ Cardinality({i \in 1..Len(s) : s[i] = "="}) = 1
  /\ \A i \in 1..Len(s) : s[i] \notin Space
  /\ Escaped(NameOf(s)) /\ Escaped(ValueOf(s))
  /\ Len(Decode(NameOf(s))) \in 1..NameSize
  /\ Len(Decode(ValueOf(s))) <= ValueSize
WellFormed == whole /\ \A k \in 1..Segments : WellFormedSegment(Segment(k))

\* The pairs the first n calls should hand out.
Pairs(n) ==
  [k \in 1..(IF n < Segments THEN n ELSE Segments) |->
     << Decode(NameOf(Segment(k))), Decode(ValueOf(Segment(k))) >>]

\* A call has gone on behind the terminator of this request's URL.
PastEnd == method = "GET" /\ params > urlLen + 1

(* Each call hands out the next parameter of a well-formed request, its    *)
(* escapes decoded and no escaped "&" or "=" taken for a separator, until  *)
(* there are no more.  In a URL this holds up to its terminator.           *)
NextParamEachCall ==
  (pc = "callback" /\ WellFormed /\ ~PastEnd) => out = Pairs(calls)

(* attohttp.c:1087, attoHTTPParseParam for GET "Reads the params from the  *)
(* url": a parameter handed out is one of this request.                    *)
ParamsFromTheUrl ==
  (pc = "callback" /\ WellFormed) => out = Pairs(calls)
=============================================================================
