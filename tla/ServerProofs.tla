---------------------------- MODULE ServerProofs ----------------------------
(***************************************************************************)
(* Proofs about Server, for every registry, every set of URLs and codes    *)
(* and every size of the buffers.                                          *)
(***************************************************************************)
EXTENDS Server, UrlBufferProofs, TLAPS

(* A reply is a record with the four fields the output functions update.   *)
IsReply(r) ==
  r = [firstlineSent |-> r.firstlineSent, headersSent |-> r.headersSent,
       returnCode |-> r.returnCode, wire |-> r.wire]

(***************************************************************************)
(* The inductive invariant behind AuthBeforeService.  While the request is *)
(* parsed, the return code remembers a rejected header (it never becomes   *)
(* STATUS_RUNKNOWN again) and the flag remembers that there was a header.  *)
(***************************************************************************)
Parsing == pc \in {"url", "headers", "gate"}

CodeRemembers == resp.returnCode = STATUS_RUNKNOWN => authSeen \subseteq {"good"}

FlagRemembers == authenticated => authSeen # {}

NothingServed == served = NULL /\ resp.returnCode # STATUS_SERVERSENTEVENTS

AuthInv ==
  /\ IsReply(resp)
  /\ AuthBuild /\ Parsing => CodeRemembers /\ FlagRemembers /\ NothingServed
  /\ AuthBeforeService

-----------------------------------------------------------------------------
(***************************************************************************)
(* What the output functions do to the return code.                        *)
(***************************************************************************)
LEMMA FirstLineCode ==
  ASSUME NEW r, IsReply(r), NEW code
  PROVE  /\ IsReply(FirstLine(r, code))
         /\ FirstLine(r, code).returnCode \in {r.returnCode, STATUS_INTERNAL_ERROR}
BY DEF FirstLine, IsReply

LEMMA WriteCode ==
  ASSUME NEW r, IsReply(r), NEW c
  PROVE  IsReply(Write(r, c)) /\ Write(r, c).returnCode = r.returnCode
BY DEF Write, IsReply

LEMMA HeaderBlockCode ==
  ASSUME NEW r, IsReply(r), NEW t
  PROVE  IsReply(HeaderBlock(r, t)) /\ HeaderBlock(r, t).returnCode = r.returnCode
BY DEF HeaderBlock, IsReply

LEMMA SetCode ==
  ASSUME NEW r, IsReply(r), NEW code
  PROVE  /\ IsReply([r EXCEPT !.returnCode = code])
         /\ [r EXCEPT !.returnCode = code].returnCode = code
BY DEF IsReply

LEMMA SetHeadersSent ==
  ASSUME NEW r, IsReply(r), NEW b
  PROVE  IsReply([r EXCEPT !.headersSent = b])
BY DEF IsReply

LEMMA SetWire ==
  ASSUME NEW r, IsReply(r), NEW w
  PROVE  IsReply([r EXCEPT !.wire = w])
BY DEF IsReply

LEMMA SetThree ==
  ASSUME NEW r, IsReply(r), NEW b, NEW code, NEW w
  PROVE  IsReply([r EXCEPT !.headersSent = b, !.returnCode = code, !.wire = w])
<1> DEFINE r1 == [r EXCEPT !.headersSent = b]
           r2 == [r1 EXCEPT !.returnCode = code]
<1>1. [r EXCEPT !.headersSent = b, !.returnCode = code, !.wire = w]
        = [r2 EXCEPT !.wire = w]
  OBVIOUS
<1>2. IsReply(r1)
  BY SetHeadersSent
<1> HIDE DEF r1
<1>3. IsReply(r2)
  BY <1>2, SetCode
<1> HIDE DEF r2
<1> QED
  BY <1>1, <1>3, SetWire

LEMMA EventHeadersCode ==
  ASSUME NEW r, IsReply(r)
  PROVE  IsReply(SendServerSentEventHeaders(r))
<1> DEFINE f == FirstLine(r, STATUS_OK)
<1>1. IsReply(f)
  BY FirstLineCode
<1> HIDE DEF f
<1>2. IsReply([f EXCEPT !.headersSent = TRUE,
                        !.returnCode = STATUS_SERVERSENTEVENTS,
                        !.wire = Append(@, Headers(TEXT_EVENTSTREAM))])
  BY <1>1, SetThree
<1> QED
  BY <1>2 DEF SendServerSentEventHeaders, f

LEMMA AuthMessageCode ==
  ASSUME NEW r, IsReply(r), r.returnCode = STATUS_UNAUTHORIZED
  PROVE  /\ IsReply(SendAuthMessage(r))
         /\ SendAuthMessage(r).returnCode # STATUS_SERVERSENTEVENTS
<1> DEFINE f == FirstLine(r, STATUS_UNAUTHORIZED)
           h == HeaderBlock(f, Challenge)
<1>1. IsReply(f) /\ f.returnCode \in {STATUS_UNAUTHORIZED, STATUS_INTERNAL_ERROR}
  BY FirstLineCode
<1> HIDE DEF f
<1>2. IsReply(h) /\ h.returnCode = f.returnCode
  BY <1>1, HeaderBlockCode
<1> HIDE DEF h
<1>3. IsReply(Write(h, AuthErrorMsg)) /\ Write(h, AuthErrorMsg).returnCode = f.returnCode
  BY <1>2, WriteCode
<1>4. SendAuthMessage(r) \in {f, Write(h, AuthErrorMsg)}
  BY DEF SendAuthMessage, f, h
<1>5. SendAuthMessage(r).returnCode = f.returnCode
  BY <1>3, <1>4
<1>6. STATUS_SERVERSENTEVENTS \notin {STATUS_UNAUTHORIZED, STATUS_INTERNAL_ERROR}
  BY DEF STATUS_SERVERSENTEVENTS, STATUS_UNAUTHORIZED, STATUS_INTERNAL_ERROR
<1> QED
  BY <1>1, <1>3, <1>4, <1>5, <1>6

-----------------------------------------------------------------------------
(***************************************************************************)
(* The actions, grouped by what they do to the invariant.                  *)
(***************************************************************************)
(* Steps of the application between two requests.                          *)
LEMMA RegisterStep == ASSUME AuthInv, Register PROVE AuthInv'
<1>1. CASE HTTPInit
  <2>1. /\ resp' = NoReply /\ served' = NULL /\ pc' = "idle"
    BY <1>1 DEF HTTPInit
  <2>2. IsReply(NoReply) /\ NoReply.returnCode = STATUS_RUNKNOWN
    BY DEF IsReply, NoReply
  <2>3. STATUS_RUNKNOWN # STATUS_SERVERSENTEVENTS
    BY DEF STATUS_RUNKNOWN, STATUS_SERVERSENTEVENTS
  <2> QED
    BY <2>1, <2>2, <2>3, Zenon DEF AuthInv, AuthBeforeService, Parsing
<1>2. CASE ~HTTPInit
  <2>1. UNCHANGED <<pc, resp, served, authSeen, authenticated>>
    BY <1>2 DEF Register, AddPage, DefaultPage, ServerSetEventsURL, DefaultREST,
                hdrVars
  <2> QED
    BY <2>1 DEF AuthInv, AuthBeforeService, Parsing, CodeRemembers,
                FlagRemembers, NothingServed
<1> QED
  BY <1>1, <1>2

(* The request begins: nothing is inherited.                               *)
LEMMA ExecuteStep == ASSUME AuthInv, NEW m, Execute(m) PROVE AuthInv'
<1>1. /\ served' = NULL /\ authSeen' = {} /\ authenticated' = ~AuthBuild
      /\ pc' \in {"url", "gate"}
  BY DEF Execute, InitRun
<1>2. PICK code \in {STATUS_RUNKNOWN, STATUS_UNSUPPORTED, STATUS_INTERNAL_ERROR} :
        resp' = [NoReply EXCEPT !.returnCode = code]
  <2>1. NoReply.returnCode = STATUS_RUNKNOWN
    BY DEF NoReply
  <2> QED
    BY <2>1 DEF Execute
<1>3. IsReply(NoReply)
  BY DEF IsReply, NoReply
<1>4. IsReply(resp') /\ resp'.returnCode = code
  BY <1>2, <1>3, SetCode
<1>5. code # STATUS_SERVERSENTEVENTS
  BY <1>2 DEF STATUS_RUNKNOWN, STATUS_UNSUPPORTED, STATUS_INTERNAL_ERROR,
              STATUS_SERVERSENTEVENTS
<1> QED
  BY <1>1, <1>4, <1>5, Zenon
  DEF AuthInv, AuthBeforeService, CodeRemembers, FlagRemembers, NothingServed

(* Steps of the parser that do not look at authentication.                 *)
LEMMA ParseStep ==
  ASSUME AuthInv,
         \/ ParseURLMissing
         \/ \E tok \in Tokens, eof \in BOOLEAN : ParseURL(tok, eof)
         \/ \E t \in AppTypes : AcceptHeader(t)
         \/ \E t \in AppTypes : ContentTypeHeader(t)
         \/ HeadersDone
  PROVE  AuthInv'
<1>1. UNCHANGED <<resp, served, authSeen, authenticated>>
  BY DEF ParseURLMissing, ParseURL, AcceptHeader, ContentTypeHeader, HeadersDone,
         hdrVars
<1>2. Parsing /\ Parsing' /\ pc' \notin {"find", "callback"}
  BY DEF Parsing, ParseURLMissing, ParseURL, AcceptHeader, ContentTypeHeader,
         HeadersDone
<1> QED
  BY <1>1, <1>2
  DEF AuthInv, AuthBeforeService, CodeRemembers, FlagRemembers, NothingServed

(* An Authorization header: a rejected one leaves its mark on the code.    *)
LEMMA AuthorizationStep ==
  ASSUME AuthInv, NEW v \in Verdicts, AuthorizationHeader(v)
  PROVE  AuthInv'
<1>1. /\ Parsing /\ Parsing' /\ pc' \notin {"find", "callback"}
      /\ AuthBuild /\ served' = served
      /\ authSeen' = authSeen \cup {v}
  BY DEF AuthorizationHeader, Parsing
<1>2. IsReply(resp) /\ CodeRemembers /\ FlagRemembers /\ NothingServed
  BY <1>1 DEF AuthInv
<1>3. /\ IsReply(resp')
      /\ resp'.returnCode = CodeAfterAuth(resp.returnCode, v)
  BY <1>2, SetCode DEF AuthorizationHeader
<1>4. /\ STATUS_UNAUTHORIZED # STATUS_RUNKNOWN
      /\ STATUS_UNAUTHORIZED # STATUS_SERVERSENTEVENTS
  BY DEF STATUS_UNAUTHORIZED, STATUS_RUNKNOWN, STATUS_SERVERSENTEVENTS
<1>5. v \in {"good", "bad", "scheme"}
  BY DEF Verdicts
<1>6. CodeRemembers'
  <2> SUFFICES ASSUME resp'.returnCode = STATUS_RUNKNOWN
               PROVE  authSeen' \subseteq {"good"}
    BY DEF CodeRemembers
  <2>1. v = "good" /\ resp.returnCode = STATUS_RUNKNOWN
    BY <1>3, <1>4, <1>5 DEF CodeAfterAuth
  <2> QED
    BY <1>1, <1>2, <2>1 DEF CodeRemembers
<1>7. FlagRemembers'
  BY <1>1 DEF FlagRemembers
<1>8. NothingServed'
  BY <1>1, <1>2, <1>3, <1>4, <1>5 DEF NothingServed, CodeAfterAuth
<1> QED
  BY <1>1, <1>3, <1>6, <1>7, <1>8, Zenon
  DEF AuthInv, AuthBeforeService, NothingServed

(* The only way into service.                                              *)
LEMMA GateStep == ASSUME AuthInv, Gate PROVE AuthInv'
<1>1. /\ Parsing /\ UNCHANGED <<served, authSeen, authenticated>>
      /\ pc' \in {"find", "reply"}
  BY DEF Gate, Parsing, hdrVars
<1>2. IsReply(resp)
  BY DEF AuthInv
<1>3. PICK code \in {STATUS_NOT_FOUND, STATUS_UNAUTHORIZED, resp.returnCode} :
        resp' = [resp EXCEPT !.returnCode = code]
  BY DEF Gate
<1>4. IsReply(resp') /\ resp'.returnCode = code
  BY <1>2, <1>3, SetCode
<1>5. pc' = "find" => authenticated /\ resp.returnCode = STATUS_RUNKNOWN
  BY DEF Gate, STATUS_UNAUTHORIZED, STATUS_RUNKNOWN
<1>6. STATUS_NOT_FOUND # STATUS_SERVERSENTEVENTS
      /\ STATUS_UNAUTHORIZED # STATUS_SERVERSENTEVENTS
  BY DEF STATUS_NOT_FOUND, STATUS_UNAUTHORIZED, STATUS_SERVERSENTEVENTS
<1>7. ~Parsing'
  BY <1>1 DEF Parsing
<1>8. ASSUME AuthBuild PROVE NothingServed' /\ (pc' = "find" => authSeen' = {"good"})
  <2>1. CodeRemembers /\ FlagRemembers /\ NothingServed
    BY <1>1, <1>8 DEF AuthInv
  <2>2. NothingServed'
    BY <1>1, <1>3, <1>4, <1>6, <2>1 DEF NothingServed
  <2>3. pc' = "find" => authSeen' = {"good"}
    BY <1>1, <1>5, <2>1 DEF CodeRemembers, FlagRemembers
  <2> QED
    BY <2>2, <2>3
<1>9. pc' # "callback"
  BY <1>1
<1> QED
  BY <1>4, <1>7, <1>8, <1>9, Zenon DEF AuthInv, AuthBeforeService, NothingServed

(* What runs behind the gate keeps the verdicts.                           *)
LEMMA BehindGate ==
  ASSUME AuthInv, pc \in {"find", "callback"}, ~Parsing', IsReply(resp'),
         authSeen' = authSeen
  PROVE  AuthInv'
BY DEF AuthInv, AuthBeforeService

LEMMA FindStep ==
  ASSUME AuthInv, FindPage \/ FindEvents \/ FindNothing \/ FindAPICallback
  PROVE  AuthInv'
<1>1. pc = "find" /\ pc' \in {"reply", "callback"} /\ authSeen' = authSeen
  BY DEF FindPage, FindEvents, FindNothing, FindAPICallback, hdrVars
<1>2. IsReply(resp)
  BY DEF AuthInv
<1>3. CASE FindPage
  <2> DEFINE r1 == [resp EXCEPT !.returnCode = STATUS_OK]
             r2 == FirstLine(r1, r1.returnCode)
             r3 == HeaderBlock(r2, FoundPage.type)
             r4 == [resp EXCEPT !.returnCode = STATUS_UNSUPPORTED]
  <2>1. IsReply(r1) /\ IsReply(r4)
    BY <1>2, SetCode
  <2>2. resp' \in {Write(r3, FoundPage.content), r4}
    BY <1>3, Zenon DEF FindPage, SendHeaders
  <2> HIDE DEF r1
  <2>3. IsReply(r2)
    BY <2>1, FirstLineCode
  <2> HIDE DEF r2
  <2>4. IsReply(r3)
    BY <2>3, HeaderBlockCode
  <2> HIDE DEF r3
  <2>5. IsReply(Write(r3, FoundPage.content))
    BY <2>4, WriteCode
  <2> HIDE DEF r4
  <2>6. IsReply(resp')
    BY <2>1, <2>2, <2>5, Zenon
  <2> QED
    BY <1>1, <2>6, BehindGate DEF Parsing
<1>4. CASE FindEvents
  <2>1. IsReply(resp')
    BY <1>2, <1>4, EventHeadersCode DEF FindEvents
  <2> QED
    BY <1>1, <2>1, BehindGate DEF Parsing
<1>5. CASE FindNothing \/ FindAPICallback
  <2>1. \/ resp' = resp
        \/ resp' = [resp EXCEPT !.returnCode = STATUS_INTERNAL_ERROR]
    BY <1>5 DEF FindNothing, FindAPICallback
  <2>2. IsReply(resp')
    BY <1>2, <2>1, SetCode
  <2> QED
    BY <1>1, <2>2, BehindGate DEF Parsing
<1> QED
  BY <1>3, <1>4, <1>5

LEMMA CallbackStepKeeps ==
  ASSUME AuthInv, NEW r, IsReply(r), CallbackStep(r)
  PROVE  AuthInv'
<1>1. /\ pc = "callback" /\ pc' = "callback" /\ authSeen' = authSeen /\ resp' = r
  BY DEF CallbackStep, hdrVars
<1> QED
  BY <1>1, BehindGate DEF Parsing

LEMMA RunCallbackStep == ASSUME AuthInv, RunCallback PROVE AuthInv'
<1>1. IsReply(resp)
  BY DEF AuthInv
<1>2. ASSUME NEW c, CallbackFirstLine(c) PROVE AuthInv'
  BY <1>1, <1>2, FirstLineCode, CallbackStepKeeps DEF CallbackFirstLine
<1>3. ASSUME NEW c, NEW t, CallbackStep(HeaderBlock(FirstLine(resp, c), t))
      PROVE  AuthInv'
  <2>1. IsReply(FirstLine(resp, c))
    BY <1>1, FirstLineCode
  <2>2. IsReply(HeaderBlock(FirstLine(resp, c), t))
    BY <2>1, HeaderBlockCode
  <2> QED
    BY <1>3, <2>2, CallbackStepKeeps
<1>4. CASE CallbackSendHeaders
  BY <1>3, <1>4 DEF CallbackSendHeaders, SendHeaders
<1>5. ASSUME NEW c, NEW t, CallbackRESTSendHeaders(c, t) PROVE AuthInv'
  BY <1>3, <1>5 DEF CallbackRESTSendHeaders, RESTSendHeaders
<1>6. CASE CallbackWrite
  BY <1>1, <1>6, WriteCode, CallbackStepKeeps DEF CallbackWrite
<1>7. ASSUME NEW c, CallbackReturn(c) PROVE AuthInv'
  <2>1. /\ pc = "callback" /\ pc' = "reply" /\ authSeen' = authSeen
    BY <1>7 DEF CallbackReturn, hdrVars
  <2>2. IsReply(resp')
    BY <1>1, <1>7, SetCode DEF CallbackReturn
  <2> QED
    BY <2>1, <2>2, BehindGate DEF Parsing
<1> QED
  BY <1>2, <1>4, <1>5, <1>6, <1>7 DEF RunCallback

(* The last part of Execute does not turn a refusal into an event stream.  *)
LEMMA ReplyStep == ASSUME AuthInv, Reply PROVE AuthInv'
<1>1. /\ pc = "reply" /\ pc' = "idle" /\ UNCHANGED <<served, authSeen>>
  BY DEF Reply, hdrVars
<1>2. IsReply(resp) /\ AuthBeforeService
  BY DEF AuthInv
<1>3. STATUS_INTERNAL_ERROR # STATUS_SERVERSENTEVENTS
  BY DEF STATUS_INTERNAL_ERROR, STATUS_SERVERSENTEVENTS
<1>4. /\ IsReply(resp')
      /\ resp'.returnCode = STATUS_SERVERSENTEVENTS
           => resp.returnCode = STATUS_SERVERSENTEVENTS
  <2>1. CASE resp.returnCode = STATUS_UNAUTHORIZED
    <3>1. resp' = SendAuthMessage(resp)
      BY <2>1 DEF Reply
    <3> QED
      BY <1>2, <2>1, <3>1, AuthMessageCode
  <2>2. CASE resp.returnCode # STATUS_UNAUTHORIZED
    <3>1. PICK code : resp' = FirstLine(resp, code)
      BY <2>2 DEF Reply
    <3> QED
      BY <1>2, <1>3, <3>1, FirstLineCode
  <2> QED
    BY <2>1, <2>2
<1>5. ~Parsing' /\ pc' \notin {"find", "callback"}
  BY <1>1 DEF Parsing
<1> QED
  BY <1>1, <1>2, <1>4, <1>5 DEF AuthInv, AuthBeforeService

-----------------------------------------------------------------------------
(* A build with authentication serves only a request all of whose          *)
(* Authorization headers, and at least one, were accepted: for every       *)
(* sequence of requests, of headers and of what a callback does.           *)
THEOREM ServiceIsAuthenticated == Spec => []AuthBeforeService
<1>1. Init => AuthInv
  <2> SUFFICES ASSUME Init PROVE AuthInv
    OBVIOUS
  <2>1. resp = NoReply /\ served = NULL /\ pc = "idle"
    BY DEF Init
  <2>2. IsReply(NoReply) /\ NoReply.returnCode = STATUS_RUNKNOWN
    BY DEF IsReply, NoReply
  <2>3. STATUS_RUNKNOWN # STATUS_SERVERSENTEVENTS
    BY DEF STATUS_RUNKNOWN, STATUS_SERVERSENTEVENTS
  <2> QED
    BY <2>1, <2>2, <2>3, Zenon DEF AuthInv, AuthBeforeService, Parsing
<1>2. AuthInv /\ [Next]_vars => AuthInv'
  <2> SUFFICES ASSUME AuthInv, [Next]_vars PROVE AuthInv'
    OBVIOUS
  <2>1. CASE Register
    BY <2>1, RegisterStep
  <2>2. CASE Parse
    BY <2>2, ExecuteStep, ParseStep, AuthorizationStep DEF Parse
  <2>3. CASE Dispatch
    BY <2>3, GateStep, FindStep DEF Dispatch
  <2>4. CASE RunCallback
    BY <2>4, RunCallbackStep
  <2>5. CASE Reply
    BY <2>5, ReplyStep
  <2>6. CASE UNCHANGED vars
    <3>1. UNCHANGED <<pc, resp, served, authSeen, authenticated>>
      BY <2>6 DEF vars, hdrVars
    <3> QED
      BY <3>1 DEF AuthInv, AuthBeforeService, Parsing, CodeRemembers,
                  FlagRemembers, NothingServed
  <2> QED
    BY <2>1, <2>2, <2>3, <2>4, <2>5, <2>6 DEF Next
<1>3. AuthInv => AuthBeforeService
  BY DEF AuthInv
<1> QED
  BY <1>1, <1>2, <1>3, PTL DEF Spec

-----------------------------------------------------------------------------
(***************************************************************************)
(* Types.  The parts of TypeOK that the actions disturb apart.             *)
(***************************************************************************)
RegTypes ==
  /\ pages \in [Slots -> Page] /\ defaultPage \in Page /\ sseUrl \in Seq(Chars)
  /\ callback \in {NULL, Callback} /\ regLog \in Seq(Page)
UrlTypes ==
  /\ url \in [UrlIndex -> Chars \cup {NUL}] /\ url[UrlBufferSize - 1] = NUL
  /\ urlLen \in UrlIndex
  /\ asked \in Tokens \cup {NoToken} /\ cutShort \in BOOLEAN
HdrTypes ==
  /\ authenticated \in BOOLEAN /\ accept \in SUBSET (0..15)
  /\ contenttype \in MimeTypes /\ authSeen \in SUBSET Verdicts
RunTypes ==
  /\ pc \in {"idle", "url", "headers", "gate", "find", "callback", "reply"}
  /\ method \in Methods \cup {METHOD_NOTSUPPORTED}
  /\ resp \in Response /\ result \in Nat
  /\ served \in Contents \cup {Favicon, NULL} /\ spoke \in BOOLEAN

LEMMA TypesOfAll ==
  /\ TypeOK => RegTypes /\ UrlTypes /\ HdrTypes /\ RunTypes
  /\ RegTypes /\ UrlTypes /\ HdrTypes /\ RunTypes => TypeOK
  /\ RegTypes' /\ UrlTypes' /\ HdrTypes' /\ RunTypes' => TypeOK'
BY Zenon DEF TypeOK, RegTypes, UrlTypes, HdrTypes, RunTypes

LEMMA Sizes ==
  /\ PageBuffers \in Nat /\ PageBuffers > 0 /\ PageUrlSize \in Nat /\ PageUrlSize > 0
  /\ 0 \in Slots /\ Slots \subseteq Nat
BY ConstantsAssumption DEF Slots

LEMMA Urls ==
  /\ RegUrls \subseteq Seq(Chars) /\ FaviconUrl \in Seq(Chars)
  /\ \A tok \in Tokens : tok \in Seq(Chars \cup {"?"}) /\ tok # <<>>
  /\ NUL \notin Chars /\ "?" \notin Chars
<1>1. \A tok \in Tokens : tok \in Seq(Chars \cup {"?"}) \ {<<>>}
  BY ConstantsAssumption
<1> QED
  BY <1>1, ConstantsAssumption

LEMMA Codes ==
  /\ \A c \in AppCodes : c \in Nat
  /\ \A t \in AppTypes : t \in MimeTypes /\ t \in 0..15 /\ t \in 0..8
  /\ AuthBuild \in BOOLEAN /\ (~AuthBuild) \in BOOLEAN
<1>1. AppCodes \subseteq 0..UINT16_MAX /\ AppTypes \subseteq 0..6 /\ AuthBuild \in BOOLEAN
  BY ConstantsAssumption, Zenon
<1>2. \A c \in AppCodes : c \in Nat
  <2>1. UINT16_MAX \in Nat
    BY DEF UINT16_MAX
  <2> QED
    BY <1>1, <2>1
<1>3. \A t \in AppTypes : t \in MimeTypes /\ t \in 0..15 /\ t \in 0..8
  BY <1>1 DEF MimeTypes
<1> QED
  BY <1>1, <1>2, <1>3, Zenon

LEMMA EntryTyped ==
  ASSUME NEW u \in Seq(Chars), NEW c \in Contents \cup {Favicon, NULL},
         NEW t \in MimeTypes
  PROVE  Entry(u, c, t) \in Page
<1>1. Cut(u, PageUrlSize) \in Seq(Chars)
  BY Sizes, CutProperties
<1> QED
  BY <1>1, Zenon DEF Entry, Page

LEMMA StoredTyped ==
  ASSUME NEW old, NEW tok \in Tokens, NEW eof,
         old \in [UrlIndex -> Chars \cup {NUL}], old[UrlBufferSize - 1] = NUL
  PROVE  /\ Stored(old, tok, eof) \in [UrlIndex -> Chars \cup {NUL}]
         /\ Stored(old, tok, eof)[UrlBufferSize - 1] = NUL
         /\ StoredLen(tok, eof) \in UrlIndex
<1>1. tok \in Seq(Chars \cup {"?"})
  BY Urls
<1>2. StoredLen(tok, eof) \in UrlIndex
  BY <1>1, StoredLenInBuffer
<1>3. Stored(old, tok, eof) \in [UrlIndex -> Chars \cup {NUL}]
  BY <1>1, StoredProperties, Zenon
<1>4. Stored(old, tok, eof)[UrlBufferSize - 1] = NUL
  BY <1>1, StoredTerminated, Zenon
<1> QED
  BY <1>2, <1>3, <1>4

LEMMA PartsTyped ==
  /\ \A code \in Nat : StatusLine(code) \in Part
  /\ \A t \in 0..8 : Headers(t) \in Part
  /\ \A c \in Contents \cup {Favicon, AuthErrorMsg, AppData} : Body(c) \in Part
<1>1. \A code \in Nat : Known(code) \in Nat
  BY DEF Known, STATUS_INTERNAL_ERROR
<1>2. \A code \in Nat : StatusLine(code) \in Part
  BY <1>1 DEF StatusLine, Part
<1>3. \A t \in 0..8 : Headers(t) \in Part
  BY DEF Headers, Part
<1>4. \A c \in Contents \cup {Favicon, AuthErrorMsg, AppData} : Body(c) \in Part
  BY Zenon DEF Body, Part
<1> QED
  BY <1>2, <1>3, <1>4

(* A reply is determined by its fields.                                    *)
LEMMA ReplyFields ==
  ASSUME NEW r
  PROVE  r \in Response <=>
           /\ IsReply(r)
           /\ r.firstlineSent \in BOOLEAN /\ r.headersSent \in BOOLEAN
           /\ r.returnCode \in Nat /\ r.wire \in Seq(Part)
BY Zenon DEF Response, IsReply

(* The output functions keep a reply a reply.                              *)
LEMMA SetCodeTyped ==
  ASSUME NEW r \in Response, NEW code \in Nat
  PROVE  [r EXCEPT !.returnCode = code] \in Response
BY DEF Response

LEMMA FirstLineTyped ==
  ASSUME NEW r \in Response, NEW code \in Nat
  PROVE  FirstLine(r, code) \in Response
<1>1. Append(r.wire, StatusLine(code)) \in Seq(Part)
  BY PartsTyped, ReplyFields
<1>2. STATUS_INTERNAL_ERROR \in Nat
  BY DEF STATUS_INTERNAL_ERROR
<1> QED
  BY <1>1, <1>2 DEF FirstLine, Response

LEMMA HeaderBlockTyped ==
  ASSUME NEW r \in Response, NEW t \in 0..8
  PROVE  HeaderBlock(r, t) \in Response
<1>1. Append(r.wire, Headers(t)) \in Seq(Part)
  BY PartsTyped, ReplyFields
<1> QED
  BY <1>1 DEF HeaderBlock, Response

LEMMA WriteTyped ==
  ASSUME NEW r \in Response, NEW c \in Contents \cup {Favicon, AuthErrorMsg, AppData}
  PROVE  Write(r, c) \in Response
<1>1. Append(r.wire, Body(c)) \in Seq(Part)
  BY PartsTyped, ReplyFields
<1> QED
  BY <1>1 DEF Write, Response

LEMMA SendHeadersTyped ==
  ASSUME NEW r \in Response, NEW code \in Nat, NEW t \in 0..8
  PROVE  SendHeaders(r, t) \in Response /\ RESTSendHeaders(r, code, t) \in Response
<1>1. r.returnCode \in Nat
  BY ReplyFields
<1> QED
  BY <1>1, FirstLineTyped, HeaderBlockTyped DEF SendHeaders, RESTSendHeaders

LEMMA EventHeadersTyped ==
  ASSUME NEW r \in Response
  PROVE  SendServerSentEventHeaders(r) \in Response
<1> DEFINE f == FirstLine(r, STATUS_OK)
<1>1. f \in Response
  BY FirstLineTyped DEF STATUS_OK
<1> HIDE DEF f
<1>2. Append(f.wire, Headers(TEXT_EVENTSTREAM)) \in Seq(Part)
  BY <1>1, PartsTyped, ReplyFields DEF TEXT_EVENTSTREAM
<1>3. [f EXCEPT !.headersSent = TRUE, !.returnCode = STATUS_SERVERSENTEVENTS,
                !.wire = Append(@, Headers(TEXT_EVENTSTREAM))] \in Response
  BY <1>1, <1>2 DEF Response, STATUS_SERVERSENTEVENTS
<1> QED
  BY <1>3 DEF SendServerSentEventHeaders, f

LEMMA AuthMessageTyped ==
  ASSUME NEW r \in Response
  PROVE  SendAuthMessage(r) \in Response
<1> DEFINE f == FirstLine(r, STATUS_UNAUTHORIZED)
<1>1. f \in Response
  BY FirstLineTyped DEF STATUS_UNAUTHORIZED
<1> HIDE DEF f
<1>2. HeaderBlock(f, Challenge) \in Response
  BY <1>1, HeaderBlockTyped DEF Challenge
<1>3. Write(HeaderBlock(f, Challenge), AuthErrorMsg) \in Response
  BY <1>2, WriteTyped
<1> QED
  BY <1>1, <1>3, Zenon DEF SendAuthMessage, f

(* Where the loops over the table of pages stop.                           *)
LEMMA FirstFreeIsSlot ==
  ASSUME FreeSlots # {}
  PROVE  FirstFree \in Slots
<1>1. FreeSlots \subseteq Slots /\ FreeSlots \subseteq Nat
  BY Sizes DEF FreeSlots
<1>2. \E i \in FreeSlots : \A j \in FreeSlots : i <= j
  BY <1>1, LeastNumber
<1>3. FirstFree \in FreeSlots
  BY <1>2 DEF FirstFree
<1> QED
  BY <1>1, <1>3

LEMMA FoundPageIsPage ==
  ASSUME RegTypes, PageFound
  PROVE  FoundPage \in Page /\ ~PageEmpty(FoundPage)
<1>1. CASE IsDefaultPage \/ CheckPage(defaultPage)
  BY <1>1, Zenon DEF RegTypes, FoundPage, IsDefaultPage, CheckPage
<1>2. CASE ~(IsDefaultPage \/ CheckPage(defaultPage))
  <2> DEFINE k == CHOOSE i \in Hits : \A j \in Hits : i <= j
  <2>1. Hits # {} /\ Hits \subseteq Slots /\ Hits \subseteq Nat
    BY <1>2, Sizes DEF PageFound, Hits
  <2>2. \E i \in Hits : \A j \in Hits : i <= j
    BY <2>1, LeastNumber
  <2>3. k \in Hits
    BY <2>2
  <2>4. FoundPage = pages[k]
    BY <1>2 DEF FoundPage
  <2> HIDE DEF k
  <2>5. k \in Slots /\ CheckPage(pages[k])
    BY <2>3 DEF Hits
  <2> QED
    BY <2>4, <2>5, Zenon DEF RegTypes, CheckPage
<1> QED
  BY <1>1, <1>2

LEMMA FoundPageFields ==
  ASSUME RegTypes, PageFound
  PROVE  /\ FoundPage.content \in Contents \cup {Favicon}
         /\ FoundPage.type \in MimeTypes /\ FoundPage.type \in 0..8
<1>1. FoundPage \in Page /\ FoundPage.content # NULL
  BY FoundPageIsPage DEF PageEmpty
<1>2. /\ FoundPage.content \in Contents \cup {Favicon, NULL}
      /\ FoundPage.type \in MimeTypes
  BY <1>1, Zenon DEF Page
<1> QED
  BY <1>1, <1>2 DEF MimeTypes

LEMMA InitialTyped ==
  /\ EmptyPage \in Page
  /\ InitialPages \in [Slots -> Page] /\ InitialLog \in Seq(Page)
  /\ NoReply \in Response
<1>1. EmptyPage \in Page
  <2>1. <<>> \in Seq(Chars) /\ TEXT_HTML \in MimeTypes
    BY DEF TEXT_HTML, MimeTypes
  <2> QED
    BY <2>1, Zenon DEF EmptyPage, Page
<1>2. Entry(FaviconUrl, Favicon, IMAGE_PNG) \in Page
  <2>1. IMAGE_PNG \in MimeTypes
    BY DEF IMAGE_PNG, MimeTypes
  <2> QED
    BY <2>1, EntryTyped, Urls
<1>3. InitialPages \in [Slots -> Page]
  BY <1>1, <1>2, Zenon DEF InitialPages
<1>4. InitialLog \in Seq(Page)
  BY <1>2 DEF InitialLog
<1>5. NoReply \in Response
  BY DEF NoReply, Response, STATUS_RUNKNOWN
<1> QED
  BY <1>1, <1>3, <1>4, <1>5

-----------------------------------------------------------------------------
(* The application between two requests.                                   *)
LEMMA RegisterTyped == ASSUME TypeOK, Register PROVE TypeOK'
<1> USE TypesOfAll
<1>1. RegTypes /\ UrlTypes /\ HdrTypes /\ RunTypes
  OBVIOUS
<1>2. CASE HTTPInit
  <2>1. RegTypes'
    <3>1. <<>> \in Seq(Chars)
      OBVIOUS
    <3> QED
      BY <1>2, <3>1, InitialTyped, Zenon DEF RegTypes, HTTPInit
  <2>2. UrlTypes'
    BY <1>1, <1>2, BufferSize, Zenon DEF UrlTypes, HTTPInit, InitRun
  <2>3. HdrTypes'
    <3>1. {0} \in SUBSET (0..15) /\ TEXT_HTML \in MimeTypes
      BY DEF TEXT_HTML, MimeTypes
    <3> QED
      BY <1>2, <3>1, Codes, Zenon DEF HdrTypes, HTTPInit, InitRun
  <2>4. RunTypes'
    <3>1. 0 \in Nat
      OBVIOUS
    <3> QED
      BY <1>1, <1>2, <3>1, InitialTyped, Zenon DEF RunTypes, HTTPInit
  <2> QED
    BY <2>1, <2>2, <2>3, <2>4
<1>3. ASSUME ~HTTPInit PROVE UrlTypes' /\ HdrTypes' /\ RunTypes'
  <2>1. UNCHANGED <<pc, method, urlVars, hdrVars, resp, result, served, spoke>>
    BY <1>3 DEF Register, AddPage, DefaultPage, ServerSetEventsURL, DefaultREST
  <2> QED
    BY <1>1, <2>1 DEF UrlTypes, HdrTypes, RunTypes, urlVars, hdrVars
<1>4. ASSUME NEW u \in RegUrls, NEW c \in Contents \cup {NULL}, NEW t \in AppTypes,
             AddPage(u, c, t)
      PROVE  RegTypes'
  <2>1. Entry(u, c, t) \in Page
    BY EntryTyped, Urls, Codes
  <2>2. FirstFree \in Slots
    BY <1>4, FirstFreeIsSlot DEF AddPage
  <2>3. pages' \in [Slots -> Page]
    BY <1>1, <1>4, <2>1, <2>2 DEF AddPage, RegTypes
  <2>4. Append(regLog, Entry(u, c, t)) \in Seq(Page)
    BY <1>1, <2>1 DEF RegTypes
  <2> QED
    BY <1>1, <1>4, <2>3, <2>4, Zenon DEF AddPage, RegTypes
<1>5. ASSUME NEW u \in RegUrls, NEW c \in Contents \cup {NULL}, NEW t \in AppTypes,
             DefaultPage(u, c, t)
      PROVE  RegTypes'
  <2>1. Entry(u, c, t) \in Page
    BY EntryTyped, Urls, Codes
  <2> QED
    BY <1>1, <1>5, <2>1, Zenon DEF DefaultPage, RegTypes
<1>6. ASSUME NEW u \in RegUrls, ServerSetEventsURL(u) PROVE RegTypes'
  <2>1. Cut(u, PageUrlSize) \in Seq(Chars)
    BY Urls, Sizes, CutProperties
  <2> QED
    BY <1>1, <1>6, <2>1, Zenon DEF ServerSetEventsURL, RegTypes
<1>7. ASSUME DefaultREST PROVE RegTypes'
  BY <1>1, <1>7, Zenon DEF DefaultREST, RegTypes
<1>8. ASSUME ~HTTPInit PROVE RegTypes'
  BY <1>4, <1>5, <1>6, <1>7, <1>8 DEF Register
<1> QED
  BY <1>2, <1>3, <1>8

(* The parser.                                                             *)
LEMMA ParseTyped == ASSUME TypeOK, Parse PROVE TypeOK'
<1>1. RegTypes /\ UrlTypes /\ HdrTypes /\ RunTypes
  BY TypesOfAll
<1>2. RegTypes'
  <2>1. UNCHANGED regVars
    BY DEF Parse, Execute, ParseURLMissing, ParseURL, AcceptHeader,
           ContentTypeHeader, AuthorizationHeader, HeadersDone
  <2> QED
    BY <1>1, <2>1 DEF RegTypes, regVars
<1>3. ASSUME NEW m \in ClientMethods \cup {"other", "none"}, Execute(m)
      PROVE  UrlTypes' /\ HdrTypes' /\ RunTypes'
  <2>1. UrlTypes'
    BY <1>1, <1>3, BufferSize, Zenon DEF UrlTypes, Execute, InitRun
  <2>2. HdrTypes'
    <3>1. {0} \in SUBSET (0..15) /\ TEXT_HTML \in MimeTypes
      BY DEF TEXT_HTML, MimeTypes
    <3> QED
      BY <1>3, <3>1, Codes, Zenon DEF HdrTypes, Execute, InitRun
  <2>3. resp' \in Response
    <3>1. NoReply.returnCode = STATUS_RUNKNOWN
      BY DEF NoReply
    <3>2. PICK code \in {STATUS_RUNKNOWN, STATUS_UNSUPPORTED, STATUS_INTERNAL_ERROR} :
            resp' = [NoReply EXCEPT !.returnCode = code]
      BY <1>3, <3>1 DEF Execute
    <3>3. code \in Nat
      BY <3>2 DEF STATUS_RUNKNOWN, STATUS_UNSUPPORTED, STATUS_INTERNAL_ERROR
    <3> QED
      BY <3>2, <3>3, InitialTyped, SetCodeTyped
  <2>4. 0 \in Nat
    OBVIOUS
  <2>5. /\ method' \in Methods \cup {METHOD_NOTSUPPORTED} /\ pc' \in {"url", "gate"}
        /\ result' = 0 /\ served' = NULL /\ spoke' = FALSE
    BY <1>3, Zenon DEF Execute
  <2>6. RunTypes'
    BY <2>3, <2>4, <2>5, Zenon DEF RunTypes
  <2> QED
    BY <2>1, <2>2, <2>6
<1>4. ASSUME ParseURLMissing \/ HeadersDone PROVE UrlTypes' /\ HdrTypes' /\ RunTypes'
  BY <1>1, <1>4
  DEF ParseURLMissing, HeadersDone, UrlTypes, HdrTypes, RunTypes, urlVars, hdrVars
<1>5. ASSUME NEW tok \in Tokens, NEW eof \in BOOLEAN, ParseURL(tok, eof)
      PROVE  UrlTypes' /\ HdrTypes' /\ RunTypes'
  <2>1. url \in [UrlIndex -> Chars \cup {NUL}] /\ url[UrlBufferSize - 1] = NUL
    BY <1>1, Zenon DEF UrlTypes
  <2>2. /\ Stored(url, tok, eof) \in [UrlIndex -> Chars \cup {NUL}]
        /\ Stored(url, tok, eof)[UrlBufferSize - 1] = NUL
        /\ StoredLen(tok, eof) \in UrlIndex
    BY <2>1, StoredTyped, Zenon
  <2>6. UrlTypes'
    BY <1>5, <2>2, Zenon DEF ParseURL, UrlTypes
  <2>7. HdrTypes' /\ RunTypes'
    BY <1>1, <1>5 DEF ParseURL, HdrTypes, RunTypes, hdrVars
  <2> QED
    BY <2>6, <2>7
<1>6. ASSUME NEW t \in AppTypes, AcceptHeader(t) \/ ContentTypeHeader(t)
      PROVE  UrlTypes' /\ HdrTypes' /\ RunTypes'
  <2>1. {t} \in SUBSET (0..15) /\ t \in MimeTypes
    BY Codes
  <2>2. HdrTypes'
    BY <1>1, <1>6, <2>1, Zenon DEF AcceptHeader, ContentTypeHeader, HdrTypes
  <2>3. UrlTypes' /\ RunTypes'
    BY <1>1, <1>6 DEF AcceptHeader, ContentTypeHeader, UrlTypes, RunTypes, urlVars
  <2> QED
    BY <2>2, <2>3
<1>7. ASSUME NEW v \in Verdicts, AuthorizationHeader(v)
      PROVE  UrlTypes' /\ HdrTypes' /\ RunTypes'
  <2>1. CodeAfterAuth(resp.returnCode, v) \in Nat
    <3>1. resp.returnCode \in Nat
      BY <1>1, ReplyFields DEF RunTypes
    <3> QED
      BY <3>1 DEF CodeAfterAuth, Verdicts, STATUS_UNAUTHORIZED
  <2>2. resp' \in Response
    BY <1>1, <1>7, <2>1, SetCodeTyped DEF AuthorizationHeader, RunTypes
  <2>3. HdrTypes'
    <3>1. (v = "good") \in BOOLEAN
      OBVIOUS
    <3> QED
      BY <1>1, <1>7, <3>1, Zenon DEF AuthorizationHeader, HdrTypes
  <2>4. UrlTypes' /\ RunTypes'
    BY <1>1, <1>7, <2>2 DEF AuthorizationHeader, UrlTypes, RunTypes, urlVars
  <2> QED
    BY <2>3, <2>4
<1>8. UrlTypes' /\ HdrTypes' /\ RunTypes'
  BY <1>3, <1>4, <1>5, <1>6, <1>7 DEF Parse
<1> QED
  BY <1>2, <1>8, TypesOfAll

(* From the gate to the callback.                                          *)
LEMMA DispatchTyped == ASSUME TypeOK, Dispatch PROVE TypeOK'
<1>1. RegTypes /\ UrlTypes /\ HdrTypes /\ RunTypes
  BY TypesOfAll
<1>2. RegTypes'
  <2>1. UNCHANGED regVars
    BY DEF Dispatch, Gate, FindPage, FindEvents, FindNothing, FindAPICallback
  <2> QED
    BY <1>1, <2>1 DEF RegTypes, regVars
<1>3. resp \in Response /\ resp.returnCode \in Nat
  BY <1>1, ReplyFields DEF RunTypes
<1>4. ASSUME Gate PROVE UrlTypes' /\ HdrTypes' /\ RunTypes'
  <2>1. PICK code \in {STATUS_NOT_FOUND, STATUS_UNAUTHORIZED, resp.returnCode} :
          resp' = [resp EXCEPT !.returnCode = code]
    BY <1>4 DEF Gate
  <2>2. code \in Nat
    BY <1>3, <2>1 DEF STATUS_NOT_FOUND, STATUS_UNAUTHORIZED
  <2>3. resp' \in Response
    BY <1>3, <2>1, <2>2, SetCodeTyped
  <2>4. pc' \in {"find", "reply"}
    BY <1>4 DEF Gate
  <2> QED
    BY <1>1, <1>4, <2>3, <2>4 DEF Gate, UrlTypes, HdrTypes, RunTypes, urlVars, hdrVars
<1>5. ASSUME FindPage PROVE UrlTypes' /\ HdrTypes' /\ RunTypes'
  <2> DEFINE r == [resp EXCEPT !.returnCode = STATUS_OK]
             h == SendHeaders(r, FoundPage.type)
  <2>1. /\ FoundPage.content \in Contents \cup {Favicon}
        /\ FoundPage.type \in MimeTypes /\ FoundPage.type \in 0..8
    BY <1>1, <1>5, FoundPageFields DEF FindPage
  <2>2. r \in Response /\ [resp EXCEPT !.returnCode = STATUS_UNSUPPORTED] \in Response
    BY <1>3, SetCodeTyped DEF STATUS_OK, STATUS_UNSUPPORTED
  <2>3. \/ /\ resp' = Write(h, FoundPage.content)
           /\ contenttype' = FoundPage.type /\ served' = FoundPage.content
        \/ /\ resp' = [resp EXCEPT !.returnCode = STATUS_UNSUPPORTED]
           /\ UNCHANGED <<contenttype, served>>
    BY <1>5, Zenon DEF FindPage
  <2> HIDE DEF r
  <2>4. h \in Response
    BY <2>1, <2>2, <1>3, SendHeadersTyped
  <2> HIDE DEF h
  <2>5. Write(h, FoundPage.content) \in Response
    BY <2>1, <2>4, WriteTyped
  <2>6. /\ resp' \in Response /\ contenttype' \in MimeTypes
        /\ served' \in Contents \cup {Favicon, NULL}
    BY <1>1, <2>1, <2>2, <2>3, <2>5, Zenon DEF HdrTypes, RunTypes
  <2> QED
    BY <1>1, <1>5, <2>6 DEF FindPage, UrlTypes, HdrTypes, RunTypes, urlVars
<1>6. ASSUME FindEvents PROVE UrlTypes' /\ HdrTypes' /\ RunTypes'
  <2>1. resp' \in Response
    BY <1>3, <1>6, EventHeadersTyped DEF FindEvents
  <2> QED
    BY <1>1, <1>6, <2>1 DEF FindEvents, UrlTypes, HdrTypes, RunTypes, urlVars, hdrVars
<1>7. ASSUME FindNothing PROVE UrlTypes' /\ HdrTypes' /\ RunTypes'
  BY <1>1, <1>7 DEF FindNothing, UrlTypes, HdrTypes, RunTypes, urlVars, hdrVars
<1>8. ASSUME FindAPICallback PROVE UrlTypes' /\ HdrTypes' /\ RunTypes'
  <2>1. resp' \in Response
    <3>1. [resp EXCEPT !.returnCode = STATUS_INTERNAL_ERROR] \in Response
      BY <1>3, SetCodeTyped DEF STATUS_INTERNAL_ERROR
    <3> QED
      BY <1>3, <1>8, <3>1, Zenon DEF FindAPICallback
  <2>2. pc' \in {"callback", "reply"}
    BY <1>8, Zenon DEF FindAPICallback
  <2>3. HdrTypes' /\ RunTypes'
    BY <1>1, <1>8, <2>1, <2>2 DEF FindAPICallback, HdrTypes, RunTypes, hdrVars
  <2> DEFINE S == Chars \cup {NUL}
  <2>4. url \in [UrlIndex -> S] /\ url[UrlBufferSize - 1] = NUL /\ NUL \in S
    BY <1>1, Zenon DEF UrlTypes
  <2> HIDE DEF S
  <2>5. /\ Split(url, urlLen) \in [UrlIndex -> S]
        /\ Split(url, urlLen)[UrlBufferSize - 1] = NUL
    BY <2>4, SplitProperties
  <2>6. UrlTypes'
    BY <1>1, <1>8, <2>5, Zenon DEF FindAPICallback, UrlTypes, S
  <2> QED
    BY <2>3, <2>6
<1>9. UrlTypes' /\ HdrTypes' /\ RunTypes'
  BY <1>4, <1>5, <1>6, <1>7, <1>8 DEF Dispatch
<1> QED
  BY <1>2, <1>9, TypesOfAll

(* The callback and the end of the request.                                *)
LEMMA CallbackTyped == ASSUME TypeOK, RunCallback PROVE TypeOK'
<1>1. RegTypes /\ UrlTypes /\ HdrTypes /\ RunTypes
  BY TypesOfAll
<1>2. RegTypes' /\ UrlTypes' /\ HdrTypes'
  <2>1. UNCHANGED <<regVars, urlVars, hdrVars>>
    BY DEF RunCallback, CallbackFirstLine, CallbackSendHeaders,
           CallbackRESTSendHeaders, CallbackWrite, CallbackStep, CallbackReturn
  <2> QED
    BY <1>1, <2>1 DEF RegTypes, UrlTypes, HdrTypes, regVars, urlVars, hdrVars
<1>3. resp \in Response /\ resp.returnCode \in Nat /\ contenttype \in 0..8
  BY <1>1, ReplyFields DEF RunTypes, HdrTypes, MimeTypes
<1>4. ASSUME NEW r \in Response, CallbackStep(r) PROVE RunTypes'
  <2>1. r.firstlineSent \in BOOLEAN
    BY ReplyFields
  <2> QED
    BY <1>1, <1>4, <2>1, Zenon DEF CallbackStep, RunTypes
<1>5. ASSUME NEW c \in AppCodes, CallbackFirstLine(c) PROVE RunTypes'
  BY <1>3, <1>4, <1>5, Codes, FirstLineTyped DEF CallbackFirstLine
<1>6. ASSUME CallbackSendHeaders PROVE RunTypes'
  BY <1>3, <1>4, <1>6, SendHeadersTyped DEF CallbackSendHeaders
<1>7. ASSUME NEW c \in AppCodes, NEW t \in AppTypes, CallbackRESTSendHeaders(c, t)
      PROVE  RunTypes'
  BY <1>3, <1>4, <1>7, Codes, SendHeadersTyped DEF CallbackRESTSendHeaders
<1>8. ASSUME CallbackWrite PROVE RunTypes'
  BY <1>3, <1>4, <1>8, WriteTyped DEF CallbackWrite
<1>9. ASSUME NEW c \in AppCodes, CallbackReturn(c) PROVE RunTypes'
  <2>1. (IF c = STATUS_RUNKNOWN THEN STATUS_OK ELSE c) \in Nat
    BY Codes DEF STATUS_OK
  <2>2. resp' \in Response
    BY <1>3, <1>9, <2>1, SetCodeTyped DEF CallbackReturn
  <2> QED
    BY <1>1, <1>9, <2>2, Zenon DEF CallbackReturn, RunTypes
<1>10. RunTypes'
  BY <1>5, <1>6, <1>7, <1>8, <1>9 DEF RunCallback
<1> QED
  BY <1>2, <1>10, TypesOfAll

LEMMA ReplyStepTyped == ASSUME TypeOK, Reply PROVE TypeOK'
<1>1. RegTypes /\ UrlTypes /\ HdrTypes /\ RunTypes
  BY TypesOfAll
<1>2. resp \in Response /\ resp.returnCode \in Nat
  BY <1>1, ReplyFields DEF RunTypes
<1>3. resp' \in Response
  <2>1. SendAuthMessage(resp) \in Response
    BY <1>2, AuthMessageTyped
  <2>2. FirstLine(resp, STATUS_OK) \in Response
    BY <1>2, FirstLineTyped DEF STATUS_OK
  <2>3. FirstLine(resp, resp.returnCode) \in Response
    BY <1>2, FirstLineTyped
  <2> QED
    BY <2>1, <2>2, <2>3, Zenon DEF Reply
<1>4. result' \in Nat
  BY <1>3, ReplyFields DEF Reply
<1> QED
  BY <1>1, <1>3, <1>4, TypesOfAll
  DEF Reply, RegTypes, UrlTypes, HdrTypes, RunTypes, regVars, urlVars, hdrVars

LEMMA InitTyped == ASSUME Init PROVE TypeOK
<1>1. RegTypes
  <2>1. <<>> \in Seq(Chars)
    OBVIOUS
  <2> QED
    BY <2>1, InitialTyped, Zenon DEF Init, RegTypes
<1>2. UrlTypes
  <2>1. url = [i \in UrlIndex |-> NUL]
    BY DEF Init
  <2>2. url \in [UrlIndex -> Chars \cup {NUL}] /\ url[UrlBufferSize - 1] = NUL
    BY <2>1, BufferSize, Zenon
  <2> QED
    BY <2>2, BufferSize, Zenon DEF Init, UrlTypes
<1>3. HdrTypes
  <2>1. {0} \in SUBSET (0..15) /\ TEXT_HTML \in MimeTypes
    BY DEF TEXT_HTML, MimeTypes
  <2> QED
    BY <2>1, Codes, Zenon DEF Init, HdrTypes
<1>4. RunTypes
  <2>1. 0 \in Nat
    OBVIOUS
  <2> QED
    BY <2>1, InitialTyped, Zenon DEF Init, RunTypes
<1> QED
  BY <1>1, <1>2, <1>3, <1>4, TypesOfAll

LEMMA NextTyped == TypeOK /\ [Next]_vars => TypeOK'
<1> SUFFICES ASSUME TypeOK, [Next]_vars PROVE TypeOK'
  OBVIOUS
<1>1. ASSUME UNCHANGED vars PROVE TypeOK'
  BY <1>1 DEF vars, regVars, urlVars, hdrVars, TypeOK
<1> QED
  BY <1>1, RegisterTyped, ParseTyped, DispatchTyped, CallbackTyped, ReplyStepTyped
  DEF Next

(* The registry, the URL buffer and the reply keep their types through any *)
(* sequence of registrations and requests: no page is written outside of   *)
(* the table, and the terminator in the last byte of the URL buffer is     *)
(* never overwritten.                                                      *)
THEOREM ServerTypes == Spec => []TypeOK
BY InitTyped, NextTyped, PTL DEF Spec

-----------------------------------------------------------------------------
(***************************************************************************)
(* The reply on the wire.  The two flags of attohttp.c tell what has been  *)
(* sent, and what has been sent is legal: this is what every output        *)
(* function relies on when it looks at a flag, and restores.               *)
(***************************************************************************)
HasPart(r, p) == \E i \in 1..Len(r.wire) : r.wire[i].part = p
Marked(r) ==
  /\ r.firstlineSent <=> HasPart(r, "status")
  /\ r.headersSent <=> HasPart(r, "headers")
  /\ \A i, j \in 1..Len(r.wire) :
       r.wire[i].part = r.wire[j].part /\ r.wire[i].part # "body" => i = j
  /\ \A j \in 1..Len(r.wire) : r.wire[j].part = "headers" =>
       \E i \in 1..j - 1 : r.wire[i].part = "status"
Sent(r) == r \in Response /\ Marked(r)

(* What has been sent is never taken back.                                 *)
Grows(r, s) ==
  Len(r.wire) <= Len(s.wire) /\ \A i \in 1..Len(r.wire) : s.wire[i] = r.wire[i]

LEMMA GrowsIsTransitive ==
  ASSUME NEW r \in Response, NEW s \in Response, NEW t \in Response,
         Grows(r, s), Grows(s, t)
  PROVE  Grows(r, t)
<1>1. Len(r.wire) \in Nat /\ Len(s.wire) \in Nat /\ Len(t.wire) \in Nat
  BY ReplyFields
<1> QED
  BY <1>1 DEF Grows

LEMMA SameWire ==
  ASSUME NEW r \in Response, NEW s \in Response, Marked(r), s.wire = r.wire,
         s.firstlineSent = r.firstlineSent, s.headersSent = r.headersSent
  PROVE  Sent(s) /\ Grows(r, s)
<1>1. Len(r.wire) \in Nat
  BY ReplyFields
<1> QED
  BY <1>1 DEF Sent, Marked, HasPart, Grows

(* One more part, which the flags allow and then tell of.                  *)
LEMMA OneMorePart ==
  ASSUME NEW r \in Response, NEW s \in Response, NEW p \in Part, Marked(r),
         s.wire = Append(r.wire, p),
         p.part = "status" => ~r.firstlineSent,
         p.part = "headers" => r.firstlineSent /\ ~r.headersSent,
         s.firstlineSent <=> r.firstlineSent \/ p.part = "status",
         s.headersSent <=> r.headersSent \/ p.part = "headers"
  PROVE  Sent(s) /\ Grows(r, s)
<1> DEFINE n == Len(r.wire)
           w == r.wire
           v == s.wire
<1>1. w \in Seq(Part) /\ n \in Nat
  BY ReplyFields
<1>2. Len(v) = n + 1 /\ v[n + 1] = p /\ \A i \in 1..n : v[i] = w[i]
  BY <1>1
<1>3. 1..n + 1 = 1..n \cup {n + 1} /\ n + 1 \notin 1..n
  BY <1>1
<1>4. \A q : HasPart(s, q) <=> HasPart(r, q) \/ p.part = q
  <2> HIDE DEF n, w, v
  <2>1. \A q : (\E i \in 1..n + 1 : v[i].part = q) <=>
                 (\E i \in 1..n : w[i].part = q) \/ p.part = q
    BY <1>2, <1>3
  <2> QED
    BY <1>2, <2>1 DEF HasPart, n, w, v
<1>5. Grows(r, s)
  BY <1>1, <1>2 DEF Grows
<1>6. \A i \in 1..n : w[i].part = p.part => p.part = "body"
  <2>1. p.part \in {"status", "headers", "body"}
    BY DEF Part
  <2> QED
    BY <2>1 DEF Marked, HasPart
<1>7. ASSUME NEW i \in 1..Len(v), NEW j \in 1..Len(v),
             v[i].part = v[j].part, v[i].part # "body"
      PROVE  i = j
  <2> HIDE DEF n, w, v
  <2>1. i \in 1..n \cup {n + 1} /\ j \in 1..n \cup {n + 1}
    BY <1>2, <1>3
  <2>2. CASE i \in 1..n /\ j \in 1..n
    <3>1. w[i].part = w[j].part /\ w[i].part # "body"
      BY <1>2, <1>7, <2>2
    <3> QED
      BY <2>2, <3>1 DEF Marked, n, w
  <2> QED
    BY <1>2, <1>6, <1>7, <2>1, <2>2
<1>8. ASSUME NEW j \in 1..Len(v), v[j].part = "headers"
      PROVE  \E i \in 1..j - 1 : v[i].part = "status"
  <2>1. CASE j \in 1..n
    <3>1. PICK i \in 1..j - 1 : w[i].part = "status"
      BY <1>2, <1>8, <2>1 DEF Marked
    <3>2. i \in 1..n
      BY <1>1, <2>1
    <3> QED
      BY <1>2, <3>1, <3>2
  <2>2. CASE j = n + 1
    <3>1. HasPart(r, "status")
      BY <1>2, <1>8, <2>2 DEF Marked
    <3>2. PICK i \in 1..n : w[i].part = "status"
      BY <3>1 DEF HasPart
    <3>3. i \in 1..j - 1
      BY <1>1, <2>2
    <3> QED
      BY <1>2, <3>2, <3>3
  <2> HIDE DEF n, w, v
  <2> QED
    BY <1>2, <1>3, <2>1, <2>2
<1>9. /\ s.firstlineSent <=> HasPart(s, "status")
      /\ s.headersSent <=> HasPart(s, "headers")
  BY <1>4 DEF Marked
<1> QED
  BY <1>5, <1>7, <1>8, <1>9 DEF Sent, Marked

LEMMA FirstLineSends ==
  ASSUME NEW r, Sent(r), NEW code \in Nat
  PROVE  /\ Sent(FirstLine(r, code)) /\ Grows(r, FirstLine(r, code))
         /\ FirstLine(r, code).firstlineSent
         /\ FirstLine(r, code).headersSent = r.headersSent
<1> DEFINE f == FirstLine(r, code)
<1>1. r \in Response /\ Marked(r) /\ f \in Response
  BY FirstLineTyped DEF Sent
<1>2. CASE r.firstlineSent
  <2>1. f = r
    BY <1>2 DEF FirstLine
  <2> HIDE DEF f
  <2> QED
    BY <1>1, <1>2, <2>1, SameWire DEF f
<1>3. CASE ~r.firstlineSent
  <2>1. /\ f.wire = Append(r.wire, StatusLine(code))
        /\ f.firstlineSent = TRUE /\ f.headersSent = r.headersSent
    BY <1>1, <1>3 DEF FirstLine, Response
  <2>2. StatusLine(code) \in Part /\ StatusLine(code).part = "status"
    BY PartsTyped DEF StatusLine
  <2> HIDE DEF f
  <2>3. Sent(f) /\ Grows(r, f)
    BY <1>1, <1>3, <2>1, <2>2, OneMorePart
  <2> QED
    BY <2>1, <2>3 DEF f
<1> QED
  BY <1>2, <1>3

LEMMA HeaderBlockSends ==
  ASSUME NEW r, Sent(r), r.firstlineSent, NEW t \in 0..8
  PROVE  /\ Sent(HeaderBlock(r, t)) /\ Grows(r, HeaderBlock(r, t))
         /\ HeaderBlock(r, t).firstlineSent
<1> DEFINE h == HeaderBlock(r, t)
<1>1. r \in Response /\ Marked(r) /\ h \in Response
  BY HeaderBlockTyped DEF Sent
<1>2. CASE r.headersSent
  <2>1. h = r
    BY <1>2 DEF HeaderBlock
  <2> HIDE DEF h
  <2> QED
    BY <1>1, <1>2, <2>1, SameWire DEF h
<1>3. CASE ~r.headersSent
  <2>1. /\ h.wire = Append(r.wire, Headers(t))
        /\ h.firstlineSent = r.firstlineSent /\ h.headersSent = TRUE
    BY <1>1, <1>3 DEF HeaderBlock, Response
  <2>2. Headers(t) \in Part /\ Headers(t).part = "headers"
    BY PartsTyped DEF Headers
  <2> HIDE DEF h
  <2>3. Sent(h) /\ Grows(r, h)
    BY <1>1, <1>3, <2>1, <2>2, OneMorePart
  <2> QED
    BY <2>1, <2>3 DEF h
<1> QED
  BY <1>2, <1>3

LEMMA WriteSends ==
  ASSUME NEW r, Sent(r), NEW c \in Contents \cup {Favicon, AuthErrorMsg, AppData}
  PROVE  /\ Sent(Write(r, c)) /\ Grows(r, Write(r, c))
         /\ Write(r, c).firstlineSent = r.firstlineSent
<1> DEFINE w == Write(r, c)
<1>1. r \in Response /\ Marked(r) /\ w \in Response
  BY WriteTyped DEF Sent
<1>2. /\ w.wire = Append(r.wire, Body(c))
      /\ w.firstlineSent = r.firstlineSent /\ w.headersSent = r.headersSent
  BY <1>1 DEF Write, Response
<1>3. Body(c) \in Part /\ Body(c).part = "body"
  BY PartsTyped DEF Body
<1> HIDE DEF w
<1>4. Sent(w) /\ Grows(r, w)
  BY <1>1, <1>2, <1>3, OneMorePart
<1> QED
  BY <1>2, <1>4 DEF w

LEMMA SetCodeSends ==
  ASSUME NEW r, Sent(r), NEW code \in Nat
  PROVE  /\ Sent([r EXCEPT !.returnCode = code])
         /\ Grows(r, [r EXCEPT !.returnCode = code])
         /\ [r EXCEPT !.returnCode = code].firstlineSent = r.firstlineSent
<1> DEFINE s == [r EXCEPT !.returnCode = code]
<1>1. r \in Response /\ Marked(r) /\ s \in Response
  BY SetCodeTyped DEF Sent
<1>2. /\ s.wire = r.wire /\ s.firstlineSent = r.firstlineSent
      /\ s.headersSent = r.headersSent
  BY <1>1 DEF Response
<1> HIDE DEF s
<1>3. Sent(s) /\ Grows(r, s)
  BY <1>1, <1>2, SameWire
<1> QED
  BY <1>2, <1>3 DEF s

(* A status line and a header block: attoHTTPSendHeaders, with the current *)
(* code, and attoHTTPRESTSendHeaders.                                      *)
LEMMA SendHeadersSends ==
  ASSUME NEW r, Sent(r), NEW code \in Nat, NEW t \in 0..8
  PROVE  /\ Sent(HeaderBlock(FirstLine(r, code), t))
         /\ Grows(r, HeaderBlock(FirstLine(r, code), t))
         /\ HeaderBlock(FirstLine(r, code), t).firstlineSent
<1> DEFINE f == FirstLine(r, code)
           h == HeaderBlock(f, t)
<1>1. Sent(f) /\ Grows(r, f) /\ f.firstlineSent
  BY FirstLineSends
<1> HIDE DEF f
<1>2. Sent(h) /\ Grows(f, h) /\ h.firstlineSent
  BY <1>1, HeaderBlockSends
<1> HIDE DEF h
<1>3. Grows(r, h)
  BY <1>1, <1>2, GrowsIsTransitive DEF Sent
<1> QED
  BY <1>2, <1>3 DEF f, h

(* The header block of an event stream is sent without a look at the flag, *)
(* so it is the caller's business that nothing has been sent.              *)
LEMMA EventHeadersSends ==
  ASSUME NEW r, Sent(r), r.wire = <<>>
  PROVE  /\ Sent(SendServerSentEventHeaders(r))
         /\ Grows(r, SendServerSentEventHeaders(r))
<1> DEFINE f == FirstLine(r, STATUS_OK)
           e == SendServerSentEventHeaders(r)
<1>1. Sent(f) /\ Grows(r, f) /\ f.firstlineSent /\ f.headersSent = r.headersSent
  BY FirstLineSends DEF STATUS_OK
<1>2. ~r.headersSent
  <2>1. Len(r.wire) = 0
    OBVIOUS
  <2> QED
    BY <2>1 DEF Sent, Marked, HasPart
<1>3. e \in Response
  BY EventHeadersTyped DEF Sent
<1>4. e = [f EXCEPT !.headersSent = TRUE, !.returnCode = STATUS_SERVERSENTEVENTS,
                    !.wire = Append(@, Headers(TEXT_EVENTSTREAM))]
  BY DEF SendServerSentEventHeaders
<1> HIDE DEF f, e
<1>5. /\ e.wire = Append(f.wire, Headers(TEXT_EVENTSTREAM))
      /\ e.firstlineSent = f.firstlineSent /\ e.headersSent = TRUE
  BY <1>1, <1>4 DEF Sent, Response
<1>6. Headers(TEXT_EVENTSTREAM) \in Part /\ Headers(TEXT_EVENTSTREAM).part = "headers"
  BY PartsTyped DEF Headers, TEXT_EVENTSTREAM
<1>7. Sent(e) /\ Grows(f, e)
  BY <1>1, <1>2, <1>3, <1>5, <1>6, OneMorePart DEF Sent
<1>8. Grows(r, e)
  BY <1>1, <1>7, GrowsIsTransitive DEF Sent
<1> QED
  BY <1>7, <1>8 DEF e

LEMMA AuthMessageSends ==
  ASSUME NEW r, Sent(r)
  PROVE  /\ Sent(SendAuthMessage(r)) /\ Grows(r, SendAuthMessage(r))
         /\ SendAuthMessage(r).firstlineSent
<1> DEFINE f == FirstLine(r, STATUS_UNAUTHORIZED)
           h == HeaderBlock(f, Challenge)
           w == Write(h, AuthErrorMsg)
<1>1. Sent(f) /\ Grows(r, f) /\ f.firstlineSent
  BY FirstLineSends DEF STATUS_UNAUTHORIZED
<1>2. SendAuthMessage(r) = IF f.headersSent THEN f ELSE w
  BY DEF SendAuthMessage
<1> HIDE DEF f
<1>3. Sent(h) /\ Grows(f, h) /\ h.firstlineSent
  BY <1>1, HeaderBlockSends DEF Challenge
<1> HIDE DEF h
<1>4. Sent(w) /\ Grows(h, w) /\ w.firstlineSent = h.firstlineSent
  BY <1>3, WriteSends
<1> HIDE DEF w
<1>5. Grows(r, h)
  BY <1>1, <1>3, GrowsIsTransitive DEF Sent
<1>6. Grows(r, w)
  BY <1>3, <1>4, <1>5, GrowsIsTransitive DEF Sent
<1> QED
  BY <1>1, <1>2, <1>3, <1>4, <1>6

-----------------------------------------------------------------------------
(***************************************************************************)
(* The invariant of the wire: besides Marked, nothing is sent before a     *)
(* page or a callback is looked for.  FindEvents needs it.                 *)
(***************************************************************************)
Quiet == pc \in {"url", "headers", "gate", "find"} => resp.wire = <<>>
WireInv == Marked(resp) /\ Quiet

(* What a step does to the exchange and to the reply.                      *)
Restarts == pc = "idle" /\ pc' = "idle" /\ resp' = NoReply
Begins == pc = "idle" /\ pc' # "idle" /\ Sent(resp') /\ resp'.wire = <<>>
Continues == pc # "idle" /\ pc' # "idle" /\ Sent(resp') /\ Grows(resp, resp')
Ends == /\ pc # "idle" /\ pc' = "idle" /\ Sent(resp') /\ Grows(resp, resp')
        /\ resp'.firstlineSent
KeepsReply == UNCHANGED <<pc, resp>>
ReplyStepOf == Restarts \/ Begins \/ Continues \/ Ends \/ KeepsReply

LEMMA NothingSent ==
  ASSUME NEW r \in Response, ~r.firstlineSent, ~r.headersSent, r.wire = <<>>
  PROVE  Sent(r)
<1>1. Len(r.wire) = 0
  OBVIOUS
<1>2. 1..0 = {}
  OBVIOUS
<1> QED
  BY <1>1, <1>2 DEF Sent, Marked, HasPart

LEMMA RegisterReply ==
  ASSUME TypeOK, WireInv, Register
  PROVE  (Restarts \/ KeepsReply) /\ Quiet'
<1>1. CASE HTTPInit
  BY <1>1 DEF HTTPInit, Restarts, Quiet
<1>2. CASE ~HTTPInit
  BY <1>2 DEF Register, AddPage, DefaultPage, ServerSetEventsURL, DefaultREST,
              KeepsReply, WireInv, Quiet
<1> QED
  BY <1>1, <1>2

LEMMA ParseReply ==
  ASSUME TypeOK, WireInv, Parse
  PROVE  (Begins \/ Continues) /\ Quiet'
<1>1. resp \in Response /\ Sent(resp) /\ resp' \in Response
  BY ParseTyped DEF TypeOK, WireInv, Sent
<1>2. ASSUME NEW m, Execute(m) PROVE Begins /\ Quiet'
  <2>1. /\ resp'.wire = <<>> /\ resp'.firstlineSent = FALSE
        /\ resp'.headersSent = FALSE
    BY <1>2 DEF Execute, NoReply
  <2>2. Sent(resp')
    BY <1>1, <2>1, NothingSent
  <2>3. pc = "idle" /\ pc' \in {"url", "gate"}
    BY <1>2 DEF Execute
  <2> QED
    BY <2>1, <2>2, <2>3 DEF Begins, Quiet
<1>3. ASSUME NEW v \in Verdicts, AuthorizationHeader(v) PROVE Continues /\ Quiet'
  <2>1. /\ resp'.wire = resp.wire /\ resp'.firstlineSent = resp.firstlineSent
        /\ resp'.headersSent = resp.headersSent
    BY <1>1, <1>3 DEF AuthorizationHeader, Response
  <2>2. Sent(resp') /\ Grows(resp, resp')
    BY <1>1, <2>1, SameWire DEF Sent
  <2>3. pc = "headers" /\ pc' = "headers"
    BY <1>3 DEF AuthorizationHeader
  <2> QED
    BY <2>1, <2>2, <2>3 DEF Continues, WireInv, Quiet
<1>4. ASSUME \/ ParseURLMissing \/ HeadersDone
             \/ \E tok \in Tokens, eof \in BOOLEAN : ParseURL(tok, eof)
             \/ \E t \in AppTypes : AcceptHeader(t)
             \/ \E t \in AppTypes : ContentTypeHeader(t)
      PROVE  Continues /\ Quiet'
  <2>1. resp' = resp /\ pc \in {"url", "headers"} /\ pc' \in {"headers", "gate"}
    BY <1>4 DEF ParseURLMissing, HeadersDone, ParseURL, AcceptHeader, ContentTypeHeader
  <2>2. Grows(resp, resp')
    BY <1>1, <2>1, SameWire DEF Sent
  <2> QED
    BY <1>1, <2>1, <2>2 DEF Continues, WireInv, Quiet
<1> QED
  BY <1>2, <1>3, <1>4 DEF Parse

LEMMA DispatchReply ==
  ASSUME TypeOK, WireInv, Dispatch
  PROVE  Continues /\ Quiet'
<1>1. resp \in Response /\ Sent(resp) /\ resp' \in Response
  BY DispatchTyped DEF TypeOK, WireInv, Sent
<1>2. pc \in {"gate", "find"} /\ pc' \in {"find", "callback", "reply"}
  BY DEF Dispatch, Gate, FindPage, FindEvents, FindNothing, FindAPICallback
<1>3. resp.wire = <<>>
  BY <1>2 DEF WireInv, Quiet
<1>4. ASSUME NEW code, resp' = [resp EXCEPT !.returnCode = code]
      PROVE  Sent(resp') /\ Grows(resp, resp') /\ resp'.wire = <<>>
  <2>1. /\ resp'.wire = resp.wire /\ resp'.firstlineSent = resp.firstlineSent
        /\ resp'.headersSent = resp.headersSent
    BY <1>1, <1>4 DEF Response
  <2> QED
    BY <1>1, <1>3, <2>1, SameWire DEF Sent
<1>5. ASSUME Gate PROVE Continues /\ Quiet'
  <2>1. Sent(resp') /\ Grows(resp, resp') /\ resp'.wire = <<>>
    BY <1>4, <1>5 DEF Gate
  <2> QED
    BY <1>2, <2>1 DEF Continues, Quiet
<1>6. ASSUME FindNothing \/ FindAPICallback PROVE Sent(resp') /\ Grows(resp, resp')
  <2>1. CASE resp' = resp
    BY <1>1, <2>1, SameWire DEF Sent
  <2>2. CASE resp' # resp
    <3>1. resp' = [resp EXCEPT !.returnCode = STATUS_INTERNAL_ERROR]
      BY <1>6, <2>2, Zenon DEF FindNothing, FindAPICallback
    <3> QED
      BY <1>4, <3>1
  <2> QED
    BY <2>1, <2>2
<1>7. ASSUME FindEvents PROVE Sent(resp') /\ Grows(resp, resp')
  BY <1>1, <1>3, <1>7, EventHeadersSends DEF FindEvents
<1>8. ASSUME FindPage PROVE Sent(resp') /\ Grows(resp, resp')
  <2> DEFINE r == [resp EXCEPT !.returnCode = STATUS_OK]
             h == HeaderBlock(FirstLine(r, r.returnCode), FoundPage.type)
             w == Write(h, FoundPage.content)
  <2>1. CASE method = "GET"
    <3>1. resp' = w
      BY <1>8, <2>1, Zenon DEF FindPage, SendHeaders
    <3>2. FoundPage.content \in Contents \cup {Favicon} /\ FoundPage.type \in 0..8
      BY <1>8, TypesOfAll, FoundPageFields DEF FindPage
    <3>3. Sent(r) /\ Grows(resp, r)
      BY <1>1, SetCodeSends DEF STATUS_OK
    <3> HIDE DEF r
    <3>4. r.returnCode \in Nat
      BY <3>3, ReplyFields DEF Sent
    <3>5. Sent(h) /\ Grows(r, h)
      BY <3>2, <3>3, <3>4, SendHeadersSends
    <3> HIDE DEF h
    <3>6. Sent(w) /\ Grows(h, w)
      BY <3>2, <3>5, WriteSends
    <3> HIDE DEF w
    <3>7. Grows(resp, h)
      BY <1>1, <3>3, <3>5, GrowsIsTransitive DEF Sent
    <3>8. Grows(resp, w)
      BY <1>1, <3>5, <3>6, <3>7, GrowsIsTransitive DEF Sent
    <3> QED
      BY <3>1, <3>6, <3>8
  <2>2. CASE method # "GET"
    BY <1>4, <1>8, <2>2 DEF FindPage
  <2> QED
    BY <2>1, <2>2
<1>9. ASSUME ~Gate PROVE Continues /\ Quiet'
  <2>1. pc' \in {"callback", "reply"}
    BY <1>9 DEF Dispatch, FindPage, FindEvents, FindNothing, FindAPICallback
  <2>2. Sent(resp') /\ Grows(resp, resp')
    BY <1>6, <1>7, <1>8, <1>9 DEF Dispatch
  <2> QED
    BY <1>2, <2>1, <2>2 DEF Continues, Quiet
<1> QED
  BY <1>5, <1>9

LEMMA CallbackReply ==
  ASSUME TypeOK, WireInv, RunCallback
  PROVE  Continues /\ Quiet'
<1>1. resp \in Response /\ Sent(resp) /\ resp.returnCode \in Nat
  BY ReplyFields DEF TypeOK, WireInv, Sent
<1>2. pc = "callback" /\ pc' \in {"callback", "reply"}
  BY DEF RunCallback, CallbackFirstLine, CallbackSendHeaders,
         CallbackRESTSendHeaders, CallbackWrite, CallbackStep, CallbackReturn
<1>3. ASSUME NEW c \in AppCodes, CallbackFirstLine(c) \/ CallbackReturn(c)
      PROVE  Sent(resp') /\ Grows(resp, resp')
  <2>1. CASE CallbackFirstLine(c)
    BY <1>1, <2>1, Codes, FirstLineSends DEF CallbackFirstLine, CallbackStep
  <2>2. CASE CallbackReturn(c)
    <3>1. (IF c = STATUS_RUNKNOWN THEN STATUS_OK ELSE c) \in Nat
      BY Codes DEF STATUS_OK
    <3> QED
      BY <1>1, <2>2, <3>1, SetCodeSends DEF CallbackReturn
  <2> QED
    BY <1>3, <2>1, <2>2
<1>4. ASSUME CallbackSendHeaders PROVE Sent(resp') /\ Grows(resp, resp')
  <2>1. contenttype \in 0..8
    BY DEF TypeOK, MimeTypes
  <2> QED
    BY <1>1, <1>4, <2>1, SendHeadersSends
    DEF CallbackSendHeaders, CallbackStep, SendHeaders
<1>5. ASSUME NEW c \in AppCodes, NEW t \in AppTypes, CallbackRESTSendHeaders(c, t)
      PROVE  Sent(resp') /\ Grows(resp, resp')
  BY <1>1, <1>5, Codes, SendHeadersSends
  DEF CallbackRESTSendHeaders, CallbackStep, RESTSendHeaders
<1>6. ASSUME CallbackWrite PROVE Sent(resp') /\ Grows(resp, resp')
  BY <1>1, <1>6, WriteSends DEF CallbackWrite, CallbackStep
<1>7. Sent(resp') /\ Grows(resp, resp')
  BY <1>3, <1>4, <1>5, <1>6 DEF RunCallback
<1> QED
  BY <1>2, <1>7 DEF Continues, Quiet

LEMMA ReplyReply ==
  ASSUME TypeOK, WireInv, Reply
  PROVE  Ends /\ Quiet'
<1>1. resp \in Response /\ Sent(resp) /\ resp.returnCode \in Nat
  BY ReplyFields DEF TypeOK, WireInv, Sent
<1>2. pc = "reply" /\ pc' = "idle"
  BY DEF Reply
<1>3. Sent(resp') /\ Grows(resp, resp') /\ resp'.firstlineSent
  <2>1. CASE resp' = SendAuthMessage(resp)
    BY <1>1, <2>1, AuthMessageSends
  <2>2. CASE resp' = FirstLine(resp, STATUS_OK)
    BY <1>1, <2>2, FirstLineSends DEF STATUS_OK
  <2>3. CASE resp' = FirstLine(resp, resp.returnCode)
    BY <1>1, <2>3, FirstLineSends
  <2> QED
    BY <2>1, <2>2, <2>3 DEF Reply
<1> QED
  BY <1>2, <1>3 DEF Ends, Quiet

(* Every step is one of the five kinds, and keeps the invariant.           *)
LEMMA StepsOfTheReply ==
  ASSUME TypeOK, WireInv, [Next]_vars
  PROVE  ReplyStepOf /\ WireInv'
<1>1. ReplyStepOf /\ Quiet'
  <2>1. ASSUME UNCHANGED vars PROVE KeepsReply /\ Quiet'
    BY <2>1 DEF vars, KeepsReply, WireInv, Quiet
  <2> QED
    BY <2>1, RegisterReply, ParseReply, DispatchReply, CallbackReply, ReplyReply
    DEF Next, ReplyStepOf
<1>2. Sent(NoReply)
  <2>1. NoReply.wire = <<>> /\ ~NoReply.firstlineSent /\ ~NoReply.headersSent
    BY DEF NoReply
  <2> QED
    BY <2>1, InitialTyped, NothingSent
<1>3. Marked(resp')
  <2>1. CASE KeepsReply
    BY <2>1 DEF KeepsReply, WireInv
  <2>2. CASE Restarts
    BY <1>2, <2>2 DEF Restarts, Sent
  <2>3. CASE Begins \/ Continues \/ Ends
    BY <2>3 DEF Begins, Continues, Ends, Sent
  <2> QED
    BY <1>1, <2>1, <2>2, <2>3 DEF ReplyStepOf
<1> QED
  BY <1>1, <1>3 DEF WireInv

-----------------------------------------------------------------------------
(***************************************************************************)
(* The refinement of ReplyProtocol.                                        *)
(***************************************************************************)
Parts(r) == [i \in DOMAIN r.wire |-> r.wire[i].part]

LEMMA PartsOfReply ==
  ASSUME NEW r \in Response
  PROVE  /\ Len(r.wire) \in Nat
         /\ DOMAIN Parts(r) = 1..Len(r.wire) /\ Len(Parts(r)) = Len(r.wire)
         /\ \A i \in 1..Len(r.wire) : Parts(r)[i] = r.wire[i].part
<1>1. r.wire \in Seq(Part)
  BY ReplyFields
<1>2. Len(r.wire) \in Nat /\ DOMAIN r.wire = 1..Len(r.wire)
  BY <1>1, LenProperties
<1>3. Parts(r) = [i \in 1..Len(r.wire) |-> r.wire[i].part]
  BY <1>2 DEF Parts
<1> QED
  BY <1>2, <1>3

LEMMA GrowsIsExtends ==
  ASSUME NEW r \in Response, NEW s \in Response, Grows(r, s)
  PROVE  Protocol!Extends(Parts(r), Parts(s))
<1>1. Len(r.wire) <= Len(s.wire) /\ \A i \in 1..Len(r.wire) : s.wire[i] = r.wire[i]
  BY DEF Grows
<1>2. Len(r.wire) \in Nat /\ Len(s.wire) \in Nat
  BY PartsOfReply
<1>3. 1..Len(r.wire) \subseteq 1..Len(s.wire)
  BY <1>1, <1>2
<1>4. \A i \in 1..Len(r.wire) : Parts(s)[i] = Parts(r)[i]
  BY <1>1, <1>3, PartsOfReply
<1>5. Len(Parts(r)) <= Len(Parts(s))
  BY <1>1, PartsOfReply
<1> QED
  BY <1>4, <1>5, PartsOfReply DEF Protocol!Extends

LEMMA SentIsLegal ==
  ASSUME NEW r, Sent(r)
  PROVE  /\ Protocol!Legal(Parts(r))
         /\ r.firstlineSent => Protocol!HasStatus(Parts(r))
<1> DEFINE n == Len(r.wire)
<1>1. r \in Response /\ Marked(r)
  BY DEF Sent
<1>2. n \in Nat /\ DOMAIN Parts(r) = 1..n /\ \A i \in 1..n : Parts(r)[i] = r.wire[i].part
  BY <1>1, PartsOfReply
<1>3. \A i, j \in 1..n : Parts(r)[i] = Parts(r)[j] /\ Parts(r)[i] # "body" => i = j
  BY <1>1, <1>2 DEF Marked
<1>4. ASSUME NEW j \in 1..n, Parts(r)[j] = "headers"
      PROVE  \E i \in 1..j - 1 : Parts(r)[i] = "status"
  <2>1. PICK i \in 1..j - 1 : r.wire[i].part = "status"
    BY <1>1, <1>2, <1>4 DEF Marked
  <2>2. i \in 1..n
    BY <1>2
  <2> QED
    BY <1>2, <2>1, <2>2
<1>5. r.firstlineSent => \E i \in 1..n : Parts(r)[i] = "status"
  BY <1>1, <1>2 DEF Marked, HasPart
<1> QED
  BY <1>2, <1>3, <1>4, <1>5 DEF Protocol!Legal, Protocol!HasStatus

LEMMA NoParts == ASSUME NEW r, r.wire = <<>> PROVE Parts(r) = <<>>
BY DEF Parts

(* The mapping, under the names the lemmas use.                            *)
LEMMA MappedVariables ==
  /\ Protocol!Init <=> (pc # "idle") = FALSE /\ Parts(resp) = <<>>
  /\ Protocol!Open <=> pc = "idle" /\ pc' # "idle" /\ Parts(resp') = <<>>
  /\ Protocol!Restart <=> pc = "idle" /\ pc' = "idle" /\ Parts(resp') = <<>>
  /\ Protocol!Emit <=> /\ pc # "idle" /\ pc' # "idle"
                       /\ Protocol!Extends(Parts(resp), Parts(resp'))
                       /\ Protocol!Legal(Parts(resp'))
  /\ Protocol!Close <=> /\ pc # "idle" /\ pc' = "idle"
                        /\ Protocol!Extends(Parts(resp), Parts(resp'))
                        /\ Protocol!Legal(Parts(resp'))
                        /\ Protocol!HasStatus(Parts(resp'))
BY Zenon DEF Parts, Protocol!Init, Protocol!Open, Protocol!Restart, Protocol!Emit,
             Protocol!Close

(* A step of the server is a step of the protocol, or none.                *)
LEMMA StepRefines ==
  ASSUME TypeOK, TypeOK', ReplyStepOf
  PROVE  [Protocol!Next]_<<pc # "idle", Parts(resp)>>
<1>1. resp \in Response /\ resp' \in Response
  BY DEF TypeOK
<1>2. CASE Restarts
  <2>1. NoReply.wire = <<>>
    BY DEF NoReply
  <2>2. Parts(resp') = <<>>
    BY <1>2, <2>1, NoParts DEF Restarts
  <2>3. Protocol!Restart
    BY <1>2, <2>2, MappedVariables DEF Restarts
  <2> QED
    BY <2>3, Zenon DEF Protocol!Next
<1>3. CASE Begins
  <2>1. Parts(resp') = <<>>
    BY <1>3, NoParts DEF Begins
  <2>2. Protocol!Open
    BY <1>3, <2>1, MappedVariables DEF Begins
  <2> QED
    BY <2>2, Zenon DEF Protocol!Next
<1>4. CASE Continues
  <2>1. Protocol!Extends(Parts(resp), Parts(resp')) /\ Protocol!Legal(Parts(resp'))
    BY <1>1, <1>4, GrowsIsExtends, SentIsLegal DEF Continues
  <2>2. Protocol!Emit
    BY <1>4, <2>1, MappedVariables DEF Continues
  <2> QED
    BY <2>2, Zenon DEF Protocol!Next
<1>5. CASE Ends
  <2>1. /\ Protocol!Extends(Parts(resp), Parts(resp')) /\ Protocol!Legal(Parts(resp'))
        /\ Protocol!HasStatus(Parts(resp'))
    BY <1>1, <1>5, GrowsIsExtends, SentIsLegal DEF Ends
  <2>2. Protocol!Close
    BY <1>5, <2>1, MappedVariables DEF Ends
  <2> QED
    BY <2>2, Zenon DEF Protocol!Next
<1>6. CASE KeepsReply
  BY <1>6 DEF KeepsReply, Parts
<1> QED
  BY <1>2, <1>3, <1>4, <1>5, <1>6 DEF ReplyStepOf

(* Whatever clients send and callbacks print, the client sees one reply at *)
(* a time: a status line, once, at most one block of headers behind it,    *)
(* and when the exchange is over the status line has been sent.            *)
THEOREM RepliesFollowProtocol == Spec => OneReply
<1>1. Init => WireInv /\ Protocol!Init
  <2> SUFFICES ASSUME Init PROVE WireInv /\ Protocol!Init
    OBVIOUS
  <2>1. resp = NoReply /\ pc = "idle"
    BY DEF Init
  <2>2. NoReply.wire = <<>> /\ ~NoReply.firstlineSent /\ ~NoReply.headersSent
    BY DEF NoReply
  <2>3. Sent(NoReply)
    BY <2>2, InitialTyped, NothingSent
  <2>4. Parts(resp) = <<>>
    BY <2>1, <2>2, NoParts
  <2>5. Protocol!Init
    BY <2>1, <2>4, MappedVariables
  <2> QED
    BY <2>1, <2>3, <2>5 DEF WireInv, Quiet, Sent
<1>2. TypeOK /\ TypeOK' /\ WireInv /\ [Next]_vars
        => WireInv' /\ [Protocol!Next]_<<pc # "idle", Parts(resp)>>
  BY StepsOfTheReply, StepRefines
<1>3. Spec => []TypeOK
  BY ServerTypes
<1> QED
  BY <1>1, <1>2, <1>3, PTL DEF Spec, OneReply, Protocol!Spec, Parts

-----------------------------------------------------------------------------
(***************************************************************************)
(* The code attoHTTPExecute returns.  HasLine says that the status line    *)
(* for a code is on the wire.  A callback that has not spoken has not sent *)
(* the status line, and if it has been sent without a callback, it was 200,*)
(* for a page or for an event stream.                                      *)
(***************************************************************************)
HasLine(r, code) == \E i \in 1..Len(r.wire) : r.wire[i] = StatusLine(code)
ResultLater == pc # "idle" => result = 0
SilentCallback == pc = "callback" /\ ~spoke => ~resp.firstlineSent
SentByServer ==
  pc = "reply" /\ ~spoke /\ resp.firstlineSent =>
    /\ resp.returnCode \in {STATUS_OK, STATUS_SERVERSENTEVENTS}
    /\ HasLine(resp, STATUS_OK)
CodeInv == ResultLater /\ SilentCallback /\ SentByServer /\ CodeSent

LEMMA LineStays ==
  ASSUME NEW r \in Response, NEW s \in Response, NEW code,
         HasLine(r, code), Grows(r, s)
  PROVE  HasLine(s, code)
<1>1. Len(r.wire) \in Nat /\ Len(s.wire) \in Nat
  BY ReplyFields
<1> QED
  BY <1>1 DEF HasLine, Grows

LEMMA FirstLineHasLine ==
  ASSUME NEW r \in Response, NEW code \in Nat, ~r.firstlineSent
  PROVE  /\ HasLine(FirstLine(r, code), code)
         /\ FirstLine(r, code).returnCode
              = IF code \in KnownCodes THEN r.returnCode ELSE STATUS_INTERNAL_ERROR
<1> DEFINE f == FirstLine(r, code)
<1>1. /\ f.wire = Append(r.wire, StatusLine(code))
      /\ f.returnCode = IF code \in KnownCodes THEN r.returnCode
                        ELSE STATUS_INTERNAL_ERROR
  BY DEF FirstLine, Response
<1>2. r.wire \in Seq(Part) /\ Len(r.wire) \in Nat
  BY ReplyFields
<1> HIDE DEF f
<1>3. Len(f.wire) = Len(r.wire) + 1 /\ f.wire[Len(r.wire) + 1] = StatusLine(code)
  BY <1>1, <1>2
<1>4. Len(r.wire) + 1 \in 1..Len(f.wire)
  BY <1>2, <1>3
<1>5. HasLine(f, code)
  BY <1>3, <1>4 DEF HasLine
<1> QED
  BY <1>1, <1>5 DEF f

(* What CodeSent asks for, in terms of the code given to FirstLine.        *)
LEMMA LineIsCodeSent ==
  ASSUME TypeOK', NEW code, HasLine(resp', code),
         Known(code) = IF result' = STATUS_SERVERSENTEVENTS THEN STATUS_OK ELSE result'
  PROVE  CodeSent'
<1>1. PICK i \in 1..Len(resp'.wire) : resp'.wire[i] = StatusLine(code)
  BY DEF HasLine
<1>2. resp'.wire \in Seq(Part)
  BY ReplyFields DEF TypeOK
<1>3. i \in DOMAIN resp'.wire
  BY <1>2, LenProperties
<1>4. resp'.wire[i] = [part |-> "status",
                       val |-> IF result' = STATUS_SERVERSENTEVENTS
                               THEN STATUS_OK ELSE result']
  BY <1>1 DEF StatusLine
<1> QED
  BY <1>3, <1>4, Zenon DEF CodeSent

(* As long as the request is parsed there is nothing to show.              *)
LEMMA QuietCode ==
  ASSUME result' = 0, pc' \notin {"callback", "reply"}
  PROVE  CodeInv'
BY DEF CodeInv, ResultLater, SilentCallback, SentByServer, CodeSent

LEMMA NoLineYet ==
  ASSUME result' = 0, ~resp'.firstlineSent
  PROVE  CodeInv'
BY DEF CodeInv, ResultLater, SilentCallback, SentByServer, CodeSent

LEMMA DispatchCode ==
  ASSUME TypeOK, WireInv, CodeInv, Dispatch
  PROVE  CodeInv'
<1>1. /\ resp \in Response /\ Sent(resp) /\ resp' \in Response
      /\ resp.returnCode \in Nat
  BY DispatchTyped, ReplyFields DEF TypeOK, WireInv, Sent
<1>2. /\ pc \in {"gate", "find"} /\ pc' \in {"find", "callback", "reply"}
      /\ result' = result
  BY DEF Dispatch, Gate, FindPage, FindEvents, FindNothing, FindAPICallback
<1>3. result' = 0 /\ resp.wire = <<>>
  BY <1>2 DEF WireInv, Quiet, CodeInv, ResultLater
<1>4. ~resp.firstlineSent
  <2>1. Len(resp.wire) = 0
    BY <1>3
  <2> QED
    BY <2>1 DEF WireInv, Marked, HasPart
<1>5. ASSUME NEW code, resp' = [resp EXCEPT !.returnCode = code] PROVE CodeInv'
  <2>1. resp'.firstlineSent = resp.firstlineSent
    BY <1>1, <1>5 DEF Response
  <2> QED
    BY <1>3, <1>4, <2>1, NoLineYet
<1>6. CASE Gate
  BY <1>5, <1>6 DEF Gate
<1>7. CASE FindNothing \/ FindAPICallback
  <2>1. CASE resp' = resp
    BY <1>3, <1>4, <2>1, NoLineYet
  <2>2. CASE resp' # resp
    <3>1. resp' = [resp EXCEPT !.returnCode = STATUS_INTERNAL_ERROR]
      BY <1>7, <2>2, Zenon DEF FindNothing, FindAPICallback
    <3> QED
      BY <1>5, <3>1
  <2> QED
    BY <2>1, <2>2
<1>8. ASSUME pc' = "reply", HasLine(resp', STATUS_OK),
             resp'.returnCode \in {STATUS_OK, STATUS_SERVERSENTEVENTS}
      PROVE  CodeInv'
  BY <1>3, <1>8, Zenon
  DEF CodeInv, ResultLater, SilentCallback, SentByServer, CodeSent
<1>9. CASE FindEvents
  <2> DEFINE f == FirstLine(resp, STATUS_OK)
  <2>1. f \in Response /\ HasLine(f, STATUS_OK)
    BY <1>1, <1>4, FirstLineTyped, FirstLineHasLine DEF STATUS_OK
  <2>2. resp' = [f EXCEPT !.headersSent = TRUE, !.returnCode = STATUS_SERVERSENTEVENTS,
                          !.wire = Append(@, Headers(TEXT_EVENTSTREAM))]
    BY <1>9 DEF FindEvents, SendServerSentEventHeaders
  <2> HIDE DEF f
  <2>3. /\ resp'.wire = Append(f.wire, Headers(TEXT_EVENTSTREAM))
        /\ resp'.returnCode = STATUS_SERVERSENTEVENTS
    BY <2>1, <2>2 DEF Response
  <2>4. f.wire \in Seq(Part) /\ Len(f.wire) \in Nat
    BY <2>1, ReplyFields
  <2>5. Grows(f, resp')
    BY <2>3, <2>4 DEF Grows
  <2>6. HasLine(resp', STATUS_OK)
    BY <1>1, <2>1, <2>5, LineStays
  <2>7. pc' = "reply"
    BY <1>9 DEF FindEvents
  <2> QED
    BY <1>8, <2>3, <2>6, <2>7
<1>10. CASE FindPage /\ method = "GET"
  <2> DEFINE r == [resp EXCEPT !.returnCode = STATUS_OK]
             f == FirstLine(r, r.returnCode)
             h == HeaderBlock(f, FoundPage.type)
             w == Write(h, FoundPage.content)
  <2>1. resp' = w /\ pc' = "reply"
    BY <1>10, Zenon DEF FindPage, SendHeaders
  <2>2. FoundPage.content \in Contents \cup {Favicon} /\ FoundPage.type \in 0..8
    BY <1>10, TypesOfAll, FoundPageFields DEF FindPage
  <2>3. /\ r \in Response /\ r.returnCode = STATUS_OK /\ STATUS_OK \in Nat
        /\ ~r.firstlineSent /\ Sent(r)
    BY <1>1, <1>4, SetCodeTyped, SetCodeSends DEF STATUS_OK, Response
  <2> HIDE DEF r
  <2>4. f.returnCode = STATUS_OK /\ HasLine(f, STATUS_OK)
    BY <2>3, FirstLineHasLine DEF KnownCodes, STATUS_OK
  <2>5. Sent(f) /\ f.firstlineSent
    BY <2>3, FirstLineSends
  <2> HIDE DEF f
  <2>6. Sent(h) /\ Grows(f, h)
    BY <2>2, <2>5, HeaderBlockSends
  <2>7. h.returnCode = STATUS_OK
    BY <2>4, <2>5 DEF HeaderBlock, Sent, Response
  <2> HIDE DEF h
  <2>8. Sent(w) /\ Grows(h, w)
    BY <2>2, <2>6, WriteSends
  <2>9. w.returnCode = STATUS_OK
    BY <2>6, <2>7 DEF Write, Sent, Response
  <2> HIDE DEF w
  <2>10. HasLine(w, STATUS_OK)
    BY <2>4, <2>5, <2>6, <2>8, LineStays DEF Sent
  <2> QED
    BY <1>8, <2>1, <2>9, <2>10
<1>11. CASE FindPage /\ method # "GET"
  BY <1>5, <1>11 DEF FindPage
<1> QED
  BY <1>6, <1>7, <1>9, <1>10, <1>11 DEF Dispatch

LEMMA CallbackCode ==
  ASSUME TypeOK, CodeInv, RunCallback
  PROVE  CodeInv'
<1>1. pc = "callback" /\ result' = 0
  BY DEF RunCallback, CallbackFirstLine, CallbackSendHeaders,
         CallbackRESTSendHeaders, CallbackWrite, CallbackStep, CallbackReturn,
         CodeInv, ResultLater
<1>2. ASSUME NEW r, CallbackStep(r) PROVE CodeInv'
  <2>1. pc' = "callback" /\ spoke' = resp'.firstlineSent
    BY <1>2, Zenon DEF CallbackStep
  <2> QED
    BY <1>1, <2>1, Zenon
    DEF CodeInv, ResultLater, SilentCallback, SentByServer, CodeSent
<1>3. ASSUME NEW c, CallbackReturn(c) PROVE CodeInv'
  <2>1. pc' = "reply" /\ spoke' = spoke /\ resp'.firstlineSent = resp.firstlineSent
    BY <1>3 DEF CallbackReturn, TypeOK, Response
  <2>2. ~spoke => ~resp.firstlineSent
    BY <1>1 DEF CodeInv, SilentCallback
  <2> QED
    BY <1>1, <2>1, <2>2, Zenon
    DEF CodeInv, ResultLater, SilentCallback, SentByServer, CodeSent
<1> QED
  BY <1>2, <1>3 DEF RunCallback, CallbackFirstLine, CallbackSendHeaders,
                    CallbackRESTSendHeaders, CallbackWrite

LEMMA RegisterCode ==
  ASSUME CodeInv, Register
  PROVE  CodeInv'
<1>1. CASE HTTPInit
  <2>1. result' = 0 /\ pc' = "idle"
    BY <1>1 DEF HTTPInit
  <2> QED
    BY <2>1, QuietCode
<1>2. CASE ~HTTPInit
  <2>1. UNCHANGED <<pc, resp, result, spoke>>
    BY <1>2 DEF Register, AddPage, DefaultPage, ServerSetEventsURL, DefaultREST
  <2> QED
    BY <2>1 DEF CodeInv, ResultLater, SilentCallback, SentByServer, CodeSent, HasLine
<1> QED
  BY <1>1, <1>2

LEMMA ParseCode ==
  ASSUME CodeInv, Parse
  PROVE  CodeInv'
<1>1. /\ pc' \in {"url", "headers", "gate"}
      /\ result' = 0 \/ (result' = result /\ pc # "idle")
  <2>1. CASE \E m \in ClientMethods \cup {"other", "none"} : Execute(m)
    BY <2>1 DEF Execute
  <2>2. CASE ~\E m \in ClientMethods \cup {"other", "none"} : Execute(m)
    BY <2>2 DEF Parse, ParseURLMissing, ParseURL, AcceptHeader, ContentTypeHeader,
                AuthorizationHeader, HeadersDone
  <2> QED
    BY <2>1, <2>2
<1>2. result' = 0
  BY <1>1 DEF CodeInv, ResultLater
<1> QED
  BY <1>1, <1>2, QuietCode

(* A 401 reply returns 401.                                                *)
LEMMA AuthMessageLine ==
  ASSUME NEW r, Sent(r), ~r.firstlineSent, r.returnCode = STATUS_UNAUTHORIZED
  PROVE  /\ HasLine(SendAuthMessage(r), STATUS_UNAUTHORIZED)
         /\ SendAuthMessage(r).returnCode = STATUS_UNAUTHORIZED
<1> DEFINE f == FirstLine(r, STATUS_UNAUTHORIZED)
           h == HeaderBlock(f, Challenge)
           w == Write(h, AuthErrorMsg)
<1>1. Sent(f) /\ f.firstlineSent
  BY FirstLineSends DEF STATUS_UNAUTHORIZED
<1>2. HasLine(f, STATUS_UNAUTHORIZED) /\ f.returnCode = STATUS_UNAUTHORIZED
  BY FirstLineHasLine DEF Sent, STATUS_UNAUTHORIZED, KnownCodes
<1>3. SendAuthMessage(r) = IF f.headersSent THEN f ELSE w
  BY DEF SendAuthMessage
<1> HIDE DEF f
<1>4. Sent(h) /\ Grows(f, h)
  BY <1>1, HeaderBlockSends DEF Challenge
<1>5. h.returnCode = f.returnCode
  BY <1>1 DEF HeaderBlock, Sent, Response
<1> HIDE DEF h
<1>6. Sent(w) /\ Grows(h, w)
  BY <1>4, WriteSends
<1>7. w.returnCode = h.returnCode
  BY <1>4 DEF Write, Sent, Response
<1> HIDE DEF w
<1>8. HasLine(w, STATUS_UNAUTHORIZED)
  BY <1>1, <1>2, <1>4, <1>6, LineStays DEF Sent
<1> QED
  BY <1>2, <1>3, <1>5, <1>7, <1>8

LEMMA ReplyCode ==
  ASSUME TypeOK, WireInv, CodeInv, Reply
  PROVE  CodeInv'
<1>1. /\ resp \in Response /\ Sent(resp) /\ resp.returnCode \in Nat /\ TypeOK'
  BY ReplyStepTyped, ReplyFields DEF TypeOK, WireInv, Sent
<1>2. /\ pc = "reply" /\ pc' = "idle" /\ spoke' = spoke
      /\ result' = resp'.returnCode
  BY DEF Reply
<1>3. ASSUME CodeSent' PROVE CodeInv'
  BY <1>2, <1>3 DEF CodeInv, ResultLater, SilentCallback, SentByServer
<1>4. CASE spoke
  BY <1>2, <1>3, <1>4 DEF CodeSent
<1>5. CASE ~spoke /\ resp.firstlineSent
  <2>1. /\ resp.returnCode \in {STATUS_OK, STATUS_SERVERSENTEVENTS}
        /\ HasLine(resp, STATUS_OK)
    BY <1>2, <1>5 DEF CodeInv, SentByServer
  <2>2. resp.returnCode # STATUS_UNAUTHORIZED
    BY <2>1 DEF STATUS_OK, STATUS_SERVERSENTEVENTS, STATUS_UNAUTHORIZED
  <2>3. resp' = resp
    BY <1>5, <2>2 DEF Reply, FirstLine
  <2>4. Known(STATUS_OK) = STATUS_OK
    BY DEF Known, KnownCodes, STATUS_OK
  <2> QED
    BY <1>1, <1>2, <1>3, <2>1, <2>3, <2>4, LineIsCodeSent
<1>6. CASE ~resp.firstlineSent /\ resp.returnCode = STATUS_UNAUTHORIZED
  <2>1. resp' = SendAuthMessage(resp)
    BY <1>6 DEF Reply
  <2>2. HasLine(resp', STATUS_UNAUTHORIZED) /\ result' = STATUS_UNAUTHORIZED
    BY <1>1, <1>2, <1>6, <2>1, AuthMessageLine
  <2>3. /\ Known(STATUS_UNAUTHORIZED) = STATUS_UNAUTHORIZED
        /\ STATUS_UNAUTHORIZED # STATUS_SERVERSENTEVENTS
    BY DEF Known, KnownCodes, STATUS_UNAUTHORIZED, STATUS_SERVERSENTEVENTS
  <2> QED
    BY <1>1, <1>3, <2>2, <2>3, LineIsCodeSent
<1>7. CASE ~resp.firstlineSent /\ resp.returnCode = STATUS_SERVERSENTEVENTS
  <2>1. resp' = FirstLine(resp, STATUS_OK)
    BY <1>7 DEF Reply, STATUS_UNAUTHORIZED, STATUS_SERVERSENTEVENTS
  <2>2. HasLine(resp', STATUS_OK) /\ result' = STATUS_SERVERSENTEVENTS
    BY <1>1, <1>2, <1>7, <2>1, FirstLineHasLine DEF STATUS_OK, KnownCodes
  <2>3. Known(STATUS_OK) = STATUS_OK
    BY DEF Known, KnownCodes, STATUS_OK
  <2> QED
    BY <1>1, <1>3, <2>2, <2>3, LineIsCodeSent
<1>8. CASE /\ ~resp.firstlineSent
           /\ resp.returnCode \notin {STATUS_UNAUTHORIZED, STATUS_SERVERSENTEVENTS}
  <2> DEFINE code == resp.returnCode
  <2>1. resp' = FirstLine(resp, code)
    BY <1>8 DEF Reply
  <2>2. /\ HasLine(resp', code)
        /\ result' = IF code \in KnownCodes THEN code ELSE STATUS_INTERNAL_ERROR
    BY <1>1, <1>2, <1>8, <2>1, FirstLineHasLine
  <2>3. Known(code) = result' /\ result' # STATUS_SERVERSENTEVENTS
    BY <1>8, <2>2 DEF Known, STATUS_INTERNAL_ERROR, STATUS_SERVERSENTEVENTS
  <2> QED
    BY <1>1, <1>3, <2>2, <2>3, LineIsCodeSent
<1> QED
  BY <1>4, <1>5, <1>6, <1>7, <1>8

(* Whatever the application's callback does, what attoHTTPExecute returns  *)
(* is what the status line on the wire says, unless the callback sent the  *)
(* status line itself: a code FirstLine replaces by 500 is returned as 500 *)
(* too, and a 401 found by the gate is both sent and returned.             *)
THEOREM ReturnedCodeWasSent == Spec => []CodeSent
<1> DEFINE I == TypeOK /\ WireInv /\ CodeInv
<1>1. ASSUME Init PROVE I
  <2>1. TypeOK
    BY <1>1, InitTyped
  <2>2. NoReply \in Response /\ Sent(NoReply)
    <3>1. NoReply.wire = <<>> /\ ~NoReply.firstlineSent /\ ~NoReply.headersSent
      BY DEF NoReply
    <3> QED
      BY <3>1, InitialTyped, NothingSent
  <2>3. resp = NoReply /\ pc = "idle" /\ result = 0
    BY <1>1 DEF Init
  <2> QED
    BY <2>1, <2>2, <2>3, Zenon DEF WireInv, Quiet, Sent, CodeInv, ResultLater,
       SilentCallback, SentByServer, CodeSent
<1>2. ASSUME I, [Next]_vars PROVE I'
  <2>1. TypeOK' /\ WireInv'
    BY <1>2, NextTyped, StepsOfTheReply
  <2>2. CASE UNCHANGED vars
    BY <1>2, <2>1, <2>2 DEF vars, CodeInv, ResultLater, SilentCallback, SentByServer,
                            CodeSent, HasLine
  <2>3. CASE Next
    <3>1. CodeInv'
      BY <1>2, <2>3, RegisterCode, ParseCode, DispatchCode, CallbackCode, ReplyCode
      DEF Next
    <3> QED
      BY <2>1, <3>1
  <2> QED
    BY <1>2, <2>2, <2>3
<1>3. I => CodeSent
  BY DEF CodeInv
<1> QED
  BY <1>1, <1>2, <1>3, PTL DEF Spec

-----------------------------------------------------------------------------
(***************************************************************************)
(* Which URL a request is answered for.  From ParseURL to the lookup of a  *)
(* page the buffer holds the token this client sent; if no byte of it was  *)
(* received the buffer is stale, and what protects is that no byte of it   *)
(* is counted (_attoHTTPInitRun).                                          *)
(***************************************************************************)
BufferHolds ==
  IF asked = NoToken THEN urlLen = 0
  ELSE url = Stored(url, asked, cutShort) /\ urlLen = StoredLen(asked, cutShort)
AskedInv ==
  /\ pc = "url" => asked = NoToken /\ urlLen = 0
  /\ pc \in {"headers", "gate", "find"} => BufferHolds
  /\ CallbackWasAsked

(* Most steps leave alone what the invariant is about.                     *)
LEMMA KeepsAsked ==
  ASSUME AskedInv, UNCHANGED urlVars,
         \/ pc' \notin {"url", "headers", "gate", "find", "callback"}
         \/ pc \in {"headers", "gate", "find"} /\ pc' \in {"headers", "gate", "find"}
         \/ pc' = pc
  PROVE  AskedInv'
BY DEF AskedInv, urlVars, BufferHolds, CallbackWasAsked, AskedPath

LEMMA ParseAsked ==
  ASSUME TypeOK, AskedInv, Parse
  PROVE  AskedInv'
<1>1. ASSUME NEW m, Execute(m) PROVE AskedInv'
  BY <1>1 DEF Execute, InitRun, AskedInv, BufferHolds, CallbackWasAsked
<1>2. CASE ParseURLMissing
  <2>1. pc = "url" /\ pc' = "headers" /\ UNCHANGED urlVars
    BY <1>2 DEF ParseURLMissing
  <2>2. asked' = NoToken /\ urlLen' = 0
    BY <2>1 DEF AskedInv, urlVars
  <2> QED
    BY <2>1, <2>2 DEF AskedInv, BufferHolds, CallbackWasAsked
<1>3. ASSUME NEW tok \in Tokens, NEW eof \in BOOLEAN, ParseURL(tok, eof)
      PROVE  AskedInv'
  <2>1. /\ url' = Stored(url, tok, eof) /\ urlLen' = StoredLen(tok, eof)
        /\ asked' = tok /\ cutShort' = eof /\ pc' = "headers"
    BY <1>3, Zenon DEF ParseURL
  <2>2. tok # NoToken
    BY ConstantsAssumption, Zenon DEF NoToken
  <2>3. url' = Stored(url', asked', cutShort')
    BY <2>1, StoredAgain, Zenon
  <2>4. urlLen' = StoredLen(asked', cutShort')
    BY <2>1, Zenon
  <2> QED
    BY <2>1, <2>2, <2>3, <2>4, Zenon DEF AskedInv, BufferHolds, CallbackWasAsked
<1>4. CASE \/ \E t \in AppTypes : AcceptHeader(t)
           \/ \E t \in AppTypes : ContentTypeHeader(t)
           \/ \E v \in Verdicts : AuthorizationHeader(v)
           \/ HeadersDone
  <2>1. pc = "headers" /\ pc' \in {"headers", "gate"} /\ UNCHANGED urlVars
    BY <1>4 DEF AcceptHeader, ContentTypeHeader, AuthorizationHeader, HeadersDone
  <2> QED
    BY <2>1, KeepsAsked
<1> QED
  BY <1>1, <1>2, <1>3, <1>4 DEF Parse

LEMMA DispatchAsked ==
  ASSUME TypeOK, AskedInv, Dispatch
  PROVE  AskedInv'
<1>1. CASE Gate \/ FindPage \/ FindEvents \/ FindNothing
  <2>1. /\ pc \in {"gate", "find"} /\ pc' \in {"find", "reply"}
        /\ UNCHANGED urlVars
    BY <1>1 DEF Gate, FindPage, FindEvents, FindNothing
  <2> QED
    BY <2>1, KeepsAsked
<1>2. CASE FindAPICallback /\ pc' = "reply"
  BY <1>2 DEF AskedInv, CallbackWasAsked
<1>3. CASE FindAPICallback /\ pc' # "reply"
  <2>1. /\ pc = "find" /\ pc' = "callback" /\ asked' = asked
        /\ \E i \in Slashes(url, urlLen) : urlLen - i > 1
    BY <1>3, Zenon DEF FindAPICallback
  <2>2. PICK i \in Slashes(url, urlLen) : urlLen - i > 1
    BY <2>1
  <2>3. BufferHolds
    BY <2>1 DEF AskedInv
  <2>4. asked # NoToken
    <3>1. SUFFICES ASSUME urlLen = 0 PROVE FALSE
      BY <2>3, Zenon DEF BufferHolds
    <3>2. i \in UrlIndex /\ i < urlLen
      BY DEF Slashes
    <3> QED
      BY <3>1, <3>2, BufferSize DEF UrlIndex
  <2>5. asked \in Seq(Chars \cup {"?"})
    BY <2>4, ConstantsAssumption DEF TypeOK
  <2>6. DOMAIN url = UrlIndex /\ url[UrlBufferSize - 1] = NUL
    BY DEF TypeOK
  <2>7. /\ url = Stored(url, asked, cutShort)
        /\ urlLen = StoredLen(asked, cutShort)
    BY <2>3, <2>4, Zenon DEF BufferHolds
  <2>8. \E j \in DOMAIN AskedPath : AskedPath[j] = "/"
    <3>1. i \in Slashes(url, StoredLen(asked, cutShort)) /\ StoredLen(asked, cutShort) - i > 1
      BY <2>2, <2>7, Zenon
    <3> QED
      BY <2>5, <2>6, <2>7, <3>1, SlashWasSent, Zenon DEF AskedPath
  <2>9. CallbackWasAsked'
    BY <2>1, <2>8, Zenon DEF CallbackWasAsked, AskedPath
  <2> QED
    BY <2>1, <2>9 DEF AskedInv
<1> QED
  BY <1>1, <1>2, <1>3 DEF Dispatch

LEMMA NextAsked ==
  ASSUME TypeOK, AskedInv, [Next]_vars
  PROVE  AskedInv'
<1>1. CASE UNCHANGED vars
  BY <1>1, KeepsAsked DEF vars
<1>2. CASE Register
  <2>1. pc' = "idle"
    BY <1>2 DEF Register, AddPage, DefaultPage, ServerSetEventsURL, DefaultREST, HTTPInit
  <2> QED
    BY <2>1 DEF AskedInv, CallbackWasAsked
<1>3. CASE RunCallback
  <2>1. UNCHANGED urlVars /\ (pc' = pc \/ pc' = "reply")
    BY <1>3 DEF RunCallback, CallbackFirstLine, CallbackSendHeaders,
       CallbackRESTSendHeaders, CallbackWrite, CallbackStep, CallbackReturn
  <2> QED
    BY <2>1, KeepsAsked
<1>4. CASE Reply
  BY <1>4 DEF Reply, AskedInv, CallbackWasAsked
<1> QED
  BY <1>1, <1>2, <1>3, <1>4, ParseAsked, DispatchAsked DEF Next

(* For URL buffers of every size, a REST callback runs only for a request  *)
(* whose own URL has a "/" before its "?", although the buffer may hold    *)
(* slashes of earlier requests, and although a connection that ends inside *)
(* the URL counts one byte too many.                                       *)
THEOREM CallbackForOwnUrl == Spec => []CallbackWasAsked
<1> DEFINE I == TypeOK /\ AskedInv
<1>1. Init => I
  BY InitTyped DEF Init, AskedInv, CallbackWasAsked
<1>2. I /\ [Next]_vars => I'
  BY NextTyped, NextAsked
<1>3. I => CallbackWasAsked
  BY DEF AskedInv
<1> QED
  BY <1>1, <1>2, <1>3, PTL DEF Spec

-----------------------------------------------------------------------------
(***************************************************************************)
(* The registry.  attoHTTPAddPage takes the first empty slot and nothing   *)
(* ever empties one, so the used slots are a prefix of the table, in the   *)
(* order of registration.  A page registered without content is stored and *)
(* leaves its slot empty.                                                  *)
(***************************************************************************)
InOrder(table, log) ==
  /\ Len(log) <= PageBuffers
  /\ \A i \in Slots :
       IF i < Len(log) THEN table[i] = log[i + 1] /\ ~PageEmpty(table[i])
       ELSE PageEmpty(table[i])
RegInv == InOrder(pages, regLog)

LEMMA InitialRegistry == InOrder(InitialPages, InitialLog)
<1> DEFINE e == Entry(FaviconUrl, Favicon, IMAGE_PNG)
<1>1. PageBuffers \in Nat /\ PageBuffers >= 1
  BY ConstantsAssumption
<1>2. e.content # NULL /\ EmptyPage.content = NULL
  BY ConstantsAssumption DEF Entry, EmptyPage
<1>3. InitialLog = <<e>> /\ InitialPages = [i \in Slots |-> IF i = 0 THEN e ELSE EmptyPage]
  BY DEF InitialPages, InitialLog
<1> HIDE DEF e
<1>4. Len(InitialLog) = 1 /\ InitialLog[1] = e
  BY <1>3
<1>5. ASSUME NEW i \in Slots
      PROVE  IF i < 1 THEN InitialPages[i] = InitialLog[i + 1] /\ ~PageEmpty(InitialPages[i])
             ELSE PageEmpty(InitialPages[i])
  <2>1. CASE i = 0
    BY <1>2, <1>3, <1>4, <2>1 DEF PageEmpty
  <2>2. CASE i # 0
    <3>1. ~(i < 1)
      BY <2>2 DEF Slots
    <3>2. InitialPages[i] = EmptyPage
      BY <1>3, <2>2
    <3> QED
      BY <1>2, <3>1, <3>2 DEF PageEmpty
  <2> QED
    BY <2>1, <2>2
<1> QED
  BY <1>1, <1>4, <1>5 DEF InOrder

LEMMA FirstFreeIsNext ==
  ASSUME TypeOK, RegInv, FreeSlots # {}
  PROVE  FirstFree = Len(regLog) /\ Len(regLog) \in Slots
<1>1. PageBuffers \in Nat /\ Len(regLog) \in Nat
  BY ConstantsAssumption DEF TypeOK
<1>2. ASSUME NEW i \in Slots PROVE i \in FreeSlots <=> i >= Len(regLog)
  BY <1>1 DEF RegInv, InOrder, FreeSlots, Slots
<1>3. FreeSlots \subseteq Slots
  BY DEF FreeSlots
<1>4. Len(regLog) \in Slots /\ Len(regLog) \in FreeSlots
  <2>1. PICK i \in Slots : i >= Len(regLog)
    BY <1>2, <1>3
  <2>2. Len(regLog) \in Slots
    BY <1>1, <2>1 DEF Slots
  <2> QED
    BY <1>1, <1>2, <2>2
<1>5. \A j \in FreeSlots : Len(regLog) <= j
  BY <1>1, <1>2, <1>3 DEF Slots
<1>6. \E i \in FreeSlots : \A j \in FreeSlots : i <= j
  BY <1>4, <1>5
<1>7. FirstFree \in FreeSlots /\ \A j \in FreeSlots : FirstFree <= j
  BY <1>6, Zenon DEF FirstFree
<1>8. Len(regLog) <= FirstFree /\ FirstFree <= Len(regLog) /\ FirstFree \in Slots
  BY <1>3, <1>4, <1>5, <1>7
<1>9. \A n, k \in Int : n <= k /\ k <= n => k = n
  OBVIOUS
<1>10. Len(regLog) \in Int /\ FirstFree \in Int
  BY <1>1, <1>8 DEF Slots
<1> QED
  BY <1>4, <1>8, <1>9, <1>10, Zenon

LEMMA AddPageRegistry ==
  ASSUME TypeOK, RegInv, NEW u \in RegUrls, NEW c \in Contents \cup {NULL},
         NEW t \in AppTypes, AddPage(u, c, t)
  PROVE  RegInv'
<1> DEFINE e == Entry(u, c, t)
           n == Len(regLog)
<1>1. FirstFree = n /\ n \in Slots
  BY FirstFreeIsNext DEF AddPage
<1>2. /\ PageBuffers \in Nat /\ n \in Nat /\ n + 1 <= PageBuffers
      /\ regLog \in Seq(Page) /\ pages \in [Slots -> Page] /\ Slots \subseteq Int
  BY <1>1, ConstantsAssumption DEF TypeOK, Slots
<1>3. pages' = [pages EXCEPT ![n] = e]
  BY <1>1 DEF AddPage
<1>4. e.content = c
  BY DEF Entry
<1>5. regLog' = IF c = NULL THEN regLog ELSE Append(regLog, e)
  BY DEF AddPage
<1> HIDE DEF e
<1>6. pages'[n] = e /\ \A i \in Slots : i # n => pages'[i] = pages[i]
  BY <1>1, <1>2, <1>3
<1>7. \A i \in Slots :
        IF i < n THEN pages[i] = regLog[i + 1] /\ ~PageEmpty(pages[i])
        ELSE PageEmpty(pages[i])
  BY DEF RegInv, InOrder
<1>8. CASE c = NULL
  <2>1. regLog' = regLog
    BY <1>5, <1>8
  <2>2. ASSUME NEW i \in Slots
        PROVE  IF i < n THEN pages'[i] = regLog[i + 1] /\ ~PageEmpty(pages'[i])
               ELSE PageEmpty(pages'[i])
    <3>1. CASE i = n
      <4>1. ~(i < n)
        BY <1>2, <3>1
      <4>2. PageEmpty(pages'[i])
        BY <1>4, <1>6, <1>8, <3>1 DEF PageEmpty
      <4> QED
        BY <4>1, <4>2
    <3>2. CASE i # n
      BY <1>6, <1>7, <3>2
    <3> QED
      BY <3>1, <3>2
  <2> QED
    BY <2>1, <2>2 DEF RegInv, InOrder
<1>9. CASE c # NULL
  <2>1. /\ Len(regLog') = n + 1 /\ regLog'[n + 1] = e
        /\ \A i \in 1..n : regLog'[i] = regLog[i]
    BY <1>2, <1>5, <1>9
  <2> HIDE DEF n
  <2>2. ASSUME NEW i \in Slots
        PROVE  IF i < n + 1 THEN pages'[i] = regLog'[i + 1] /\ ~PageEmpty(pages'[i])
               ELSE PageEmpty(pages'[i])
    <3>1. CASE i = n
      <4>1. ~PageEmpty(pages'[i]) /\ pages'[i] = regLog'[i + 1]
        BY <1>4, <1>6, <1>9, <2>1, <3>1 DEF PageEmpty
      <4>2. i < n + 1
        BY <1>2, <3>1
      <4> QED
        BY <4>1, <4>2
    <3>2. CASE i < n
      <4>1. i \in Nat /\ i + 1 \in 1..n /\ i < n + 1
        BY <1>2, <3>2 DEF Slots
      <4>2. pages[i] = regLog[i + 1] /\ ~PageEmpty(pages[i])
        BY <1>7, <3>2
      <4>3. pages'[i] = pages[i]
        BY <1>2, <1>6, <3>2
      <4> QED
        BY <2>1, <4>1, <4>2, <4>3
    <3>3. CASE ~(i < n) /\ i # n
      <4>1. ~(i < n + 1)
        BY <1>2, <3>3
      <4>2. PageEmpty(pages[i]) /\ pages'[i] = pages[i]
        BY <1>6, <1>7, <3>3
      <4> QED
        BY <4>1, <4>2
    <3> QED
      BY <3>1, <3>2, <3>3
  <2> QED
    BY <1>2, <2>1, <2>2 DEF RegInv, InOrder
<1> QED
  BY <1>8, <1>9

LEMMA NextRegistry ==
  ASSUME TypeOK, RegInv, [Next]_vars
  PROVE  RegInv'
<1>1. ASSUME UNCHANGED <<pages, regLog>> PROVE RegInv'
  BY <1>1 DEF RegInv, InOrder
<1>2. CASE UNCHANGED vars
  BY <1>1, <1>2 DEF vars, regVars
<1>3. CASE Register
  <2>1. CASE HTTPInit
    BY <2>1, InitialRegistry DEF HTTPInit, RegInv
  <2>2. CASE \E u \in RegUrls, c \in Contents \cup {NULL}, t \in AppTypes : AddPage(u, c, t)
    BY <2>2, AddPageRegistry
  <2>3. CASE \/ \E u \in RegUrls, c \in Contents \cup {NULL}, t \in AppTypes :
                  DefaultPage(u, c, t)
             \/ \E u \in RegUrls : ServerSetEventsURL(u)
             \/ DefaultREST
    <3>1. UNCHANGED <<pages, regLog>>
      BY <2>3 DEF DefaultPage, ServerSetEventsURL, DefaultREST
    <3> QED
      BY <1>1, <3>1
  <2> QED
    BY <1>3, <2>1, <2>2, <2>3 DEF Register
<1>4. CASE Parse
  <2>1. UNCHANGED regVars
    BY <1>4 DEF Parse, Execute, ParseURLMissing, ParseURL, AcceptHeader,
       ContentTypeHeader, AuthorizationHeader, HeadersDone
  <2> QED
    BY <1>1, <2>1 DEF regVars
<1>5. CASE Dispatch \/ RunCallback \/ Reply
  <2>1. UNCHANGED regVars
    BY <1>5 DEF Dispatch, Gate, FindPage, FindEvents, FindNothing, FindAPICallback,
       RunCallback, CallbackFirstLine, CallbackSendHeaders, CallbackRESTSendHeaders,
       CallbackWrite, CallbackStep, CallbackReturn, Reply
  <2> QED
    BY <1>1, <2>1 DEF regVars
<1> QED
  BY <1>2, <1>3, <1>4, <1>5 DEF Next

-----------------------------------------------------------------------------
(***************************************************************************)
(* The page a GET is answered with.                                        *)
(***************************************************************************)
ServedLater == pc \notin {"idle", "reply"} => served = NULL
Whole == asked # NoToken /\ ~cutShort

(* What the comparisons of _attoHTTPFindPage see of a URL that arrived     *)
(* whole: the path the client sent, as far as it fits.                     *)
LEMMA WholePath ==
  ASSUME TypeOK, BufferHolds, Whole
  PROVE  /\ CString(url) = AskedPath
         /\ (CString(url) = <<"/">> /\ urlLen = 1)
              <=> (Cut(asked, UrlBufferSize - 1) = <<"/">>)
<1> DEFINE t == Cut(asked, UrlBufferSize - 1)
<1>1. asked \in Seq(Chars \cup {"?"})
  BY ConstantsAssumption DEF TypeOK, Whole
<1>2. /\ url = Stored(url, asked, cutShort) /\ urlLen = StoredLen(asked, cutShort)
      /\ ~cutShort
  BY Zenon DEF BufferHolds, Whole
<1>3. url \in [UrlIndex -> Chars \cup {NUL}] /\ url[UrlBufferSize - 1] = NUL
  BY DEF TypeOK
<1>4. NUL \notin Chars /\ "?" \notin Chars
  BY ConstantsAssumption
<1>5. CString(url) = PathOf(t)
  BY <1>1, <1>2, <1>3, <1>4, StoredPath
<1>6. t \in Seq(Chars \cup {"?"}) /\ Len(t) \in UrlIndex
  <2>1. UrlBufferSize - 1 \in Nat
    BY BufferSize
  <2>2. t \in Seq(Chars \cup {"?"})
    BY <1>1, <2>1, CutProperties
  <2>3. Len(t) \in 0..UrlBufferSize - 1
    BY <1>1, StoredLenInBuffer
  <2> QED
    BY <2>2, <2>3 DEF UrlIndex
<1>7. urlLen = Len(t)
  BY <1>2, <1>6, StoredEnd, Zenon
<1> HIDE DEF t
<1>8. (t = <<"/">>) <=> (PathOf(t) = <<"/">> /\ Len(t) = 1)
  BY <1>6, RootPath
<1> QED
  BY <1>5, <1>7, <1>8 DEF AskedPath, t

LEMMA DefaultExpected ==
  ASSUME TypeOK, BufferHolds, Whole
  PROVE  (IsDefaultPage \/ CheckPage(defaultPage))
           <=> (~PageEmpty(defaultPage) /\ IsDefaultAsked)
BY WholePath, Zenon DEF IsDefaultPage, CheckPage, IsDefaultAsked

(* The first slot that matches is the first registration that does.        *)
LEMMA FirstHit ==
  ASSUME TypeOK, RegInv, BufferHolds, Whole, Hits # {}
  PROVE  pages[CHOOSE i \in Hits : \A j \in Hits : i <= j]
           = regLog[CHOOSE i \in LogHits : \A j \in LogHits : i <= j]
<1> DEFINE n == Len(regLog)
           path == Cut(AskedPath, PageUrlSize)
<1>1. /\ PageBuffers \in Nat /\ n \in Nat /\ n <= PageBuffers
      /\ regLog \in Seq(Page)
  BY ConstantsAssumption DEF TypeOK, RegInv, InOrder
<1>2. CString(url) = AskedPath
  BY WholePath
<1>3. \A i \in Slots :
        IF i < n THEN pages[i] = regLog[i + 1] /\ ~PageEmpty(pages[i])
        ELSE PageEmpty(pages[i])
  BY DEF RegInv, InOrder
<1>4. DOMAIN regLog = 1..n
  BY <1>1, LenProperties
<1>5. Hits = {i \in Slots : ~PageEmpty(pages[i]) /\ path = pages[i].url}
  BY <1>2, Zenon DEF Hits, CheckPage
<1>6. LogHits = {i \in 1..n : regLog[i].url = path}
  BY <1>4, Zenon DEF LogHits
<1> HIDE DEF n, path
<1>7. \A i \in Hits : i \in Nat /\ i + 1 \in LogHits /\ pages[i] = regLog[i + 1]
  <2> TAKE i \in Hits
  <2>1. i \in Slots /\ i \in Nat
    BY <1>5 DEF Slots
  <2>2. i < n
    BY <1>3, <1>5, <2>1
  <2>3. i + 1 \in 1..n
    BY <1>1, <2>1, <2>2
  <2> QED
    BY <1>3, <1>5, <1>6, <2>1, <2>2, <2>3
<1>8. \A i \in LogHits : i \in Nat /\ i - 1 \in Hits
  <2> TAKE i \in LogHits
  <2>1. i \in 1..n /\ regLog[i].url = path
    BY <1>6
  <2>2. i \in Nat /\ i - 1 \in Slots /\ i - 1 < n /\ i - 1 + 1 = i
    BY <1>1, <2>1 DEF Slots
  <2>3. pages[i - 1] = regLog[i - 1 + 1] /\ ~PageEmpty(pages[i - 1])
    BY <1>3, <2>2
  <2>4. path = pages[i - 1].url
    BY <2>1, <2>2, <2>3
  <2> QED
    BY <1>5, <2>2, <2>3, <2>4
<1>9. PICK m \in Hits : \A j \in Hits : m <= j
  <2>1. Hits \subseteq Nat
    BY <1>7
  <2> QED
    BY <2>1, LeastNumber
<1> DEFINE h == CHOOSE i \in Hits : \A j \in Hits : i <= j
           g == CHOOSE i \in LogHits : \A j \in LogHits : i <= j
<1>10. h \in Hits /\ \A j \in Hits : h <= j
  BY <1>9, Zenon
<1>11. m + 1 \in LogHits /\ \A j \in LogHits : m + 1 <= j
  <2>1. m \in Nat /\ m + 1 \in LogHits
    BY <1>7, <1>9
  <2>2. ASSUME NEW j \in LogHits PROVE m + 1 <= j
    <3>1. j \in Nat /\ j - 1 \in Hits
      BY <1>8
    <3>2. m <= j - 1
      BY <1>9, <3>1
    <3> QED
      BY <2>1, <3>1, <3>2
  <2> QED
    BY <2>1, <2>2
<1>12. g \in LogHits /\ \A j \in LogHits : g <= j
  BY <1>11, Zenon
<1> HIDE DEF h, g
<1>13. h = m /\ g = m + 1
  <2>1. h \in Nat /\ m \in Nat /\ g \in Nat
    BY <1>7, <1>8, <1>9, <1>10, <1>12
  <2>2. h <= m /\ m <= h
    BY <1>9, <1>10
  <2>3. g <= m + 1 /\ m + 1 <= g
    BY <1>11, <1>12
  <2> QED
    BY <2>1, <2>2, <2>3
<1>14. pages[h] = regLog[g]
  BY <1>7, <1>9, <1>13
<1> QED
  BY <1>14 DEF h, g

LEMMA FoundIsExpected ==
  ASSUME TypeOK, RegInv, BufferHolds, Whole, PageFound
  PROVE  FoundPage = Expected
<1>1. CASE IsDefaultPage \/ CheckPage(defaultPage)
  BY <1>1, DefaultExpected, Zenon DEF FoundPage, Expected
<1>2. CASE ~(IsDefaultPage \/ CheckPage(defaultPage))
  <2>1. Hits # {}
    BY <1>2, Zenon DEF PageFound
  <2>2. /\ FoundPage = pages[CHOOSE i \in Hits : \A j \in Hits : i <= j]
        /\ Expected = regLog[CHOOSE i \in LogHits : \A j \in LogHits : i <= j]
    BY <1>2, DefaultExpected, Zenon DEF FoundPage, Expected
  <2> QED
    BY <2>1, <2>2, FirstHit
<1> QED
  BY <1>1, <1>2

LEMMA AppendedPart ==
  ASSUME NEW S, NEW s \in Seq(S), NEW e \in S
  PROVE  /\ Append(s, e) \in Seq(S) /\ Len(Append(s, e)) = Len(s) + 1
         /\ \A i \in 1..Len(s) : Append(s, e)[i] = s[i]
         /\ Append(s, e)[Len(s) + 1] = e
OBVIOUS

LEMMA AppendSecond ==
  ASSUME NEW S, NEW s \in Seq(S), NEW e \in S, Len(s) = 1
  PROVE  /\ Append(s, e) \in Seq(S) /\ Len(Append(s, e)) = 2
         /\ Append(s, e)[1] = s[1] /\ Append(s, e)[2] = e
<1> DEFINE p == Append(s, e)
<1>1. /\ p \in Seq(S) /\ Len(p) = Len(s) + 1
      /\ \A i \in 1..Len(s) : p[i] = s[i]
      /\ p[Len(s) + 1] = e
  BY AppendedPart, Zenon
<1> HIDE DEF p
<1>2. 1 \in 1..1 /\ 1 + 1 = 2
  OBVIOUS
<1>3. Len(p) = 2 /\ p[1] = s[1] /\ p[2] = e
  BY <1>1, <1>2
<1> QED
  BY <1>1, <1>3 DEF p

LEMMA AppendThird ==
  ASSUME NEW S, NEW s \in Seq(S), NEW e \in S, Len(s) = 2
  PROVE  /\ Append(s, e) \in Seq(S) /\ Len(Append(s, e)) = 3
         /\ Append(s, e)[1] = s[1] /\ Append(s, e)[2] = s[2] /\ Append(s, e)[3] = e
<1> DEFINE p == Append(s, e)
<1>1. /\ p \in Seq(S) /\ Len(p) = Len(s) + 1
      /\ \A i \in 1..Len(s) : p[i] = s[i]
      /\ p[Len(s) + 1] = e
  BY AppendedPart, Zenon
<1> HIDE DEF p
<1>2. 1 \in 1..2 /\ 2 \in 1..2 /\ 2 + 1 = 3
  OBVIOUS
<1>3. Len(p) = 3 /\ p[1] = s[1] /\ p[2] = s[2] /\ p[3] = e
  BY <1>1, <1>2
<1> QED
  BY <1>1, <1>3 DEF p

LEMMA AppendThree ==
  ASSUME NEW x, NEW y, NEW z
  PROVE  Append(Append(Append(<<>>, x), y), z) = <<x, y, z>>
<1> DEFINE S == {x, y, z}
           a == Append(<<>>, x)
           b == Append(a, y)
           c == Append(b, z)
           t == <<x, y, z>>
<1>1. t \in Seq(S) /\ Len(t) = 3 /\ t[1] = x /\ t[2] = y /\ t[3] = z
  OBVIOUS
<1>2. x \in S /\ y \in S /\ z \in S
  OBVIOUS
<1> HIDE DEF S, t
<1>3. a \in Seq(S) /\ Len(a) = 1 /\ a[1] = x
  BY <1>2
<1> HIDE DEF a
<1>4. b \in Seq(S) /\ Len(b) = 2 /\ b[1] = x /\ b[2] = y
  BY <1>2, <1>3, AppendSecond
<1> HIDE DEF b
<1>5. c \in Seq(S) /\ Len(c) = 3 /\ c[1] = x /\ c[2] = y /\ c[3] = z
  BY <1>2, <1>4, AppendThird
<1> HIDE DEF c
<1>6. \A i \in 1..3 : c[i] = t[i]
  BY <1>1, <1>5
<1>7. c = t
  BY <1>1, <1>5, <1>6, SeqEqual
<1> QED
  BY <1>7 DEF a, b, c, t

(* The reply of a page: the status line, one header block and the content. *)
LEMMA PageReply ==
  ASSUME NEW r \in Response, ~r.firstlineSent, ~r.headersSent, r.wire = <<>>,
         NEW t, NEW c
  PROVE  Write(SendHeaders([r EXCEPT !.returnCode = STATUS_OK], t), c).wire
           = <<StatusLine(STATUS_OK), Headers(t), Body(c)>>
<1> DEFINE r1 == [r EXCEPT !.returnCode = STATUS_OK]
           r2 == FirstLine(r1, r1.returnCode)
           r3 == HeaderBlock(r2, t)
<1>1. /\ r1 \in Response /\ ~r1.firstlineSent /\ ~r1.headersSent
      /\ r1.wire = <<>> /\ r1.returnCode = STATUS_OK
  BY DEF Response, STATUS_OK
<1> HIDE DEF r1
<1>2. r2 \in Response
  BY <1>1, FirstLineTyped DEF STATUS_OK
<1>3. r2.wire = Append(<<>>, StatusLine(STATUS_OK)) /\ ~r2.headersSent
  BY <1>1 DEF FirstLine, Response
<1> HIDE DEF r2
<1>4. r3.wire = Append(r2.wire, Headers(t)) /\ "wire" \in DOMAIN r3
  BY <1>2, <1>3 DEF HeaderBlock, Response
<1> HIDE DEF r3
<1>5. Write(r3, c).wire = Append(r3.wire, Body(c))
  BY <1>4 DEF Write
<1>6. Write(r3, c).wire = <<StatusLine(STATUS_OK), Headers(t), Body(c)>>
  BY <1>3, <1>4, <1>5, AppendThree, Zenon
<1> QED
  BY <1>6 DEF SendHeaders, r1, r2, r3

WinsInv == RegInv /\ ServedLater /\ FirstRegistrationWins

LEMMA SameExpected ==
  ASSUME UNCHANGED <<defaultPage, regLog, asked>>
  PROVE  Expected' = Expected
<1>1. AskedPath' = AskedPath
  BY DEF AskedPath
<1>2. IsDefaultAsked' <=> IsDefaultAsked
  BY <1>1 DEF IsDefaultAsked
<1>3. LogHits' = LogHits
  BY <1>1 DEF LogHits
<1> QED
  BY <1>2, <1>3 DEF Expected

LEMMA FindPageWins ==
  ASSUME TypeOK, WireInv, AskedInv, WinsInv, FindPage
  PROVE  ServedLater' /\ FirstRegistrationWins'
<1>1. /\ pc = "find" /\ pc' = "reply" /\ PageFound /\ method' = method
      /\ UNCHANGED <<defaultPage, regLog, asked, cutShort>>
  BY Zenon DEF FindPage, regVars, urlVars
<1>2. Expected' = Expected
  BY <1>1, SameExpected
<1>3. BufferHolds /\ resp.wire = <<>> /\ resp \in Response
  BY <1>1 DEF AskedInv, WireInv, Quiet, TypeOK
<1>4. ~resp.firstlineSent /\ ~resp.headersSent
  <2>1. Len(resp.wire) = 0
    BY <1>3
  <2> QED
    BY <2>1 DEF WireInv, Marked, HasPart
<1>5. CASE method # "GET"
  <2>1. served' = NULL
    BY <1>1, <1>5 DEF FindPage, WinsInv, ServedLater
  <2> QED
    BY <1>1, <2>1 DEF ServedLater, FirstRegistrationWins
<1>6. CASE method = "GET"
  <2>1. resp' = Write(SendHeaders([resp EXCEPT !.returnCode = STATUS_OK],
                                  FoundPage.type), FoundPage.content)
    BY <1>6, Zenon DEF FindPage
  <2>2. resp'.wire = <<StatusLine(STATUS_OK), Headers(FoundPage.type),
                       Body(FoundPage.content)>>
    BY <1>3, <1>4, <2>1, PageReply
  <2>3. Whole => FoundPage = Expected
    BY <1>1, <1>3, FoundIsExpected DEF WinsInv
  <2>4. FirstRegistrationWins'
    BY <1>1, <1>2, <1>6, <2>2, <2>3, Zenon DEF FirstRegistrationWins, Whole
  <2> QED
    BY <1>1, <2>4 DEF ServedLater
<1> QED
  BY <1>5, <1>6

LEMMA NextWins ==
  ASSUME TypeOK, WireInv, AskedInv, WinsInv, [Next]_vars
  PROVE  WinsInv'
<1>1. RegInv'
  BY NextRegistry DEF WinsInv
<1>2. ASSUME served' = NULL \/ pc' = "idle" PROVE ServedLater' /\ FirstRegistrationWins'
  BY <1>2 DEF ServedLater, FirstRegistrationWins
<1>3. ServedLater' /\ FirstRegistrationWins'
  <2>1. CASE UNCHANGED vars
    <3>1. /\ UNCHANGED <<pc, method, resp, served, asked, cutShort>>
          /\ Expected' = Expected
      BY <2>1, SameExpected DEF vars, regVars, urlVars
    <3> QED
      BY <3>1 DEF WinsInv, ServedLater, FirstRegistrationWins
  <2>2. CASE Register
    <3>1. pc' = "idle"
      BY <2>2 DEF Register, AddPage, DefaultPage, ServerSetEventsURL, DefaultREST, HTTPInit
    <3> QED
      BY <1>2, <3>1
  <2>3. CASE Parse
    <3>1. CASE \E m \in ClientMethods \cup {"other", "none"} : Execute(m)
      BY <1>2, <3>1 DEF Execute
    <3>2. CASE ~\E m \in ClientMethods \cup {"other", "none"} : Execute(m)
      <4>1. served' = served /\ pc \in {"url", "headers"}
        BY <2>3, <3>2 DEF Parse, ParseURLMissing, ParseURL, AcceptHeader,
           ContentTypeHeader, AuthorizationHeader, HeadersDone
      <4> QED
        BY <1>2, <4>1 DEF WinsInv, ServedLater
    <3> QED
      BY <3>1, <3>2
  <2>4. CASE Dispatch
    <3>1. CASE FindPage
      BY <3>1, FindPageWins
    <3>2. CASE ~FindPage
      <4>1. served' = served /\ pc \in {"gate", "find"}
        BY <2>4, <3>2 DEF Dispatch, Gate, FindEvents, FindNothing, FindAPICallback
      <4> QED
        BY <1>2, <4>1 DEF WinsInv, ServedLater
    <3> QED
      BY <3>1, <3>2
  <2>5. CASE RunCallback
    <3>1. served' = served /\ pc = "callback"
      BY <2>5 DEF RunCallback, CallbackFirstLine, CallbackSendHeaders,
         CallbackRESTSendHeaders, CallbackWrite, CallbackStep, CallbackReturn
    <3> QED
      BY <1>2, <3>1 DEF WinsInv, ServedLater
  <2>6. CASE Reply
    BY <1>2, <2>6 DEF Reply
  <2> QED
    BY <2>1, <2>2, <2>3, <2>4, <2>5, <2>6 DEF Next
<1> QED
  BY <1>1, <1>3 DEF WinsInv

(* For every registry and every size of the buffers: a page is sent only   *)
(* on GET, and a URL that arrived whole is answered with 200, one header   *)
(* block and the content of the default page, if the URL is its, or of the *)
(* first page ever registered for that URL.                                *)
THEOREM FirstPageIsServed == Spec => []FirstRegistrationWins
<1> DEFINE I == TypeOK /\ WireInv /\ AskedInv /\ WinsInv
<1>1. ASSUME Init PROVE I
  <2>1. resp = NoReply /\ pc = "idle"
    BY <1>1 DEF Init
  <2>2. WireInv
    <3>1. NoReply.wire = <<>> /\ ~NoReply.firstlineSent /\ ~NoReply.headersSent
      BY DEF NoReply
    <3>2. Sent(NoReply)
      BY <3>1, InitialTyped, NothingSent
    <3> QED
      BY <2>1, <3>2, Zenon DEF WireInv, Quiet, Sent
  <2>3. RegInv
    BY <1>1, InitialRegistry DEF Init, RegInv
  <2> QED
    BY <1>1, <2>1, <2>2, <2>3, InitTyped
    DEF AskedInv, CallbackWasAsked, WinsInv, ServedLater, FirstRegistrationWins
<1>2. I /\ [Next]_vars => I'
  BY NextTyped, StepsOfTheReply, NextAsked, NextWins
<1>3. I => FirstRegistrationWins
  BY DEF WinsInv
<1> QED
  BY <1>1, <1>2, <1>3, PTL DEF Spec
=============================================================================
