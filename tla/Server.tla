------------------------------- MODULE Server -------------------------------
(***************************************************************************)
(* The request lifecycle of attoHTTP (attohttp.c): the registry of pages,  *)
(* the server-sent-events URL and the REST callback that the application   *)
(* fills, attoHTTPExecute as a sequence of steps, and everything it writes *)
(* to the client.  The bytes of a request are abstracted to the tokens the *)
(* parser recognises; module RequestParser is about the bytes.             *)
(*                                                                         *)
(* All of attoHTTP's state is global, so the URL buffer of one request is  *)
(* still there when the next one starts.                                   *)
(***************************************************************************)
EXTENDS UrlBuffer

CONSTANTS
  Chars,          \* the bytes of a URL other than NUL, "?" and blanks
  RegUrls,        \* URLs the application registers, sequences of Chars
  Tokens,         \* URL tokens clients send, sequences of Chars and "?"
  FaviconUrl,     \* "/favicon.ico"
  Favicon,        \* the content registered for it
  Contents,       \* contents the application registers
  NULL,           \* the NULL pointer
  AuthErrorMsg,   \* ATTOHTTP_AUTH_ERROR_MSG
  AppData,        \* whatever a REST callback prints
  AppTypes,       \* MIME types used by pages, callbacks and clients
  AppCodes,       \* codes a REST callback sends or returns
  ClientMethods,  \* the supported methods clients use
  Callback,       \* the application's REST callback
  AuthBuild,      \* ATTOHTTP_BASIC_AUTH or ATTOHTTP_DIGEST_AUTH is defined
  PageBuffers,    \* ATTOHTTP_PAGE_BUFFERS
  PageUrlSize,    \* ATTOHTTP_PAGE_URL_SIZE
  MaxWire         \* bound on the parts a callback puts on the wire

MimeTypes == 0..7
APPLICATION_JSON == 0
TEXT_HTML == 1
IMAGE_PNG == 6
TEXT_EVENTSTREAM == 7
Challenge == 8   \* stands for the WWW-Authenticate block of a 401 reply

(***************************************************************************)
(* returncode_t.  FirstLine knows the codes of KnownCodes; every other     *)
(* value is sent as 500.                                                   *)
(***************************************************************************)
STATUS_SERVERSENTEVENTS == 1
STATUS_OK == 200
STATUS_UNAUTHORIZED == 401
STATUS_NOT_FOUND == 404
STATUS_INTERNAL_ERROR == 500
STATUS_UNSUPPORTED == 501
STATUS_RUNKNOWN == 510
KnownCodes == {200, 202, 400, 401, 404, 501}
UINT16_MAX == 65535

Methods == {"GET", "POST", "PUT", "DELETE", "PATCH"}
METHOD_NOTSUPPORTED == "NOTSUPPORTED"

(* What an Authorization header turns out to be: credentials the wrapper   *)
(* accepts, credentials it rejects, or an unknown scheme.                  *)
Verdicts == {"good", "bad", "scheme"}

ASSUME ConstantsAssumption ==
  /\ PageBuffers \in Nat \ {0}
  /\ PageUrlSize \in Nat \ {0}
  /\ MaxWire \in Nat
  /\ AuthBuild \in BOOLEAN
  /\ NUL \notin Chars /\ "?" \notin Chars
  /\ RegUrls \subseteq Seq(Chars)
  /\ Tokens \subseteq Seq(Chars \cup {"?"}) \ {<<>>}
  /\ FaviconUrl \in Seq(Chars)
  /\ NULL \notin Contents \cup {Favicon} /\ NULL # Callback
  /\ ClientMethods \subseteq Methods
  /\ AppTypes \subseteq 0..6
  /\ AppCodes \subseteq 0..UINT16_MAX

VARIABLES
  pages,         \* _attoHTTPPages
  defaultPage,   \* _attoHTTPDefaultPage
  sseUrl,        \* _attoHTTPServerSentEventsPage, <<>> when unset
  callback,      \* _attoHTTPDefaultCallback
  pc,            \* where attoHTTPExecute stands
  method,        \* _attoHTTPMethod
  url,           \* _attoHTTP_url, never cleared between requests
  urlLen,        \* _attoHTTP_url_len
  authenticated, \* _attoHTTPAuthenticated
  accept,        \* _attoHTTP_accept, as the set of its bits
  contenttype,   \* _attoHTTP_contenttype
  resp,          \* the reply being written, see Response
  result         \* what the last attoHTTPExecute returned

(***************************************************************************)
(* History variables, read by no action.                                   *)
(***************************************************************************)
VARIABLES
  regLog,        \* the pages attoHTTPAddPage accepted, in order
  asked,         \* the URL token this client sent, NoToken before it is read
  cutShort,      \* the connection ended inside that token
  authSeen,      \* verdicts on this request's Authorization headers
  served,        \* the page FindPage sent, NULL if none
  spoke          \* a REST callback printed the status line itself

regVars == <<pages, defaultPage, sseUrl, callback, regLog>>
urlVars == <<url, urlLen, asked, cutShort>>
hdrVars == <<authenticated, accept, contenttype, authSeen>>
vars == <<regVars, pc, method, urlVars, hdrVars, resp, result, served, spoke>>

-----------------------------------------------------------------------------
(***************************************************************************)
(* The registry                                                            *)
(***************************************************************************)
Page == [url : Seq(Chars), content : Contents \cup {Favicon, NULL},
         type : MimeTypes]
EmptyPage == [url |-> <<>>, content |-> NULL, type |-> TEXT_HTML]
PageEmpty(page) == page.content = NULL
Slots == 0..PageBuffers - 1
FreeSlots == {i \in Slots : PageEmpty(pages[i])}
Entry(u, c, t) == [url |-> Cut(u, PageUrlSize), content |-> c, type |-> t]

\* The slot the loop of attoHTTPAddPage stops at.
LastFree == CHOOSE i \in FreeSlots : \A j \in FreeSlots : i >= j
FirstFree == CHOOSE i \in FreeSlots : \A j \in FreeSlots : i <= j

\* attoHTTPAddPage: the first empty slot takes the page; a NULL content is
\* stored too, and leaves the slot empty.  A full table changes nothing.
AddPage(u, c, t) ==
  /\ pc = "idle"
  /\ FreeSlots # {}
  /\ pages' = [pages EXCEPT ![FirstFree] = Entry(u, c, t)]
  /\ regLog' = IF c = NULL THEN regLog ELSE Append(regLog, Entry(u, c, t))
  /\ UNCHANGED <<defaultPage, sseUrl, callback, pc, method, urlVars, hdrVars,
                 resp, result, served, spoke>>

\* attoHTTPDefaultPage: only the first one sticks.
DefaultPage(u, c, t) ==
  /\ pc = "idle"
  /\ PageEmpty(defaultPage)
  /\ defaultPage' = Entry(u, c, t)
  /\ UNCHANGED <<pages, sseUrl, callback, regLog, pc, method, urlVars, hdrVars,
                 resp, result, served, spoke>>

\* attoHTTPServerSetEventsURL: only the first non-empty URL sticks.
ServerSetEventsURL(u) ==
  /\ pc = "idle"
  /\ sseUrl = <<>>
  /\ sseUrl' = Cut(u, PageUrlSize)
  /\ UNCHANGED <<pages, defaultPage, callback, regLog, pc, method, urlVars,
                 hdrVars, resp, result, served, spoke>>

\* attoHTTPDefaultREST: only the first callback sticks.
DefaultREST ==
  /\ pc = "idle"
  /\ callback = NULL
  /\ callback' = Callback
  /\ UNCHANGED <<pages, defaultPage, sseUrl, regLog, pc, method, urlVars,
                 hdrVars, resp, result, served, spoke>>

-----------------------------------------------------------------------------
(***************************************************************************)
(* The reply: the two flags and the code attohttp.c keeps about it, and    *)
(* the parts already on the wire.  The output functions map a reply to the *)
(* reply after the call, so that a handler composes the calls it makes.    *)
(***************************************************************************)
Part == [part : {"status"}, val : Nat]
        \cup [part : {"headers"}, val : 0..8]
        \cup [part : {"body"},
              val : Contents \cup {Favicon, AuthErrorMsg, AppData}]
Response == [firstlineSent : BOOLEAN, headersSent : BOOLEAN,
             returnCode : Nat, wire : Seq(Part)]
NoReply == [firstlineSent |-> FALSE, headersSent |-> FALSE,
            returnCode |-> STATUS_RUNKNOWN, wire |-> <<>>]

\* The parts of a reply.  A code FirstLine does not know is sent as 500.
Known(code) == IF code \in KnownCodes THEN code ELSE STATUS_INTERNAL_ERROR
StatusLine(code) == [part |-> "status", val |-> Known(code)]
Headers(t) == [part |-> "headers", val |-> t]
Body(c) == [part |-> "body", val |-> c]

\* attoHTTPFirstLine
FirstLineKeepsCode(r, code) ==
  IF r.firstlineSent THEN r
  ELSE [r EXCEPT !.firstlineSent = TRUE,
                 !.wire = Append(@, StatusLine(code))]
FirstLine(r, code) ==
  IF r.firstlineSent THEN r
  ELSE [r EXCEPT !.firstlineSent = TRUE,
                 !.returnCode = IF code \in KnownCodes THEN @
                                ELSE STATUS_INTERNAL_ERROR,
                 !.wire = Append(@, StatusLine(code))]

\* attoHTTPwrite, attoHTTPprint, attoHTTPprintf
Write(r, c) == [r EXCEPT !.wire = Append(@, Body(c))]

\* The header block, unless one has been sent.
HeaderBlockAgain(r, t) ==
  [r EXCEPT !.headersSent = TRUE,
            !.wire = Append(@, Headers(t))]
HeaderBlock(r, t) ==
  IF r.headersSent THEN r
  ELSE [r EXCEPT !.headersSent = TRUE,
                 !.wire = Append(@, Headers(t))]

\* attoHTTPSendHeaders: the status line is the current return code.
SendHeaders(r, t) == HeaderBlock(FirstLine(r, r.returnCode), t)

\* attoHTTPRESTSendHeaders
RESTSendHeaders(r, code, t) == HeaderBlock(FirstLine(r, code), t)

\* attoHTTPSendServerSentEventHeaders: the block is sent without a check.
SendServerSentEventHeaders(r) ==
  [FirstLine(r, STATUS_OK) EXCEPT
     !.headersSent = TRUE,
     !.returnCode = STATUS_SERVERSENTEVENTS,
     !.wire = Append(@, Headers(TEXT_EVENTSTREAM))]

\* _attoHTTPSendAuthMessage
SendAuthMessage(r) ==
  LET r1 == FirstLine(r, STATUS_UNAUTHORIZED)
  IN IF r1.headersSent THEN r1
     ELSE Write(HeaderBlock(r1, Challenge), AuthErrorMsg)

-----------------------------------------------------------------------------
(***************************************************************************)
(* attoHTTPExecute                                                         *)
(***************************************************************************)
NoToken == <<>>

\* _attoHTTPInitRun: the URL buffer is not among what it resets.
InitRunKeepsUrlLen ==
  /\ authenticated' = ~AuthBuild
  /\ accept' = {0}
  /\ contenttype' = TEXT_HTML
  /\ UNCHANGED <<url, urlLen>>
InitRun ==
  /\ authenticated' = ~AuthBuild
  /\ urlLen' = 0
  /\ accept' = {0}     \* TEXT_HTML is 1, the mask of bit 0
  /\ contenttype' = TEXT_HTML
  /\ UNCHANGED url

\* Execute up to and including _attoHTTPParseMethod.  m is a supported method,
\* "other" for any other token, or "none" when nothing could be read.
Execute(m) ==
  /\ pc = "idle"
  /\ InitRun
  /\ method' = IF m \in Methods THEN m ELSE METHOD_NOTSUPPORTED
  /\ resp' = [NoReply EXCEPT
                !.returnCode = CASE m = "other" -> STATUS_UNSUPPORTED
                                 [] m = "none" -> STATUS_INTERNAL_ERROR
                                 [] OTHER -> @]
  /\ pc' = IF m \in Methods THEN "url" ELSE "gate"
  /\ asked' = NoToken /\ cutShort' = FALSE
  /\ authSeen' = {}
  /\ served' = NULL /\ spoke' = FALSE
  /\ result' = 0
  /\ UNCHANGED regVars

\* _attoHTTPParseURL when no byte follows the method: the buffer keeps what
\* the previous request left in it.  _attoHTTPParseVersion is called anyway.
ParseURLMissing ==
  /\ pc = "url"
  /\ pc' = "headers"
  /\ UNCHANGED <<regVars, method, urlVars, hdrVars, resp, result, served, spoke>>

\* _attoHTTPParseURL and _attoHTTPParseVersion
ParseURL(tok, eof) ==
  /\ pc = "url"
  /\ url' = Stored(url, tok, eof)
  /\ urlLen' = StoredLen(tok, eof)
  /\ asked' = tok /\ cutShort' = eof
  /\ pc' = "headers"
  /\ UNCHANGED <<regVars, method, hdrVars, resp, result, served, spoke>>

\* The iterations of _attoHTTPParseHeaders that change anything.
AcceptHeader(t) ==
  /\ pc = "headers"
  /\ accept' = {t}     \* 1 << t
  /\ UNCHANGED <<regVars, pc, method, urlVars, authenticated, contenttype,
                 authSeen, resp, result, served, spoke>>

ContentTypeHeader(t) ==
  /\ pc = "headers"
  /\ contenttype' = t
  /\ UNCHANGED <<regVars, pc, method, urlVars, authenticated, accept, authSeen,
                 resp, result, served, spoke>>

\* The return code after an Authorization header, with _attoHTTPCheckAuth.
BadHealed(code, v) ==
  IF v = "scheme" THEN STATUS_UNAUTHORIZED ELSE code
CodeAfterAuth(code, v) ==
  CASE v = "good" -> code
    [] v = "bad" -> IF code = STATUS_RUNKNOWN THEN STATUS_UNAUTHORIZED ELSE code
    [] v = "scheme" -> STATUS_UNAUTHORIZED

AuthorizationHeader(v) ==
  /\ pc = "headers"
  /\ AuthBuild
  /\ authenticated' = IF v = "scheme" THEN authenticated ELSE v = "good"
  /\ resp' = [resp EXCEPT !.returnCode = CodeAfterAuth(@, v)]
  /\ authSeen' = authSeen \cup {v}
  /\ UNCHANGED <<regVars, pc, method, urlVars, accept, contenttype,
                 result, served, spoke>>

\* A blank line, or the end of the stream.
HeadersDone ==
  /\ pc = "headers"
  /\ pc' = "gate"
  /\ UNCHANGED <<regVars, method, urlVars, hdrVars, resp, result, served, spoke>>

\* Execute between the headers and FindPage.
Gate ==
  /\ pc = "gate"
  /\ LET code == IF ~authenticated THEN STATUS_UNAUTHORIZED ELSE resp.returnCode
         go == code = STATUS_RUNKNOWN
     IN /\ resp' = [resp EXCEPT !.returnCode = IF go THEN STATUS_NOT_FOUND ELSE code]
        /\ pc' = IF go THEN "find" ELSE "reply"
  /\ UNCHANGED <<regVars, method, urlVars, hdrVars, result, served, spoke>>

\* The macro _attoHTTPCheckPage: strncmp over the size of page.url.
CheckPage(page) ==
  ~PageEmpty(page) /\ Cut(CString(url), PageUrlSize) = page.url

\* The macro _attoHTTPDefaultPage()
IsDefaultPage ==
  ~PageEmpty(defaultPage) /\ CString(url) = <<"/">> /\ urlLen = 1

Hits == {i \in Slots : CheckPage(pages[i])}
PageFound == IsDefaultPage \/ CheckPage(defaultPage) \/ Hits # {}
FoundPage ==
  IF IsDefaultPage \/ CheckPage(defaultPage) THEN defaultPage
  ELSE pages[CHOOSE i \in Hits : \A j \in Hits : i <= j]

\* _attoHTTPFindPage when a page matches
FindPage ==
  /\ pc = "find"
  /\ PageFound
  /\ pc' = "reply"
  /\ IF method = "GET"
     THEN /\ contenttype' = FoundPage.type
          /\ resp' = Write(SendHeaders([resp EXCEPT !.returnCode = STATUS_OK],
                                       FoundPage.type), FoundPage.content)
          /\ served' = FoundPage.content
     ELSE /\ resp' = [resp EXCEPT !.returnCode = STATUS_UNSUPPORTED]
          /\ UNCHANGED <<contenttype, served>>
  /\ UNCHANGED <<regVars, method, urlVars, authenticated, accept, authSeen,
                 result, spoke>>

\* The macro _attoHTTPServerSentEvents().  A registered URL that fills its
\* buffer is not terminated, and what the comparison reads behind it is
\* undefined: either answer.
ServerSentEvents ==
  IF sseUrl = <<>> THEN {FALSE}
  ELSE IF Len(sseUrl) < PageUrlSize THEN {CString(url) = sseUrl}
  ELSE IF Cut(CString(url), PageUrlSize) = sseUrl THEN BOOLEAN ELSE {FALSE}

\* _attoHTTPFindPage when the URL is the one for events
FindEvents ==
  /\ pc = "find"
  /\ ~PageFound
  /\ TRUE \in ServerSentEvents
  /\ resp' = SendServerSentEventHeaders(resp)
  /\ pc' = "reply"
  /\ UNCHANGED <<regVars, method, urlVars, hdrVars, result, served, spoke>>

\* Neither a page, nor events, nor a callback: the 404 of Gate stands.
FindNothing ==
  /\ pc = "find"
  /\ ~PageFound
  /\ FALSE \in ServerSentEvents
  /\ callback = NULL
  /\ pc' = "reply"
  /\ UNCHANGED <<regVars, method, urlVars, hdrVars, resp, result, served, spoke>>

\* _attoHTTPFindAPICallback up to the call: every "/" of the URL becomes NUL;
\* with no level after a "/" the callback is not called.
FindAPICallback ==
  /\ pc = "find"
  /\ ~PageFound
  /\ FALSE \in ServerSentEvents
  /\ callback # NULL
  /\ url' = Split(url, urlLen)
  /\ IF \E i \in Slashes(url, urlLen) : urlLen - i > 1
     THEN pc' = "callback" /\ UNCHANGED resp
     ELSE /\ pc' = "reply"
          /\ resp' = [resp EXCEPT !.returnCode = STATUS_INTERNAL_ERROR]
  /\ UNCHANGED <<regVars, method, urlLen, asked, cutShort, hdrVars, result,
                 served, spoke>>

(***************************************************************************)
(* What a REST callback may call while it runs.                            *)
(***************************************************************************)
CallbackStep(r) ==
  /\ pc = "callback"
  /\ Len(resp.wire) < MaxWire
  /\ resp' = r
  /\ spoke' = r.firstlineSent
  /\ UNCHANGED <<regVars, pc, method, urlVars, hdrVars, result, served>>

CallbackFirstLine(code) == CallbackStep(FirstLine(resp, code))
CallbackSendHeaders == CallbackStep(SendHeaders(resp, contenttype))
CallbackRESTSendHeaders(code, t) == CallbackStep(RESTSendHeaders(resp, code, t))
CallbackWrite == CallbackStep(Write(resp, AppData))

\* The callback returns; Execute turns STATUS_RUNKNOWN into STATUS_OK.
CallbackReturn(code) ==
  /\ pc = "callback"
  /\ resp' = [resp EXCEPT !.returnCode =
                IF code = STATUS_RUNKNOWN THEN STATUS_OK ELSE code]
  /\ pc' = "reply"
  /\ UNCHANGED <<regVars, method, urlVars, hdrVars, result, served, spoke>>

\* The last part of Execute.
Reply ==
  /\ pc = "reply"
  /\ resp' =
       IF resp.returnCode = STATUS_UNAUTHORIZED THEN SendAuthMessage(resp)
       ELSE IF resp.returnCode = STATUS_SERVERSENTEVENTS
            THEN FirstLine(resp, STATUS_OK)
       ELSE FirstLine(resp, resp.returnCode)
  /\ result' = resp'.returnCode
  /\ pc' = "idle"
  /\ UNCHANGED <<regVars, method, urlVars, hdrVars, served, spoke>>

-----------------------------------------------------------------------------
\* The table attoHTTPInit leaves: the icon takes the first slot.
InitialPages ==
  [i \in Slots |-> IF i = 0 THEN Entry(FaviconUrl, Favicon, IMAGE_PNG)
                   ELSE EmptyPage]
InitialLog == <<Entry(FaviconUrl, Favicon, IMAGE_PNG)>>

\* attoHTTPInit, called again between two requests
HTTPInit ==
  /\ pc = "idle"
  /\ InitRun
  /\ method' = METHOD_NOTSUPPORTED
  /\ pages' = InitialPages /\ regLog' = InitialLog
  /\ defaultPage' = EmptyPage /\ sseUrl' = <<>> /\ callback' = NULL
  /\ resp' = NoReply
  /\ asked' = NoToken /\ cutShort' = FALSE
  /\ authSeen' = {}
  /\ result' = 0 /\ served' = NULL /\ spoke' = FALSE
  /\ UNCHANGED pc

\* The state after the first attoHTTPInit; the URL buffer is a zeroed global.
Init ==
  /\ pages = InitialPages
  /\ regLog = InitialLog
  /\ defaultPage = EmptyPage
  /\ sseUrl = <<>>
  /\ callback = NULL
  /\ pc = "idle"
  /\ method = METHOD_NOTSUPPORTED
  /\ url = [i \in UrlIndex |-> NUL]
  /\ urlLen = 0
  /\ asked = NoToken /\ cutShort = FALSE
  /\ authenticated = ~AuthBuild
  /\ accept = {0} /\ contenttype = TEXT_HTML
  /\ authSeen = {}
  /\ resp = NoReply
  /\ result = 0 /\ served = NULL /\ spoke = FALSE

Register ==
  \/ \E u \in RegUrls, c \in Contents \cup {NULL}, t \in AppTypes :
       AddPage(u, c, t)
  \/ \E u \in RegUrls, c \in Contents \cup {NULL}, t \in AppTypes :
       DefaultPage(u, c, t)
  \/ \E u \in RegUrls : ServerSetEventsURL(u)
  \/ DefaultREST
  \/ HTTPInit

Parse ==
  \/ \E m \in ClientMethods \cup {"other", "none"} : Execute(m)
  \/ ParseURLMissing
  \/ \E tok \in Tokens, eof \in BOOLEAN : ParseURL(tok, eof)
  \/ \E t \in AppTypes : AcceptHeader(t)
  \/ \E t \in AppTypes : ContentTypeHeader(t)
  \/ \E v \in Verdicts : AuthorizationHeader(v)
  \/ HeadersDone

Dispatch ==
  \/ Gate
  \/ FindPage
  \/ FindEvents
  \/ FindNothing
  \/ FindAPICallback

RunCallback ==
  \/ \E c \in AppCodes : CallbackFirstLine(c)
  \/ CallbackSendHeaders
  \/ \E c \in AppCodes, t \in AppTypes : CallbackRESTSendHeaders(c, t)
  \/ CallbackWrite
  \/ \E c \in AppCodes : CallbackReturn(c)

Next == Register \/ Parse \/ Dispatch \/ RunCallback \/ Reply

Spec == Init /\ [][Next]_vars

-----------------------------------------------------------------------------
(* Type correctness of the globals and of the history variables.           *)
TypeOK ==
  /\ pages \in [Slots -> Page]
  /\ defaultPage \in Page
  /\ sseUrl \in Seq(Chars)
  /\ callback \in {NULL, Callback}
  /\ regLog \in Seq(Page)
  /\ pc \in {"idle", "url", "headers", "gate", "find", "callback", "reply"}
  /\ method \in Methods \cup {METHOD_NOTSUPPORTED}
  /\ url \in [UrlIndex -> Chars \cup {NUL}]
  /\ url[UrlBufferSize - 1] = NUL
  /\ urlLen \in UrlIndex
  /\ asked \in Tokens \cup {NoToken}
  /\ cutShort \in BOOLEAN
  /\ authenticated \in BOOLEAN
  /\ accept \in SUBSET (0..15)
  /\ contenttype \in MimeTypes
  /\ authSeen \in SUBSET Verdicts
  /\ resp \in Response
  /\ result \in Nat
  /\ served \in Contents \cup {Favicon, NULL}
  /\ spoke \in BOOLEAN

(* A build with authentication serves a page, an event stream or a callback *)
(* only to a request all of whose Authorization headers, and at least one,  *)
(* were accepted.  A later good header does not heal an earlier bad one     *)
(* (_attoHTTPCheckAuth), and nothing is inherited from the last request     *)
(* (_attoHTTPInitRun).                                                      *)
AuthBeforeService ==
  (AuthBuild /\ (pc \in {"find", "callback"} \/ served # NULL
                 \/ resp.returnCode = STATUS_SERVERSENTEVENTS))
    => authSeen = {"good"}

(* What attoHTTPExecute returns is what the status line said, when the     *)
(* status line was not printed by the callback; an event stream returns    *)
(* STATUS_SERVERSENTEVENTS and sends 200.                                  *)
CodeSent ==
  (result # 0 /\ ~spoke) =>
    \E i \in DOMAIN resp.wire :
      resp.wire[i] = [part |-> "status",
                      val |-> IF result = STATUS_SERVERSENTEVENTS
                              THEN STATUS_OK ELSE result]

(* The page the request's URL should be answered with, from the history of *)
(* registrations: the default page, else the first page registered under a *)
(* URL that agrees with the request's on PageUrlSize bytes.                *)
AskedPath == PathOf(Cut(asked, UrlBufferSize - 1))
IsDefaultAsked ==
  \/ Cut(asked, UrlBufferSize - 1) = <<"/">>
  \/ Cut(AskedPath, PageUrlSize) = defaultPage.url
LogHits == {i \in DOMAIN regLog : regLog[i].url = Cut(AskedPath, PageUrlSize)}
Expected ==
  IF ~PageEmpty(defaultPage) /\ IsDefaultAsked THEN defaultPage
  ELSE regLog[CHOOSE i \in LogHits : \A j \in LogHits : i <= j]

(* A page is sent only on GET, and when the client's URL arrived whole the *)
(* reply is 200, the headers and the content of the default page or of the *)
(* first page ever registered for that URL, and nothing else.              *)
FirstRegistrationWins ==
  (served # NULL /\ pc = "reply" /\ asked # NoToken /\ ~cutShort) =>
    /\ method = "GET"
    /\ resp.wire = << StatusLine(STATUS_OK), Headers(Expected.type),
                      Body(Expected.content) >>

(* A REST callback only runs for a URL with a "/" that this very client    *)
(* sent: bytes left in the buffer by an earlier request never reach it.    *)
CallbackWasAsked ==
  pc = "callback" => \E i \in DOMAIN AskedPath : AskedPath[i] = "/"

(* The replies on the wire follow the one-reply protocol of ReplyProtocol. *)
Protocol == INSTANCE ReplyProtocol
              WITH open <- pc # "idle",
                   reply <- [i \in DOMAIN resp.wire |-> resp.wire[i].part]
OneReply == Protocol!Spec

=============================================================================
