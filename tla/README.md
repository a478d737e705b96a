# A TLA+ model of attoHTTP

attoHTTP is a web server for very small machines: one C file
(`src/attohttp.c`), a header with the sizes of its buffers, and one wrapper per
platform that supplies two functions, `attoHTTPGetByte` and `attoHTTPSetByte`.
All of its state is global, it serves one connection at a time, and it never
allocates.  What is hard about it is therefore not concurrency but *state that
outlives the thing it belongs to*: a byte pushed back after a read that failed,
the URL of the last request in a buffer nobody clears, a return code that is a
decision, an error and a default at the same time.

## 1. Inventory

| Component | State | Operations | What makes it correct |
|---|---|---|---|
| Request lifecycle | `_attoHTTPMethod`, `_attoHTTP_url`, `_attoHTTP_url_len`, `_attoHTTPAuthenticated`, `_attoHTTP_returnCode`, `_attoHTTP_accept`, `_attoHTTP_contenttype` | `attoHTTPExecute` and the static functions it calls | nothing is served without authentication; the page served is the one asked for; nothing is inherited from the last request |
| Registry | `_attoHTTPPages`, `_attoHTTPDefaultPage`, `_attoHTTPServerSentEventsPage`, `_attoHTTPDefaultCallback` | `attoHTTPInit`, `attoHTTPAddPage`, `attoHTTPDefaultPage`, `attoHTTPServerSetEventsURL`, `attoHTTPDefaultREST` | the first registration wins, full tables and long URLs included |
| Reply | `_attoHTTP_firstlineSent`, `_attoHTTP_headersSent`, `_attoHTTP_returnCode` | `attoHTTPFirstLine`, `attoHTTPSendHeaders`, `attoHTTPRESTSendHeaders`, `_attoHTTPSendAuthMessage`, `attoHTTPSendServerSentEventHeaders`, the writes | one status line, at most one header block behind it, and the code returned is the code sent |
| Request parser | `_attoHTTP_extra_c`, the URL buffer, `_attoHTTP_headersDone`, local buffers | `_attoHTTPReadC`, `ParseSpace`, `ParseEOL`, `ParseMethod`, `ParseURL`, `ParseVersion`, `ParseHeader(s)` | no index leaves its buffer; the URL stored is the URL sent; the headers end at the blank line; parsing ends |
| REST levels | the URL buffer, `command[]`, `id[]` | `_attoHTTPFindAPICallback` | the callback gets the components of the URL, in order, within the arrays |
| URL and body parameters | `_attoHTTP_url_params`, `_attoHTTP_url_params_start` | `attoHTTPParseParam`, `attoHTTPParseURLParam`, `attoHTTPGetRawParamChar` | names and values are those of this request |
| JSON parameters | the three `_attoHTTPParseJSONParam_*` levels and the counter | `attoHTTPParseJSONParam` | each call hands out the next item; the caller's buffers are respected; every call returns |
| Base64 | none | `attoHTTPBase64Encode/Decode` | encoding is RFC 2045 and decoding inverts it, cut to the buffer |
| printf, events | none | `attoHTTPvprintf`, `attoHTTPSendEvent` | output bounds |
| Socket wrappers | the listening socket, the client's socket | `attoHTTPWrapperInit/Main/End`, `attoHTTPGetByte`, `attoHTTPSetByte` | what is opened is closed, every client is served |
| ESP8266 wrapper | a table of connections | three callbacks of the SDK, `attoHTTPWrapperInit` | a slot of the table has one connection, and none is outside of it |
| MD5 | a context | `MD5_*` | third-party, not called by the server |

The wrapper calls `attoHTTPExecute` for a connection; the parser pulls bytes out
of the wrapper; the lifecycle looks the URL up in the registry, calls the
application's callback, and everything writes through the reply functions.  The
application registers pages between requests, and its callback runs inside a
request and may call the output functions in any order.

## 2. Modules

| Module | What it is |
|---|---|
| `UrlBuffer` | The URL buffer and C strings in it: what `_attoHTTPParseURL` stores, where a string ends, what splitting at slashes does. Shared by the others. |
| `Server` | The lifecycle, the registry and the reply, on the level of tokens. |
| `ReplyProtocol` | The abstract promise about replies; `Server!OneReply` maps `pc # "idle"` to `open` and the kinds of the parts on the wire to `reply`. |
| `RequestParser` | The parser, byte by byte. |
| `ApiLevels` | The loop of `_attoHTTPFindAPICallback`, iteration by iteration. |
| `UrlParams` | `attoHTTPParseURLParam`, read by read, and the requests between which the URL buffer stays as it is. |
| `JsonParam` | `attoHTTPParseJSONParam`, character by character, over any number of calls and requests. |
| `Sockets` | The Unix, Windows and Particle wrappers, system call by system call. |
| `Esp8266` | The ESP8266 wrapper's table of connections and its callbacks. |
| `Wrappers` | The wrapper layer: `Sockets` or `Esp8266`, as the program is built. |
| `Base64` | Encoding and decoding as functions, against the bits of RFC 2045. |
| `Helpers` | `ApiLevels` and `Base64` side by side, for one run of both. |
| `MCServer`, `MCRequestParser`, `MCApiLevels`, `MCUrlParams`, `MCJsonParam` | Values for the constants. |
| `UrlBufferProofs` | Lemmas about the C strings of `UrlBuffer`, for the proofs that need them. |
| `ServerProofs`, `RequestParserProofs`, `ApiLevelsProofs`, `UrlParamsProofs`, `JsonParamProofs`, `WrappersProofs`, `Base64Proofs` | Theorems. |

The detailed modules overlap on purpose and are tied together by checked
properties, the first two of which are also proved.  `Server` does not read bytes: it
says that `_attoHTTPParseURL` leaves `Stored(url, tok, eof)` in the buffer, and
`RequestParser!UrlStored` says that the byte loops do exactly that.  `Server` splits the
URL in one step with `Split`, and `ApiLevels!AgreesWithServer` says that the loop does
that.
`UrlParams` starts a request with the same `Stored` and `Split`.  `ParsingEnds` says that
a request is parsed to its end as long as no read has returned -1.  The reads of the
Unix and Windows wrappers return 0 or 1, because their loop goes on while the result is
negative (wrapper_unix_sockets.h:208, wrapper_win32_sockets.h:207); the Particle wrapper's
return -1 once the client is gone, and `parser_error_ends` shows what follows.  `Sockets`
takes this over: `attoHTTPExecute` is a bounded number of reads and writes until a read
has returned -1, and may go on for ever then.

### Server

One variable per global.  `pc` says where `attoHTTPExecute` stands: `"url"` after
the method, `"headers"`, `"gate"` (the tests between the headers and
`_attoHTTPFindPage`), `"find"`, `"callback"` while the application's function
runs, `"reply"` for the last part, `"idle"` between two requests.  Each branch of
`_attoHTTPFindPage` is an action.  The output functions are operators from replies
to replies (`FirstLine(r, code)`), so that an action composes the calls its code
makes; `resp.wire` is what is on the wire.  A callback is any sequence of
`attoHTTPFirstLine`, `attoHTTPSendHeaders`, `attoHTTPRESTSendHeaders` and writes,
then a return with any code.

The outcome of the wrapper's `attoHTTPWrapperCheckAuth` is a verdict chosen by the
environment; an `Authorization` header with an unknown scheme is a third verdict.
An events URL of exactly `ATTOHTTP_PAGE_URL_SIZE` bytes has no terminator, and the
comparison at line 48 reads past it: the model takes either answer.

`regLog`, `asked`, `cutShort`, `authSeen`, `served` and `spoke` are
history variables; no guard reads them.

Left out: page sizes and `Content-Length`, the HTTP version (stored and never
read), the text of status lines and headers, and registrations made by a callback
while it runs.

### RequestParser

One action is one call of `_attoHTTPReadC` and what runs until the next one.  `pc`
is the loop, `cur` the loop's local byte, `ptr` its index.  A read that fails
returns a value of `Fails` and leaves the byte it was to fill: the loop's last
byte, the old byte of the URL buffer, or, in a local variable that was never
stored to, any byte of `Garbage`.  The socket wrappers return 0 on a
timeout and at the end of the stream; the Particle wrapper returns -1 once the
client is gone.  `-1` goes on in the loops that test `ret` for non-zero and in
`_attoHTTPParseEOL`, whose `ret` is a `uint8_t`; it stops those that test `ret > 0`.

`erred` records that a read has returned -1, `phantom` that a byte the client did not
send may have been used.  `Dispatch` stands for the rest of the request, which may split the URL at its
slashes.  Header names and values are only lengths here.

### ApiLevels

`request` is the buffer and the length the parser left; `command` and `id` are
sequences of indexes where the code keeps pointers.  The reference definition
(`Levels`, `Component`) is stated on the URL as it was sent, without the loop.

The comment at line 571 ("Don't get a level if there is nothing after the slash")
holds only at the end of the token: the test counts bytes and does not look at
them, so `/?x` and `//` yield an empty level.  `LevelsAreComponents` says what the loop
does, empty levels included; `api_empty_level` shows that the comment is not kept
(`LevelsNotEmpty`).

### UrlParams

One action is one call of `_attoHTTPParseURLParamChar` and what is done with the
character; `params` and `start` are the pointer and the index that guards it.
`name` and `value` are what a call has written through its two pointers, the terminators
of lines 1076 and 1077 included: a buffer that is full is terminated one byte behind its
end, and `OnlyTerminatorBehind` says that this is all that is written there.  `Decoded` is what `strtol` makes of
two bytes; when a read inside of an escape fails they may be anything.  In a body,
POST stands for every method but GET with a url-encoded content type, and a read may
fail with bytes outstanding.

A URL is read up to the end of the buffer, not up to its terminator: a callback
that asks until it gets 0 asks once more than there are parameters, and that call
starts behind the terminator.  `NextParamEachCall` therefore speaks of calls up to
the terminator, and `params_stale` shows what lies behind.

The reference (`Query`, `Segment`, `Decode`, `Pairs`) has no loop and no recursion: it
takes the parameters of a request apart by ranks.  `Nth(S, k)` is the element of `S` with
k-1 smaller ones; the k-th segment lies between two borders that are neighbours in this
order, and the characters of a name are the positions that do not lie inside of an escape.

### JsonParam

One action of `Read` is one character and the branch of the else-if chain that takes
it.  `cblevel`, `sblevel`, `baselevel` and `counter` are the globals, modulo
`LevelMod` (256 in the code, 4 in the runs, so that they wrap); `extra` is the
pushed-back byte.  A call starts with the line break that ended the headers pushed
back.  `AnyBody` sends any bytes, `JsonBody` a document whose items are known, so that
what is handed out (`out`) can be compared with them.

The brace that closes the object is pushed back.  The next call reads it again, ends
at once and returns 0, with `cblevel` decremented below zero; the third call takes it
for a character (the level is no longer at most 1) and hands out `}` as if it were an
array element.  `NextItemEachCall` therefore speaks of the items up to the first call
that returns 0, as a callback's loop does.

`Simple` says which documents are read as JSON: no comma or bracket inside a quoted
string, no bracket inside a nested value, and a nested value that ends its call only
in the last place.  `json_strings` shows what happens without it.

### Sockets, Esp8266, Wrappers

In `Sockets` a step is one system call and what the wrapper makes of its result.
`platform` is the wrapper compiled in.  The application (`pc = "app"`) calls
`attoHTTPWrapperInit` when it is not up, `attoHTTPWrapperMain` and
`attoHTTPWrapperEnd` when it is.  `fds` are the open descriptors.  POSIX hands out
the lowest free one, so a program started with descriptor 0 closed gets it for its
listening socket; Windows sockets and Particle's objects have other handles, never 0.
On Windows the wrapper calls `close()`, which takes C descriptors: the socket stays open
(`Closes`), until `WSACleanup` in `attoHTTPWrapperEnd` frees them all.  `served` counts the
clients served in between, for `DescriptorsHeld`.
`peer` is what the system knows of a client.  On Unix `"reset"` makes one `recv` fail,
after which it returns 0; on Windows `recv` fails each time, the loop 191-207 of
`attoHTTPGetByte` does not end, and a call of it has no step.  `attoHTTPExecute` is any
sequence of reads and writes.  For Particle a descriptor stands for what a `TCPServer` or
`TCPClient` holds.

`Stuck` names where a wrapper stops to serve: the listening socket 0 on Unix
(`wrappers_served`), a reset client on Windows, a client that is gone on Particle.
`ClientsServed` says that there is no fourth.  A client on Windows is served when
`attoHTTPExecute` has run for it; its connection stays open.

In `Esp8266` every callback is one action, since the SDK runs one at a time.
`reverse[conn]` is the index of the slot `conn->reverse` points to, `MaxConn` being the
entry behind the table, which is memory of something else; what becomes of that is left
out.  `attoHTTPConnectcb` takes that entry when the table is full, as its test
`i > ATTO_MAX_CONN` is never true.  `Admitted` is the SDK's promise that keeps the table
from being full as long as connections end with `attoHTTPDisconnectcb`.
`ConnectionReset` is the end that does not: the SDK reports it with the reconnect callback,
which lines 115-116 do not register.  `anyReset` remembers it, for `SlotsOwned`.  A packet
may arrive when its connection is gone.

### Base64

`Encode(in, n)` and `Decode(in, n)` are the strings returned for an output buffer of
`n` bytes; the state machine only builds the inputs.  The two loops are in closed form: a
group of three bytes or four characters at a time, and for decoding the first group that
is not three bytes (`IsLast`), where the loop breaks.  `Or` and the shifts are C's on six
bits.  `Base64Of` is the reference: the bits of the input in groups of six.

The lengths and indexes are `uint16_t` in the code and unbounded here.  Neither loop's
index wraps: 65535 is a multiple of three, and four characters that begin at 65532 are
never whole, so that decoding breaks there.  The model has no buffer of no bytes, for
which `olen - 1` would wrap.

### Observations

Reading the code against its comments left a few facts that no run is about:

* `_attoHTTPInitRun` ("Init all of the variables", attohttp.c:1312) keeps the bytes of
  the URL: a request that ends behind its method and a blank gets the page of the
  request before it (`FirstRegistrationWins` speaks of requests whose URL was read).
* `_attoHTTP_accept` starts as `TEXT_HTML`, which is 1; as a mask it is the bit of
  `APPLICATION_JSON` (attohttp.c:197).
* `attoHTTPSendHeaders` ("prints out the STATUS_OK message", attohttp.c:1209) prints
  404 when a callback calls it first thing, as `attoHTTPExecute` has set the code by then.
* The first raw character of a body is the line break that ended the headers
  (attohttp.c:280).
* `name_len` and `value_len` of `attoHTTPParseURLParam` ("The length of the name buffer",
  attohttp.c:1032) leave out the terminator, which goes one byte behind a buffer that is
  full (attohttp.c:1076); the JSON reader keeps a byte for it.
* The comments of `attoHTTPGetByte` name "ret == -1" for an error
  (wrapper_unix_sockets.h:177-178, wrapper_win32_sockets.h:171-172), which the socket
  wrappers never return; it is the Particle wrapper that does, and the parser that does not
  expect it.
* "Closing connection on socket" (wrapper_win32_sockets.h:140) is followed by a `close()`
  that closes no Windows socket, and "closes all of the open sockets"
  (wrapper_win32_sockets.h:150) is the work of `WSACleanup`.  A server that runs on Windows
  keeps a socket for every client it has served (`DescriptorsHeld`).
* `attoHTTPGetByte` on Windows does not return once a connection is reset
  (wrapper_win32_sockets.h:191-207, `Stuck`).
* On the ESP8266 every reset connection keeps its slot; with the default table of one,
  the next connection is told the entry behind it (wrapper_esp8266.c:107, `SlotsOwned`).
* `attoHTTPBase64Decode` ("Decodes base64 encoded data based on rfc2045", attohttp.c:1439)
  stops at a character outside of the alphabet, where section 6.8 of the RFC has it ignored:
  a text broken into lines is decoded up to its first line break.  `StopsAtForeign` states
  what the function does, not what the RFC asks for.
* `attoHTTPBase64Encode` shifts signed bytes: a byte of 128 or more in the second or
  third place of a group spoils the character before it (attohttp.c:1381, 1386).
* On the ESP8266 `attoHTTPRecvcb` passes `&conn` where `attoHTTPGetByte` takes `conn`.

## 3. Runs

| Run | Result | Bounds and why they suffice |
|---|---|---|
| `server_registry` | passes: `TypeOK`, `FirstRegistrationWins`, `CallbackWasAsked` | 3 slots, one taken by the icon, so that the table fills; 3-byte page URLs and a 5-byte buffer, two registered URLs that agree on 3 bytes, two contents and NULL; tokens that overflow both buffers. `MaxWire = 0`: the callback says nothing. |
| `server_reply` | passes: `AuthBeforeService`, `CodeSent`, `OneReply` | build with authentication; any sequence of headers of the three verdicts over any number of requests; up to 3 parts by the callback before the closing ones, codes known, unknown, 401, 510 and 1. |
| `parser` | passes: `TypeOK`, `UrlBufferClean`, `HeadEndsAtBlankLine`, `UrlStored`, `ParsingEnds` | buffers of 3 bytes, so that every loop fills its buffer and tokens overflow it; 9 bytes per request, enough for a request line, a header and the blank line; failures 0 and -1 anywhere; any number of requests; fairness below. |
| `helpers` | passes: `TypeOK`, `Alternating`, `LevelsAreComponents`, `AgreesWithServer`, `EncodesBase64`, `DecodesBase64`, `StopsAtForeign` | every 8-byte buffer over `/`, a letter and NUL that the parser can leave, 2 levels, so that up to three components too many occur; inputs of up to 4 bytes (every remainder modulo 3, and a second group) over 6 bytes with each kind of high and low bits; output buffers of 1 to 9 bytes, one more than the longest output. The REST loop stops when it is done, hence no deadlock check. |
| `params` | passes: `TypeOK`, `ReadsInBuffer`, `OnlyTerminatorBehind`, `NextParamEachCall`, `CallsReturn` | an 8-byte URL buffer, buffers of 2 bytes for name and value, 3 calls per request and any number of requests; queries with no, one and two parameters, empty and over-long ones, stray separators, whole and cut escapes; bodies with blanks, timeouts anywhere. The index wraps at 18, the least that 3 calls cannot reach. |
| `json` | passes: `TypeOK`, `Terminated`, `NextItemEachCall`, `CallsReturn` | every body of up to 3 of the characters the reader tells apart; objects, arrays and scalars of up to two items: quoted both ways, spaced, empty, over-long, nested, with a quote or a colon inside quotes; name and value buffers of 3 and 4 bytes; 4 calls per request, two more than a document has items, and any number of requests; levels modulo 4. |
| `wrappers` | passes: `TypeOK`, `DescriptorsHeld`, `SlotsOwned`, `ClientsServed` | the three socket wrappers; two clients and a queue of 2, 4 descriptors, so that on Windows the third client finds none; descriptor 0 open or not, 2 binds, 2 reads or writes per request; on the ESP8266 3 connections for a table of 2. A process that has exited does nothing more, hence no deadlock check. |

The bounds on the parts a callback writes (`MaxWire`), on the bytes of a request
(`MaxInput`), on the calls for parameters in a request (`MaxCalls`) and on the bytes
`attoHTTPExecute` reads and writes in `Sockets` (`MaxOps`) are the only ones that cut
behaviours off; all are guards.

Where a comment of the code states something the code does not do, a run shows
the disagreement:

| Run | Comment | What happens |
|---|---|---|
| `parser_error_ends`: `EveryRequestEnds` | attohttp.c:1293 "one connection, start to finish" | reads that return -1 are retried for ever while the rest of a URL or a line end is skipped |
| `api_empty_level`: `LevelsNotEmpty` | attohttp.c:571 "Don't get a level if there is nothing after the slash" | `//` and `/?x` yield a level that is the empty string |
| `json_strings`: `ReadsJson` | attohttp.c:1089 "Reads the params as a JSON encoded string from the body" | a closing brace in a quoted string ends the object |
| `params_stale`: `ParamsFromTheUrl` | attohttp.c:1087 "Reads the params from the url" | the call behind the last parameter hands out what an earlier, longer URL left in the buffer |
| `wrappers_served`: `EveryClientServed` | wrapper_unix_sockets.h:124 "returns after servicing one socket (or none if there are no requests).  It must be called in a loop" | a listening socket 0 is taken for none, and clients that wait are never served |

Definitions such as `LastFree` beside `FirstFree` are slips a programmer could
make; substituted for the definition that follows them, each violates the
property it is meant for (`mutants` in `PROJECT.json`).

**Fairness.** `FairSpec` asks for weak fairness of the parser's steps: every
`attoHTTPGetByte` returns, at the latest after its timeout of one second, and
nothing suspends `attoHTTPExecute`.  Where reads can time out, fairness does not make one
of them fail with -1 (`ParseWithoutError`): a loop that went on after every timeout would
break `ParsingEnds`.  Nothing is assumed about the client, which
may stop at any byte; in the model it has stopped once `MaxInput` bytes have come.
`UrlParams!FairSpec` asks the same of the steps inside of a call; that the callback
calls again, or ever returns, is not assumed; so does `JsonParam!FairSpec`.
`SocketsFairness` asks for weak fairness of `attoHTTPWrapperMain`, which the application
"must call in a loop" (wrapper_unix_sockets.h:125), and of the steps of a request, which
end with its time-outs, and for strong fairness of accepting: not every wait of `select`
is interrupted by a signal.  It is also assumed that `send` returns: the wrappers wait for a
client that reads nothing once the system's buffer is full.  Nothing else is assumed about
clients, and system calls may fail for good, which ends the program; that they do is not
assumed, so `SelectFails` is no part of the fairness.

## 4. Proofs

TLC checks small instances; the theorems hold for every value of the constants.
Assumed of the constants (ASSUMEs of the modules, true of every configuration of
`attohttp.h`):

* buffers have at least two bytes, tables at least one entry, `NUL` is neither a space
  nor `?`;
* the application's return codes fit into the `uint16_t` they are returned in;
* `UrlParams`: the callback's buffers are not empty, and it does not call
  `attoHTTPParseParam` so often in one request that the index wraps
  (`UrlBufferSize + 3 * MaxCalls < StartMod`, some 21000 calls);
* `JsonParam`: buffers of 1 to 255 bytes, as `name_len` and `value_len` are `uint8_t`, and
  documents made of bytes;
* `ApiLevels`: a buffer left by `_attoHTTPParseURL` is terminated in its last byte and, if
  a URL was read, at the counted length (attohttp.c:345-369);
* `Base64`: inputs are made of bytes and the output buffer is not empty; `MaxLen` and
  `MaxOut` are arbitrary;
* `Sockets`: the numbers are natural numbers and one bind at least is tried.

All safety properties below are proved the same way: an inductive invariant, a lemma that
it holds initially, one lemma per action, and a last step by temporal logic.

**Request lifecycle** (`ServerProofs`)

* `ServiceIsAuthenticated`: `Spec => []AuthBeforeService`.  The invariant
  `AuthInv` says what the two globals remember while a request is parsed: the return
  code is still `STATUS_RUNKNOWN` only if no header was rejected (`CodeRemembers`), and
  the flag is set only if there was a header (`FlagRemembers`).  Only `Gate` combines
  them.  Lemmas say what each output function does to the return code.
* `ServerTypes`: `Spec => []TypeOK`, inductive as it stands; the lemmas about
  `FirstLine`, `SendHeaders` and `Stored` say that they return replies and buffers.
* `RepliesFollowProtocol`: `Spec => OneReply`, the refinement of `ReplyProtocol`.  Each
  step of `Server` is one of five kinds (`Restarts`, `Begins`, `Continues`, `Ends`,
  `KeepsReply`), and each kind maps to a step of the protocol or to a stutter.  The
  invariant `WireInv` ties the flags to the wire: `_attoHTTP_firstlineSent` and
  `_attoHTTP_headersSent` are set exactly if a status line and a block of headers are on
  it, in this order (`Marked`), and while the request is parsed nothing is (`Quiet`).  `Ends`
  needs that every path through `attoHTTPExecute` has sent the line.
* `ReturnedCodeWasSent`: `Spec => []CodeSent`.  `CodeInv` follows the code through the
  steps between the moment it is printed and the moment it is returned: a line is never
  taken off the wire again (`LineStays`), none is on it while a callback has said nothing
  (`SilentCallback`), and a line that is there before the last part, without a callback,
  is the 200 of a page or of the events URL (`SentByServer`).
* `CallbackForOwnUrl`: `Spec => []CallbackWasAsked`.  `AskedInv` says that from the headers
  on the buffer holds the token of this request (`BufferHolds`).
* `FirstPageIsServed`: `Spec => []FirstRegistrationWins`.  The invariant `RegInv` says that
  the table is the log of the registrations that found room, in order, followed by free
  entries; the search then stops at the first entry of that URL.

**Request parser** (`RequestParserProofs`)

* `ParserInBounds`: `Spec => [](TypeOK /\ UrlBufferClean)`, and `ParserTypes`.  The
  two are inductive together and neither is alone: where the loop over the URL
  stops, and what it pushes back, depends on the old bytes in the buffer when a
  read fails.  `ReadTyped` and `SpaceTyped` are used by every loop; then one lemma
  per action.
* `BodyIsIntact`: `Spec => []HeadEndsAtBlankLine`.  `HeadInv` says that the pushed-back
  byte is the last one the client sent (`PushedIsLast`) and what the header loops know
  of the line they are in (`LineCounted`).
* `UrlIsStored`: `Spec => []UrlStored`.  `UrlInv` is the loop invariant of the two byte
  loops: the buffer is the one inherited until the URL starts, then its first bytes
  are the token read so far (`Reading`), then the cut token (`Full`).  It holds until a
  read returns -1, which lets the loop over the URL go on without a byte; `UrlStored`
  says nothing of such a request.

**REST levels** (`ApiLevelsProofs`)

* `LevelsInBounds`: `Spec => [](TypeOK /\ Alternating)`, and `LevelTypes`.  The invariant
  adds that the last byte of the buffer is NUL: `RoomAhead` derives from it that
  the pointer may advance, which the code itself does not check.
* `SplitAsServerSays`: `Spec => []AgreesWithServer`.  `ScanInv` describes the buffer while
  the loop runs: behind the pointer slashes are terminators, from it on it is untouched,
  there is no terminator of the URL behind the pointer, and pointer and counter add up to
  the length.
* `LevelsAreTheUrl`: `Spec => []LevelsAreComponents`.  `CountInv` counts: so many levels have
  been stored as there are levels behind the pointer, up to `2 * ApiSize`, and the k-th
  stored is the one with k-1 before it.  `FewerBefore` and `LevelIsNth` are about
  cardinalities; `LevelIsComponent` says that the split buffer reads as the component.

**Parameters** (`UrlParamsProofs`, `JsonParamProofs`)

* `ParamsInBounds`: `Spec => [](TypeOK /\ ReadsInBuffer)`.  The invariant
  adds how far the index has run past the buffer (`StartBound`): a call fails to read
  at most three times, twice in an escape and once where its loop ends.  Without it
  the index might wrap and let a stray pointer through.  `LoopRuns` (there is room for
  the value wherever a character is read) is what keeps `value_len` from wrapping.
* `ParamWrites`: `Spec => []OnlyTerminatorBehind`.  What has been written and what is left
  add up to the buffers while a call reads; the terminators are the only bytes written when
  nothing may be left.
* `ParamsHandedOut`: `Spec => []NextParamEachCall`, for every URL and body that is well
  formed, every number of calls and reads that time out anywhere.  The invariant `ParamInv`
  has two parts.  `Cursor` says where in the query the next read starts (`Pos`): what is
  left of the URL lies in the buffer from the pointer on, where the split at the slashes
  does not reach, and the index that guards the pointer agrees with it; what is left of a
  body is a suffix of what was sent.  `BetweenCalls` and `InCall` say that the calls so far
  have handed out `Pairs`, and where the next one stands: `Within` relates the buffers to
  the part of the segment that has been read, escapes begun included.  A value that fills
  its buffer ends its call in front of the separator, any other behind it, so a call may
  begin at either place; `count`, which lets a separator through until a character of the
  name is stored, is what makes both right (`FreshInNameNext`).  A request that is well
  formed and not past its end was so at every earlier step, so the invariant can have both
  as premises.  `NextUrlChar` and `NextBodyChar` say that a read takes the next character
  of the query; the lemmas `Word...` what one character adds to a decoded name; `Nth` is
  tied to cardinalities by `RankGrows`, `NthOfRank` and `RankOfNth`.
* `JsonInBounds`: `Spec => [](TypeOK /\ Terminated)`, and `JsonTypes`.  The invariant adds
  what holds inside a call (`Room`): bytes stored and bytes left add up to the buffer
  and one is left; the divider takes what is left of the name away.  `StoresKeeps` and
  `ReturnKeeps` are the two places where it matters.

**Wrappers** (`WrappersProofs`)

* `ConnectionsOwnSlots`: `EspSpec => [](EspTypeOK /\ SlotsOwned)`.  The
  invariant adds that an open connection has a slot (`LiveHasSlot`), that none is open
  before `attoHTTPWrapperInit` (`DownIsEmpty`), and, while no connection was reset, that a
  slot in use belongs to an open connection (`UsedByLive`) and only these have slots
  (`HasSlotIsLive`).  `FreeSlot` is a pigeonhole argument: if all slots were in use, two
  would belong to one connection, as the SDK admits fewer than there are slots; a reset
  takes its premise away.  `LeastNumber` says that the search has a place to stop.
  `SlotsStayOwned` is the same of the wrapper layer as a whole.
* `DescriptorsStayHeld`: `FairSpec => []DescriptorsHeld`, and `WrapperTypes`.  `SocketsInv`
  says at every step which descriptors are held (`Held`): the inherited one, the listening
  socket from `socket()` to `End`, the client's from `accept` to its close; that the two are
  different and not the inherited one, so that closing one closes nothing else; and how
  many are open besides (`Left`), to which on Windows each client adds one.

**Base64** (`Base64Proofs`)

The state only holds the input, so the invariant is that it is made of bytes; the work is
in lemmas about the operators, for inputs of every length.

* `EncodesEveryInput`: `Spec => []EncodesBase64`.  `GroupSextets` says what the four
  sextets of three bytes are in terms of `\div` and `%`, from the eight bits of each byte
  (`BitsAre`); `OrAdds` and `EncodedGroup` say that the shifts and ors give the same,
  signed bytes below 128 being needed where they are shifted right into an or; the last group, of
  one or two bytes, is filled up with zeros.
* `DecodesEveryInput`: `Spec => []DecodesBase64`, and `StopsInEveryInput`:
  `Spec => []StopsAtForeign` (what the code does, see the observations).  Both follow from `DecodesAll`: a text whose first `m`
  characters are sextets of the input and whose next is none, being missing, padding or
  foreign (`Encodes`), decodes to the `(6 * m) \div 8` bytes that are whole.  It is used on
  texts with padding stripped and on texts with a character spoiled.  `DecodedOctets` is
  about one group; a text of many groups needs no induction, as the loop's closed form
  says where it ends.

**String lemmas** (`UrlBufferProofs`): what `Cut`, `Before`, `StrLen`, `CString`, `Stored` and
`Split` return, for every buffer size; `ServerProofs`, `ApiLevelsProofs` and `UrlParamsProofs` rest on them.

The SMT encoding of sequences in tlapm 1.4.5 gives every value `v` the domain
`1..Len(v)`, which contradicts buffers indexed from 0 when both occur in one
obligation.  Every obligation Z3 proves here has been checked again with that axiom
restricted to sequences; none depends on it.

Only model-checked:

* liveness under fairness, which is beyond the prover: `ParsingEnds`, `CallsReturn` and
  `ClientsServed`;
* `NextItemEachCall`: the reference recurses over the items of a document, and how the
  reader's levels follow their nesting is induction over data.

## 5. Not modelled

* `attoHTTPvprintf`, `attoHTTPprintf`, `attoHTTPSendEvent`: formatting.  A write is one
  part of the reply in `Server`.
* The bytes of a request on the ESP8266 (see above), the SDK, Winsock and TCPServer
  beyond what the wrappers use of them.
* MD5: third-party, called by nothing in the repository.
* Digest authentication: the repository has the header's parsing and the challenge, which
  are in `Server`, and leaves the check to the application.
* The tests.

## 6. Plan

1. Proofs: a reference for JSON documents without recursion, as `UrlParams` has one for
   queries, and `NextItemEachCall` from it.
2. The bound of the buffer of `attoHTTPvprintf`.
