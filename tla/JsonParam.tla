----------------------------- MODULE JsonParam -----------------------------
(***************************************************************************)
(* attoHTTPParseJSONParam: how a REST callback takes the members of a JSON *)
(* object, or the elements of a JSON array, out of the body one by one.    *)
(* One step is one character read.                                         *)
(*                                                                         *)
(* The nesting levels are globals of eight bits that live from one call to *)
(* the next; the quote flags and the buffers are the caller's or local.    *)
(***************************************************************************)
EXTENDS Integers, Sequences

CONSTANTS
  NUL,           \* the byte 0
  Bytes,         \* all bytes but NUL
  Bodies,        \* bodies clients send, of any form
  Documents,     \* JSON documents clients send, see Text
  NameSize,      \* name_len of the callback's calls
  ValueSize,     \* value_len of the callback's calls
  MaxCalls,      \* bound on attoHTTPParseParam calls in one request
  LevelMod       \* 2^8: the levels and the counter are uint8_t

Space == {"sp", "\n"}                       \* isspace
Quotes == {"'", "\""}
Digit == <<"0", "1", "2", "3", "4", "5", "6", "7", "8", "9">>

VARIABLES
  pc,          \* "idle", "callback" or "read"
  body,        \* bytes of the body that have not been read
  extra,       \* _attoHTTP_extra_c, NUL for none
  cblevel,     \* _attoHTTPParseJSONParam_cblevel
  sblevel,     \* _attoHTTPParseJSONParam_sblevel
  baselevel,   \* _attoHTTPParseJSONParam_baselevel, NUL for 0
  counter,     \* _attoHTTPParseJSONParam_counter
  quote,       \* the quote mark whose level is 1, NUL for neither
  divider,     \* a ":" has been read in this call
  name, nameLen, value, valueLen     \* the caller's buffers and what is left

(* History variables, read by no guard but the bound on calls. *)
VARIABLES
  doc,         \* the document sent in this request, as a sequence of 0 or 1
  whole,       \* no read failed with characters outstanding
  calls,       \* calls in this request
  done,        \* one of them has returned 0
  out          \* the pairs handed out before that, in order

buffers == <<name, nameLen, value, valueLen>>
levels == <<cblevel, sblevel, baselevel>>
vars == <<pc, body, extra, levels, counter, quote, divider, buffers,
          doc, whole, calls, done, out>>

\* The first n bytes of s, or all of them.
Cut(s, n) == SubSeq(s, 1, IF n < Len(s) THEN n ELSE Len(s))

(***************************************************************************)
(* A document is what it opens and closes with and, for each item, how the *)
(* item is written and the name and value it stands for.                   *)
(***************************************************************************)
Text(d) ==
  LET items[i \in 0..Len(d.items)] ==
        IF i = 0 THEN <<>>
        ELSE items[i - 1] \o (IF i > 1 THEN <<",">> ELSE <<>>) \o d.items[i].text
  IN d.open \o items[Len(d.items)] \o d.close

ASSUME JsonParamAssumption ==
  /\ NUL \notin Bytes
  /\ {"\n", "{", "}", "[", "]"} \cup {Digit[i] : i \in 1..10} \subseteq Bytes
  /\ Bodies \subseteq Seq(Bytes \cup {NUL})
  /\ \A d \in Documents : Text(d) \in Seq(Bytes)
  /\ NameSize \in 1..255 /\ ValueSize \in 1..255
  /\ MaxCalls \in Nat
  /\ LevelMod \in 3..256

-----------------------------------------------------------------------------
\* The reader's part of _attoHTTPInitRun.
KeepsCounter ==
  /\ cblevel' = 0 /\ sblevel' = 0 /\ baselevel' = NUL
  /\ UNCHANGED counter
InitRun ==
  /\ cblevel' = 0 /\ sblevel' = 0 /\ baselevel' = NUL
  /\ counter' = 0

\* A request up to the call of the REST callback; the line break that ended
\* the headers has been pushed back.
Request(b, d) ==
  /\ pc = "idle"
  /\ pc' = "callback"
  /\ body' = b
  /\ extra' = "\n"
  /\ InitRun
  /\ doc' = d /\ whole' = TRUE /\ calls' = 0 /\ done' = FALSE /\ out' = <<>>
  /\ UNCHANGED <<quote, divider, buffers>>

AnyBody(b) == Request(b, <<>>)
JsonBody(d) == Request(Text(d), <<d>>)

\* The callback calls attoHTTPParseParam, which, for a body that is not
\* url-encoded, calls attoHTTPParseJSONParam.
ParseParam ==
  /\ pc = "callback"
  /\ calls < MaxCalls
  /\ calls' = calls + 1
  /\ pc' = "read"
  /\ quote' = NUL /\ divider' = FALSE
  /\ name' = <<>> /\ nameLen' = NameSize
  /\ value' = <<>> /\ valueLen' = ValueSize
  /\ UNCHANGED <<body, extra, levels, counter, doc, whole, done, out>>

-----------------------------------------------------------------------------
Up(l) == (l + 1) % LevelMod
DownUnbounded(l) == l - 1
Down(l) == (l + LevelMod - 1) % LevelMod
Level == (cblevel + sblevel) % LevelMod

\* The tests of the loop's else-if chain.  No two are about one character.
IsDivider(c) == c = ":" /\ cblevel = 1 /\ sblevel = 0 /\ quote = NUL
IsIgnored(c) == c \in Space /\ quote = NUL /\ Level <= 1
IsComma(c) == c = "," /\ Level = 1
IsQuote(c) == c \in Quotes /\ Level <= 1 /\ quote \in {NUL, c}
IsOpen(c) == c \in {"{", "["} /\ Level = 0
IsClose(c) ==
  \/ c = "}" /\ cblevel <= 1 /\ baselevel = "{"
  \/ c = "]" /\ sblevel = 1 /\ baselevel = "["
IsPlain(c) ==
  ~(c = NUL \/ IsDivider(c) \/ IsIgnored(c) \/ IsComma(c) \/ IsQuote(c)
    \/ IsOpen(c) \/ IsClose(c))

\* snprintf(n, nl, "%d", counter)
Decimal(k) ==
  (IF k >= 100 THEN <<Digit[(k \div 100) + 1]>> ELSE <<>>)
  \o (IF k >= 10 THEN <<Digit[((k \div 10) % 10) + 1]>> ELSE <<>>)
  \o <<Digit[(k % 10) + 1]>>

\* Behind the loop, with n and v in the buffers.  Without a divider, what is
\* in the name's buffer is the value, and the counter is its name.
Return(n, v) ==
  /\ pc' = "callback"
  /\ IF ~divider /\ n # <<>>
     THEN /\ name' = Cut(Decimal(counter), NameSize - 1)
          /\ value' = Cut(n, ValueSize)
          /\ counter' = Up(counter)
     ELSE name' = n /\ value' = v /\ UNCHANGED counter
  /\ LET ret == divider \/ n # <<>>
     IN /\ done' = (done \/ ~ret)
        /\ out' = IF ret /\ ~done THEN Append(out, <<name', value'>>) ELSE out

\* _attoHTTPReadC: the character that was pushed back, or the next one of the
\* body; NUL stands for a read that fails, because the stream has ended or the
\* read timed out, as for a terminator: the reader ends at either.
ReadC(c) ==
  \/ /\ extra # NUL
     /\ c = extra
     /\ UNCHANGED <<body, whole>>
  \/ /\ extra = NUL /\ body # <<>>
     /\ c = Head(body)
     /\ body' = Tail(body)
     /\ UNCHANGED whole
  \/ /\ extra = NUL
     /\ c = NUL
     /\ whole' = (whole /\ body = <<>>)
     /\ UNCHANGED body

GoOn == pc' = "read" /\ UNCHANGED <<counter, done, out>>

\* A character that is part of a name or a value, nested brackets included.
\* One byte is kept for the terminator.
KeepsOne(len) == len > 0
StoreFits(len) == len > 1
Stores ==
  IF divider
  THEN /\ valueLen' = IF StoreFits(valueLen) THEN valueLen - 1 ELSE valueLen
       /\ UNCHANGED nameLen
  ELSE /\ nameLen' = IF StoreFits(nameLen) THEN nameLen - 1 ELSE nameLen
       /\ UNCHANGED valueLen
NameAfter(c) ==
  IF ~divider /\ StoreFits(nameLen) THEN Append(name, c) ELSE name
ValueAfter(c) ==
  IF divider /\ StoreFits(valueLen) THEN Append(value, c) ELSE value

\* A nested object that ends, or a nested array in an array, ends the call.
NestedEnds(c) ==
  \/ c = "}" /\ Down(cblevel) <= 1
  \/ c = "]" /\ Down(sblevel) = 1

Plain(c) ==
  /\ IsPlain(c)
  /\ Stores
  /\ cblevel' = CASE c = "{" -> Up(cblevel) [] c = "}" -> Down(cblevel)
                  [] OTHER -> cblevel
  /\ sblevel' = CASE c = "[" -> Up(sblevel) [] c = "]" -> Down(sblevel)
                  [] OTHER -> sblevel
  /\ IF NestedEnds(c) THEN Return(NameAfter(c), ValueAfter(c))
     ELSE GoOn /\ name' = NameAfter(c) /\ value' = ValueAfter(c)
  /\ UNCHANGED <<baselevel, quote, divider>>

Divider(c) ==
  /\ IsDivider(c)
  /\ divider' = TRUE /\ nameLen' = 0
  /\ GoOn
  /\ UNCHANGED <<levels, quote, name, value, valueLen>>

Ignored(c) ==
  /\ IsIgnored(c)
  /\ GoOn
  /\ UNCHANGED <<levels, quote, divider, buffers>>

Quote(c) ==
  /\ IsQuote(c)
  /\ quote' = IF quote = c THEN NUL ELSE c
  /\ GoOn
  /\ UNCHANGED <<levels, divider, buffers>>

Open(c) ==
  /\ IsOpen(c)
  /\ cblevel' = IF c = "{" THEN Up(cblevel) ELSE cblevel
  /\ sblevel' = IF c = "[" THEN Up(sblevel) ELSE sblevel
  /\ baselevel' = IF baselevel = NUL THEN c ELSE baselevel
  /\ GoOn
  /\ UNCHANGED <<quote, divider, buffers>>

Comma(c) ==
  /\ IsComma(c)
  /\ Return(name, value)
  /\ UNCHANGED <<levels, quote, divider, nameLen, valueLen>>

Close(c) ==
  /\ IsClose(c)
  /\ cblevel' = IF c = "}" THEN Down(cblevel) ELSE cblevel
  /\ sblevel' = IF c = "]" THEN Down(sblevel) ELSE sblevel
  /\ Return(name, value)
  /\ UNCHANGED <<baselevel, quote, divider, nameLen, valueLen>>

EndOfInput(c) ==
  /\ c = NUL
  /\ Return(name, value)
  /\ UNCHANGED <<levels, quote, divider, nameLen, valueLen>>

\* A read takes the character that was pushed back; the "}" that closes the
\* object is pushed back for the next call to end at.
KeepC(c) == extra' = IF c = "}" /\ IsClose(c) THEN c ELSE extra
PushC(c) == extra' = IF c = "}" /\ IsClose(c) THEN c ELSE NUL

\* One iteration of the loop; valueLen stays above 0, so only a break ends it.
Read ==
  /\ pc = "read"
  /\ \E c \in Bytes \cup {NUL} :
       /\ ReadC(c)
       /\ PushC(c)
       /\ \/ EndOfInput(c) \/ Divider(c) \/ Ignored(c) \/ Comma(c) \/ Quote(c)
          \/ Open(c) \/ Close(c) \/ Plain(c)
  /\ UNCHANGED <<doc, calls>>

\* The callback returns, its buffers with it, and the request ends.
EndCallback ==
  /\ pc = "callback"
  /\ pc' = "idle"
  /\ body' = <<>> /\ extra' = NUL
  /\ quote' = NUL /\ divider' = FALSE
  /\ name' = <<>> /\ nameLen' = 0 /\ value' = <<>> /\ valueLen' = 0
  /\ doc' = <<>> /\ whole' = TRUE /\ calls' = 0 /\ done' = FALSE /\ out' = <<>>
  /\ UNCHANGED <<levels, counter>>

-----------------------------------------------------------------------------
Init ==
  /\ pc = "idle"
  /\ body = <<>> /\ extra = NUL
  /\ cblevel = 0 /\ sblevel = 0 /\ baselevel = NUL
  /\ counter = 0
  /\ quote = NUL /\ divider = FALSE
  /\ name = <<>> /\ nameLen = 0 /\ value = <<>> /\ valueLen = 0
  /\ doc = <<>> /\ whole = TRUE /\ calls = 0 /\ done = FALSE /\ out = <<>>

Next ==
  \/ \E b \in Bodies : AnyBody(b)
  \/ \E d \in Documents : JsonBody(d)
  \/ ParseParam
  \/ Read
  \/ EndCallback

Spec == Init /\ [][Next]_vars
FairSpec == Spec /\ WF_vars(Read)

-----------------------------------------------------------------------------
(* Types of the reader's state; the levels are eight-bit counters.         *)
TypeOK ==
  /\ pc \in {"idle", "callback", "read"}
  /\ body \in Seq(Bytes \cup {NUL})
  /\ extra \in {NUL, "\n", "}"}
  /\ cblevel \in 0..LevelMod - 1 /\ sblevel \in 0..LevelMod - 1
  /\ counter \in 0..LevelMod - 1
  /\ baselevel \in {NUL, "{", "["}
  /\ quote \in {NUL} \cup Quotes
  /\ divider \in BOOLEAN /\ whole \in BOOLEAN /\ done \in BOOLEAN
  /\ name \in Seq(Bytes) /\ value \in Seq(Bytes)
  /\ nameLen \in 0..NameSize /\ valueLen \in 0..ValueSize
  /\ calls \in 0..MaxCalls

(* The bytes stored and the terminator behind them are inside the buffers  *)
(* the callback gave, whatever is sent and wherever reads fail.  An array  *)
(* element is copied from the name's buffer to the value's, which holds it *)
(* and its terminator if it is not the smaller one.                        *)
Terminated ==
  pc # "idle" /\ calls > 0 =>
    /\ Len(name) < NameSize
    /\ NameSize <= ValueSize => Len(value) < ValueSize

(* Every attoHTTPParseJSONParam returns, though it may push back the       *)
(* character it ended at.                                                  *)
CallsReturn == pc = "read" ~> pc = "callback"

(***************************************************************************)
(* What a document means: its items in order, cut to the buffers.  An      *)
(* element of an array goes through the name's buffer.                     *)
(***************************************************************************)
Pair(d, k) ==
  LET n == d.items[k].name
      v == d.items[k].value
  IN IF d.open = <<"{">>
     THEN <<Cut(n, NameSize - 1), Cut(v, ValueSize - 1)>>
     ELSE <<Cut(Decimal(k - 1), NameSize - 1), Cut(v, NameSize - 1)>>
Pairs(d, n) ==
  [k \in 1..(IF n < Len(d.items) THEN n ELSE Len(d.items)) |-> Pair(d, k)]

\* What an item must look like for the reader, which takes a comma or a
\* bracket for one whether it is quoted or not, and whose call ends where a
\* nested object or a nested array of an array ends, so that the comma behind
\* it is an empty call.
Brackets == {"{", "}", "[", "]"}
Inside(it) == SubSeq(it.value, 2, Len(it.value) - 1)
EndsCall(d, it) == it.nested /\ (d.open = <<"[">> \/ Head(it.value) = "{")
SimpleItem(d, k) ==
  LET it == d.items[k]
  IN /\ IF it.nested
        THEN \A i \in 1..Len(Inside(it)) : Inside(it)[i] \notin Brackets
        ELSE \A i \in 1..Len(it.text) : it.text[i] \notin Brackets \cup {","}
     /\ EndsCall(d, it) => k = Len(d.items)
     /\ d.open # <<"{">> => it.value # <<>>
Simple(d) == \A k \in 1..Len(d.items) : SimpleItem(d, k)

(* Each call hands out the next item of a document of simple items, its    *)
(* quotes and the blanks around it gone, until the first call that returns *)
(* 0, and that one has no item left.                                       *)
NextItemEachCall ==
  (pc = "callback" /\ doc # <<>> /\ whole)
    => (Simple(doc[1]) => out = Pairs(doc[1], calls))

(* attohttp.c:1089, attoHTTPParseParam "Reads the params as a JSON encoded *)
(* string from the body": so it does whatever the document.                *)
ReadsJson == (pc = "callback" /\ doc # <<>> /\ whole) => out = Pairs(doc[1], calls)
=============================================================================
