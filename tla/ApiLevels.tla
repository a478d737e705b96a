------------------------------ MODULE ApiLevels ------------------------------
(***************************************************************************)
(* The loop of _attoHTTPFindAPICallback that splits a URL into the levels  *)
(* /command/id/command/id... handed to the REST callback.  One action per  *)
(* branch of the loop body.  A level is the index of its first byte in the *)
(* buffer, the way the code keeps a pointer into it.                       *)
(***************************************************************************)
EXTENDS UrlBuffer, FiniteSets

CONSTANTS
  ApiSize,   \* ATTOHTTP_API_LEVELS
  Bytes,     \* bytes a URL buffer may hold
  Requests   \* the buffers and lengths _attoHTTPParseURL may leave

ASSUME ApiAssumption ==
  /\ ApiSize \in Nat \ {0}
  /\ NUL \in Bytes
  /\ Requests \subseteq [buf : [UrlIndex -> Bytes], len : UrlIndex]
  /\ \A r \in Requests :
        /\ r.buf[UrlBufferSize - 1] = NUL
        /\ r.len > 0 => r.buf[r.len] = NUL

VARIABLES
  request,  \* the URL as the parser left it (constant)
  buf,      \* _attoHTTP_url
  ptr,      \* url_ptr, as an index
  ctr,      \* ctr
  command,  \* command[0..cmdlvl-1], as a sequence
  id,       \* id[0..idlvl-1], as a sequence
  done      \* the loop has ended

vars == <<request, buf, ptr, ctr, command, id, done>>

cmdlvl == Len(command)
idlvl == Len(id)

\* The condition of the loop and of the branches on a slash.
MoreUrlUncounted == ~done /\ buf[ptr] # NUL
MoreUrl == ~done /\ buf[ptr] # NUL /\ ctr > 0
AtSlash == MoreUrl /\ buf[ptr] = "/"

\* "Don't get a level if there is nothing after the slash."
AnySlash == TRUE
SomethingAfter == ctr > 1

CommandTurnPastEnd == cmdlvl = idlvl /\ cmdlvl <= ApiSize
CommandTurn == cmdlvl = idlvl /\ cmdlvl < ApiSize
IdTurnUnordered == idlvl < ApiSize
IdTurn == ~CommandTurn /\ cmdlvl > idlvl /\ idlvl < ApiSize

Advance ==
  /\ ptr' = ptr + 1
  /\ ctr' = ctr - 1
  /\ UNCHANGED <<request, done>>

TakeCommand ==
  /\ AtSlash /\ CommandTurn /\ SomethingAfter
  /\ command' = Append(command, ptr + 1)
  /\ buf' = [buf EXCEPT ![ptr] = NUL]
  /\ Advance
  /\ UNCHANGED id

TakeId ==
  /\ AtSlash /\ IdTurn /\ SomethingAfter
  /\ id' = Append(id, ptr + 1)
  /\ buf' = [buf EXCEPT ![ptr] = NUL]
  /\ Advance
  /\ UNCHANGED command

\* A slash behind the last level there is room for, or at the very end.
DropSlash ==
  /\ AtSlash
  /\ ~(SomethingAfter /\ (CommandTurn \/ IdTurn))
  /\ buf' = [buf EXCEPT ![ptr] = NUL]
  /\ Advance
  /\ UNCHANGED <<command, id>>

PassByte ==
  /\ MoreUrl
  /\ buf[ptr] # "/"
  /\ Advance
  /\ UNCHANGED <<buf, command, id>>

\* The loop ends and the callback, or the error reply, follows.
Finish ==
  /\ ~done /\ ~MoreUrl
  /\ done' = TRUE
  /\ UNCHANGED <<request, buf, ptr, ctr, command, id>>

Init ==
  /\ request \in Requests
  /\ buf = request.buf
  /\ ptr = 0
  /\ ctr = request.len
  /\ command = <<>> /\ id = <<>>
  /\ done = FALSE

Next == TakeCommand \/ TakeId \/ DropSlash \/ PassByte \/ Finish

Spec == Init /\ [][Next]_vars

-----------------------------------------------------------------------------
(* Types: the levels are within command[] and id[] and point into the URL   *)
(* buffer, and so does the scan itself, which relies on the terminator that *)
(* _attoHTTPParseURL keeps in the last byte.                                *)
TypeOK ==
  /\ request \in [buf : [UrlIndex -> Bytes], len : UrlIndex]
  /\ buf \in [UrlIndex -> Bytes]
  /\ ptr \in UrlIndex /\ ctr \in UrlIndex
  /\ command \in Seq(UrlIndex) /\ cmdlvl <= ApiSize
  /\ id \in Seq(UrlIndex) /\ idlvl <= ApiSize
  /\ done \in BOOLEAN

(* Commands and ids alternate, commands first: the callback is never given *)
(* an id without the command it belongs to.                                *)
Alternating == idlvl <= cmdlvl /\ cmdlvl <= idlvl + 1

(* The string a level points at once the slashes are terminators.          *)
LevelString(i) ==
  LET n == CHOOSE n \in UrlIndex :
             n >= i /\ buf[n] = NUL /\ \A j \in i..n - 1 : buf[j] # NUL
  IN [k \in 1..n - i |-> buf[i + k - 1]]

(* The same in the URL as the client sent it: from behind the k-th slash   *)
(* to the next slash or the end of the string.                             *)
Levels == {i \in Slashes(request.buf, request.len) : request.len - i > 1}
NthSlash(k) == CHOOSE i \in Levels : Cardinality({j \in Levels : j < i}) = k - 1
Component(k) ==
  LET i == NthSlash(k) + 1
      n == CHOOSE n \in UrlIndex :
             /\ n >= i /\ request.buf[n] \in {"/", NUL}
             /\ \A j \in i..n - 1 : request.buf[j] \notin {"/", NUL}
  IN [k2 \in 1..n - i |-> request.buf[i + k2 - 1]]
Min2(a, b) == IF a < b THEN a ELSE b

(* What the callback is handed are the components of the URL, in order, as *)
(* many as there is room for: odd ones as commands, even ones as ids.  The *)
(* code counts the bytes of the token behind a slash and does not look at  *)
(* them, so a component in front of another slash or a "?" may be empty.   *)
LevelsAreComponents ==
  done =>
    LET total == Min2(Cardinality(Levels), 2 * ApiSize)
    IN /\ cmdlvl + idlvl = total
       /\ \A k \in 1..cmdlvl : LevelString(command[k]) = Component(2 * k - 1)
       /\ \A k \in 1..idlvl : LevelString(id[k]) = Component(2 * k)

(* attohttp.c:571 and 577, "Don't get a level if there is nothing after the *)
(* slash": a level the callback is handed is a string that is not empty.   *)
LevelsNotEmpty ==
  done => /\ \A k \in 1..cmdlvl : LevelString(command[k]) # <<>>
          /\ \A k \in 1..idlvl : LevelString(id[k]) # <<>>

(* What module Server says of this loop: the buffer it leaves, and when    *)
(* there is a level to call the callback with.                             *)
AgreesWithServer ==
  done => /\ buf = Split(request.buf, request.len)
          /\ (cmdlvl > 0) = (\E i \in Slashes(request.buf, request.len) :
                               request.len - i > 1)
=============================================================================
