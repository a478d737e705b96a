---------------------------- MODULE MCApiLevels ----------------------------
(***************************************************************************)
(* Every URL token over "/", "a" and "?" that fits an eight byte buffer,   *)
(* whole or cut short by the end of the stream, stored over an empty       *)
(* buffer or over the rest of a longer URL; and the stale buffer of a      *)
(* request without a URL.  Two levels, so that URLs exceed them.           *)
(***************************************************************************)
EXTENDS ApiLevels

MCBytes == {"/", "a", NUL}
MCTokens == UNION {[1..n -> {"/", "a", "?"}] : n \in 1..UrlBufferSize - 1}
MCOld == { [i \in UrlIndex |-> NUL],
           [i \in UrlIndex |-> IF i = UrlBufferSize - 1 THEN NUL
                               ELSE IF i % 2 = 0 THEN "/" ELSE "a"] }
MCRequests ==
  {[buf |-> Stored(old, tok, eof), len |-> StoredLen(tok, eof)] :
      old \in MCOld, tok \in MCTokens, eof \in BOOLEAN}
  \cup {[buf |-> old, len |-> 0] : old \in MCOld}
=============================================================================
