------------------------------ MODULE Helpers ------------------------------
(***************************************************************************)
(* The two loops of attohttp.c that neither read nor write: the one that   *)
(* splits a URL into levels and the ones of Base64.  They share nothing,   *)
(* and a behaviour runs one of them.                                       *)
(***************************************************************************)
EXTENDS MCApiLevels, Base64

VARIABLE helper    \* "levels" or "base64"

helperVars == <<helper, vars, base64Vars>>

FixedInput == input = <<>> /\ olen = 1
FixedUrl == request.len = 0 /\ request.buf[0] = NUL

HelpersInit ==
  /\ Init /\ Base64Init
  /\ \/ helper = "levels" /\ FixedInput
     \/ helper = "base64" /\ FixedUrl

HelpersNext ==
  /\ UNCHANGED helper
  /\ \/ helper = "levels" /\ Next /\ UNCHANGED base64Vars
     \/ helper = "base64" /\ Base64Next /\ UNCHANGED vars

HelpersSpec == HelpersInit /\ [][HelpersNext]_helperVars
=============================================================================
