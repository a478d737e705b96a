-------------------------- MODULE MCRequestParser --------------------------
(***************************************************************************)
(* Small instances of RequestParser.  The bytes its loops do not tell      *)
(* apart are one, "/", which is also a method that is supported; every     *)
(* buffer is small enough to overflow within MaxInput bytes.               *)
(***************************************************************************)
EXTENDS RequestParser

MCSupported == { <<"/">> }
MCBytes == {"sp", "\n", "\r", "/", ":", "?"}
MCGarbage == {NUL, "\n", "/"}
MCFewGarbage == {NUL, "/"}
MCError == {-1}
MCAnyFail == {0, -1}
=============================================================================
