------------------------------ MODULE Wrappers ------------------------------
(***************************************************************************)
(* The wrapper layer: a program is built with one of the wrappers that     *)
(* serve one client at a time, or with the one for the ESP8266.            *)
(***************************************************************************)
EXTENDS Sockets, Esp8266

VARIABLE build     \* "sockets" or "esp8266"

vars == <<build, socketVars, espVars>>

Init ==
  /\ SocketsInit /\ EspInit
  /\ \/ build = "sockets"
     \/ build = "esp8266" /\ platform = "unix" /\ stdin

Next ==
  \/ build = "sockets" /\ SocketsNext /\ UNCHANGED <<build, espVars>>
  \/ build = "esp8266" /\ EspNext /\ UNCHANGED <<build, socketVars>>

FairSpec == Init /\ [][Next]_vars /\ SocketsFairness

(* Types of the state of both.                                             *)
TypeOK == build \in {"sockets", "esp8266"} /\ SocketsTypeOK /\ EspTypeOK
=============================================================================
