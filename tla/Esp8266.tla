------------------------------ MODULE Esp8266 ------------------------------
(***************************************************************************)
(* The ESP8266 wrapper: a table of connections that the callbacks of the   *)
(* SDK (espconn, external) fill and clear.  A callback runs to its end     *)
(* before the next one, so each is one action.                             *)
(*                                                                         *)
(* attoHTTPRecvcb hands attoHTTPExecute the address of its local pointer   *)
(* where attoHTTPGetByte takes the connection itself, so which of the      *)
(* packet's bytes are read is left open: ptr ends anywhere up to length.   *)
(*                                                                         *)
(* The search of attoHTTPConnectcb may end behind the table.  The entry    *)
(* there is MaxConn; it is memory of something else, and what its change   *)
(* does to the owner is left out.                                          *)
(***************************************************************************)
EXTENDS Integers, FiniteSets

CONSTANTS
  Conns,       \* the SDK's struct espconn's
  MaxConn,     \* ATTO_MAX_CONN
  MaxPacket,   \* bound on the length of a packet
  NoSlot       \* NULL in conn->reverse

Slots == 0..MaxConn - 1
Entries == 0..MaxConn      \* the table and the entry behind it

ASSUME Esp8266Assumption ==
  MaxConn \in Nat \ {0} /\ MaxPacket \in Nat /\ IsFiniteSet(Conns) /\ NoSlot \notin Int

VARIABLES
  espUp,       \* attoHTTPWrapperInit has been called
  active,      \* esp8266Connections[i].active
  length,      \* esp8266Connections[i].length
  ptr,         \* esp8266Connections[i].ptr
  reverse,     \* conn->reverse as an index of the table, or NoSlot
  live,        \* connections that are open in the SDK
  anyReset     \* a connection was reset (history, for the property)

espVars == <<espUp, active, length, ptr, reverse, live, anyReset>>

\* attoHTTPClearServerBuffer
ClearServerBuffer(i) ==
  /\ active' = [active EXCEPT ![i] = FALSE]
  /\ length' = [length EXCEPT ![i] = 0]
  /\ ptr' = [ptr EXCEPT ![i] = 0]

EspWrapperInit ==
  /\ ~espUp
  /\ espUp' = TRUE
  /\ active' = [i \in Entries |-> IF i \in Slots THEN FALSE ELSE active[i]]
  /\ length' = [i \in Entries |-> IF i \in Slots THEN 0 ELSE length[i]]
  /\ ptr' = [i \in Entries |-> IF i \in Slots THEN 0 ELSE ptr[i]]
  /\ UNCHANGED <<reverse, live, anyReset>>

\* Where the search for a free slot stops: behind the table if there is none.
FirstFree ==
  IF \E i \in Slots : ~active[i]
  THEN CHOOSE i \in Slots : ~active[i] /\ \A j \in 0..i - 1 : active[j]
  ELSE MaxConn

\* The SDK admits a connection while fewer than the number given to
\* espconn_tcp_set_max_con_allow are open.
Admitted(conn) ==
  /\ espUp
  /\ conn \notin live
  /\ Cardinality(live) < MaxConn

Connectcb(conn) ==
  /\ Admitted(conn)
  /\ IF FirstFree > MaxConn
     THEN reverse' = [reverse EXCEPT ![conn] = NoSlot] /\ UNCHANGED <<active, live>>
     ELSE /\ reverse' = [reverse EXCEPT ![conn] = FirstFree]
          /\ active' = [active EXCEPT ![FirstFree] = TRUE]
          /\ live' = live \cup {conn}
  /\ UNCHANGED <<espUp, length, ptr, anyReset>>

\* A packet, which may come late, when the connection is gone.
Recvcb(conn, len) ==
  /\ reverse[conn] # NoSlot
  /\ length' = [length EXCEPT ![reverse[conn]] = len]
  /\ \E p \in 0..len : ptr' = [ptr EXCEPT ![reverse[conn]] = p]
  /\ UNCHANGED <<espUp, active, reverse, live, anyReset>>

KeepsReverse(conn) ==
  /\ conn \in live
  /\ IF reverse[conn] # NoSlot THEN ClearServerBuffer(reverse[conn])
     ELSE UNCHANGED <<active, length, ptr>>
  /\ live' = live \ {conn}
  /\ UNCHANGED <<espUp, reverse, anyReset>>
Disconnectcb(conn) ==
  /\ conn \in live
  /\ IF reverse[conn] # NoSlot THEN ClearServerBuffer(reverse[conn])
     ELSE UNCHANGED <<active, length, ptr>>
  /\ live' = live \ {conn}
  /\ reverse' = [reverse EXCEPT ![conn] = NoSlot]
  /\ UNCHANGED <<espUp, anyReset>>

\* The SDK ends a connection that is reset, or gets no answer, with the
\* reconnect callback, which attoHTTPConnectcb does not register: the wrapper
\* does nothing.
ConnectionReset(conn) ==
  /\ conn \in live
  /\ live' = live \ {conn} /\ anyReset' = TRUE
  /\ UNCHANGED <<espUp, active, length, ptr, reverse>>

-----------------------------------------------------------------------------
\* Static memory is zero before attoHTTPWrapperInit.
EspInit ==
  /\ espUp = FALSE
  /\ active = [i \in Entries |-> FALSE]
  /\ length = [i \in Entries |-> 0]
  /\ ptr = [i \in Entries |-> 0]
  /\ reverse = [conn \in Conns |-> NoSlot]
  /\ live = {} /\ anyReset = FALSE

EspNext ==
  \/ EspWrapperInit
  \/ \E conn \in Conns : Connectcb(conn) \/ Disconnectcb(conn)
                          \/ ConnectionReset(conn)
  \/ \E conn \in Conns, len \in 1..MaxPacket : Recvcb(conn, len)

EspSpec == EspInit /\ [][EspNext]_espVars

-----------------------------------------------------------------------------
(* Types of the table and of what the SDK keeps.                           *)
EspTypeOK ==
  /\ espUp \in BOOLEAN
  /\ active \in [Entries -> BOOLEAN]
  /\ length \in [Entries -> 0..MaxPacket] /\ ptr \in [Entries -> 0..MaxPacket]
  /\ reverse \in [Conns -> Entries \cup {NoSlot}]
  /\ live \subseteq Conns /\ anyReset \in BOOLEAN

(* A connection that is told a slot of the table has it alone, marked in   *)
(* use, for good if it is reset: no packet, late ones included, lands in   *)
(* the slot of another.  Only once a connection was reset, which leaves    *)
(* its slot in use, can one be told the entry behind the table (the test   *)
(* of attoHTTPConnectcb for a full table is never true): in all orders of  *)
(* the other callbacks a connection that is admitted finds a free slot.    *)
SlotsOwned ==
  \A c \in Conns : reverse[c] # NoSlot =>
    \/ /\ reverse[c] \in Slots /\ active[reverse[c]]
       /\ \A d \in Conns : d # c => reverse[d] # reverse[c]
    \/ reverse[c] = MaxConn /\ anyReset
=============================================================================
