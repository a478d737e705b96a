--------------------------- MODULE WrappersProofs ---------------------------
(***************************************************************************)
(* Proofs about Wrappers, for every number of clients, descriptors and     *)
(* connections and every length of the queues.                             *)
(***************************************************************************)
EXTENDS Wrappers, FiniteSetTheorems, WellFoundedInduction, TLAPS

(***************************************************************************)
(* The inductive invariant of the ESP8266 wrapper.  SlotsOwned alone does  *)
(* not keep the search for a slot inside the table while no connection was *)
(* reset: that takes the number of open connections, which the SDK bounds, *)
(* and that every slot in use belongs to one of them.                      *)
(***************************************************************************)
UsedByLive ==
  ~anyReset => \A i \in Slots : active[i] => \E c \in live : reverse[c] = i
LiveHasSlot == \A c \in live : reverse[c] # NoSlot
HasSlotIsLive == ~anyReset => \A c \in Conns : reverse[c] # NoSlot => c \in live
DownIsEmpty == ~espUp => live = {} /\ \A c \in Conns : reverse[c] = NoSlot
EspInv ==
  EspTypeOK /\ SlotsOwned /\ UsedByLive /\ LiveHasSlot /\ HasSlotIsLive /\ DownIsEmpty

(* A set of natural numbers below n that is not empty has a least element: *)
(* of the intervals that end at its elements, one contains no other.       *)
LEMMA LeastNumber ==
  ASSUME NEW n \in Nat, NEW T, T \subseteq 0..n, T # {}
  PROVE  \E x \in T : \A y \in T : x <= y
<1> DEFINE S == 0..n
           R == StrictSubsetOrdering(S)
           I == {0..x : x \in T}
<1>1. IsFiniteSet(S)
  BY FS_Interval
<1>2. IsWellFoundedOn(R, SUBSET S)
  BY <1>1, FS_StrictSubsetOrderingWellFounded, FS_FiniteSubsetsOfFinite, Zenon
<1>3. I \subseteq SUBSET S /\ I # {}
  <2>1. \A x \in T : 0..x \subseteq S
    OBVIOUS
  <2>2. PICK x \in T : TRUE
    OBVIOUS
  <2>3. 0..x \in I
    OBVIOUS
  <2> HIDE DEF S
  <2> QED
    BY <2>1, <2>3, Zenon
<1>4. PICK A \in I : \A B \in I : ~(<<B, A>> \in R)
  <2> HIDE DEF S, R, I
  <2> QED
    BY <1>2, <1>3, WFMin, Zenon
<1>5. PICK x \in T : A = 0..x
  BY <1>4
<1>6. ASSUME NEW y \in T PROVE x <= y
  <2>1. 0..y \in I /\ <<0..y, 0..x>> \in (SUBSET S) \X (SUBSET S)
    OBVIOUS
  <2>2. ~(0..y \subseteq 0..x /\ 0..y # 0..x)
    BY <1>4, <1>5, <2>1 DEF StrictSubsetOrdering
  <2>3. x \in Nat /\ y \in Nat
    OBVIOUS
  <2>4. CASE y < x
    <3>1. 0..y \subseteq 0..x
      BY <2>3, <2>4
    <3>2. x \in 0..x /\ x \notin 0..y
      BY <2>3, <2>4
    <3> QED
      BY <2>2, <3>1, <3>2
  <2> QED
    BY <2>3, <2>4
<1> QED
  BY <1>6

LEMMA Constants ==
  /\ MaxConn \in Nat /\ MaxConn > 0 /\ MaxPacket \in Nat
  /\ IsFiniteSet(Conns) /\ NoSlot \notin Int
  /\ NoSlot \notin Entries /\ MaxConn \notin Slots
  /\ Entries = Slots \cup {MaxConn}
  /\ IsFiniteSet(Slots) /\ Cardinality(Slots) = MaxConn
<1>1. MaxConn \in Nat /\ MaxConn > 0 /\ MaxPacket \in Nat
      /\ IsFiniteSet(Conns) /\ NoSlot \notin Int
  BY Esp8266Assumption
<1>2. IsFiniteSet(Slots) /\ Cardinality(Slots) = MaxConn
  BY <1>1, FS_Interval DEF Slots
<1> QED
  BY <1>1, <1>2 DEF Slots, Entries

(* While the SDK admits another connection and none was reset, the table   *)
(* has a free slot: if all were in use, two of them would belong to one    *)
(* connection.                                                             *)
LEMMA FreeSlot ==
  ASSUME EspInv, ~anyReset, Cardinality(live) < MaxConn
  PROVE  \E i \in Slots : ~active[i]
<1> SUFFICES ASSUME \A i \in Slots : active[i] PROVE FALSE
  OBVIOUS
<1> DEFINE f == [i \in Slots |-> CHOOSE c \in live : reverse[c] = i]
<1>1. \A i \in Slots : f[i] \in live /\ reverse[f[i]] = i
  BY DEF EspInv, UsedByLive
<1>2. f \in [Slots -> live]
  BY <1>1
<1>3. IsFiniteSet(live)
  BY Constants, FS_Subset DEF EspInv, EspTypeOK
<1>4. Cardinality(live) < Cardinality(Slots)
  BY Constants
<1> HIDE DEF f
<1>5. \E x, y \in Slots : x # y /\ f[x] = f[y]
  BY <1>2, <1>3, <1>4, Constants, FS_PigeonHole
<1> QED
  BY <1>1, <1>5

(* The search of attoHTTPConnectcb stops at a free slot if there is one.   *)
LEMMA FirstFreeIsFree ==
  ASSUME \E i \in Slots : ~active[i]
  PROVE  FirstFree \in Slots /\ ~active[FirstFree]
<1> DEFINE free == {i \in Slots : ~active[i]}
<1>1. free \subseteq 0..MaxConn /\ free # {}
  BY Constants DEF Slots
<1>2. PICK x \in free : \A y \in free : x <= y
  BY <1>1, LeastNumber, Constants
<1>3. \A j \in 0..x - 1 : active[j]
  <2> TAKE j \in 0..x - 1
  <2>1. j \in Slots /\ ~(x <= j)
    BY <1>2, Constants DEF Slots
  <2> QED
    BY <1>2, <2>1
<1>4. x \in Slots /\ ~active[x] /\ \A j \in 0..x - 1 : active[j]
  BY <1>2, <1>3
<1> HIDE DEF free
<1>5. FirstFree = CHOOSE i \in Slots : ~active[i] /\ \A j \in 0..i - 1 : active[j]
  BY <1>4 DEF FirstFree
<1> QED
  BY <1>4, <1>5

(* Where the search stops: at a free slot, or, once a connection was       *)
(* reset, behind the table.                                                *)
LEMMA SearchStops ==
  ASSUME EspInv, Cardinality(live) < MaxConn
  PROVE  \/ FirstFree \in Slots /\ ~active[FirstFree]
         \/ FirstFree = MaxConn /\ anyReset
<1>1. CASE \E i \in Slots : ~active[i]
  BY <1>1, FirstFreeIsFree
<1>2. CASE ~\E i \in Slots : ~active[i]
  <2>1. anyReset
    BY <1>2, FreeSlot
  <2>2. FirstFree = MaxConn
    BY <1>2, Zenon DEF FirstFree
  <2> QED
    BY <2>1, <2>2
<1> QED
  BY <1>1, <1>2

LEMMA ConnectcbKeeps ==
  ASSUME EspInv, NEW conn \in Conns, Connectcb(conn)
  PROVE  EspInv'
<1> DEFINE s == FirstFree
<1>1. /\ (s \in Slots /\ ~active[s]) \/ (s = MaxConn /\ anyReset)
      /\ conn \notin live /\ espUp
  BY SearchStops DEF Connectcb, Admitted
<1>2. s \in Entries /\ ~(s > MaxConn)
  BY <1>1, Constants DEF Slots
<1>3. /\ reverse' = [reverse EXCEPT ![conn] = s]
      /\ active' = [active EXCEPT ![s] = TRUE]
      /\ live' = live \cup {conn}
      /\ UNCHANGED <<espUp, length, ptr, anyReset>>
  BY <1>2 DEF Connectcb
<1> HIDE DEF s
<1>4. EspTypeOK'
  BY <1>2, <1>3 DEF EspInv, EspTypeOK
<1>5. SlotsOwned'
  BY <1>1, <1>2, <1>3, Constants DEF EspInv, EspTypeOK, SlotsOwned
<1>6. UsedByLive'
  BY <1>1, <1>2, <1>3, Constants DEF EspInv, EspTypeOK, UsedByLive, HasSlotIsLive
<1>7. LiveHasSlot' /\ HasSlotIsLive'
  BY <1>2, <1>3, Constants DEF EspInv, EspTypeOK, LiveHasSlot, HasSlotIsLive
<1>8. DownIsEmpty'
  BY <1>1, <1>3 DEF DownIsEmpty
<1> QED
  BY <1>4, <1>5, <1>6, <1>7, <1>8 DEF EspInv

LEMMA DisconnectcbKeeps ==
  ASSUME EspInv, NEW conn \in Conns, Disconnectcb(conn)
  PROVE  EspInv'
<1> DEFINE s == reverse[conn]
<1>1. conn \in live /\ s # NoSlot /\ s \in Entries
  BY DEF EspInv, EspTypeOK, LiveHasSlot, Disconnectcb
<1>2. /\ reverse' = [reverse EXCEPT ![conn] = NoSlot]
      /\ active' = [active EXCEPT ![s] = FALSE]
      /\ length' = [length EXCEPT ![s] = 0] /\ ptr' = [ptr EXCEPT ![s] = 0]
      /\ live' = live \ {conn}
      /\ UNCHANGED <<espUp, anyReset>>
  BY <1>1 DEF Disconnectcb, ClearServerBuffer
<1>3. s \in Slots => \A c \in Conns : c # conn => reverse[c] # s
  BY <1>1, Constants DEF EspInv, SlotsOwned
<1> HIDE DEF s
<1>4. EspTypeOK'
  BY <1>1, <1>2, Constants DEF EspInv, EspTypeOK
<1>5. SlotsOwned'
  BY <1>1, <1>2, <1>3, Constants DEF EspInv, EspTypeOK, SlotsOwned
<1>6. UsedByLive'
  BY <1>1, <1>2, <1>3, Constants DEF EspInv, EspTypeOK, UsedByLive, s
<1>7. LiveHasSlot' /\ HasSlotIsLive'
  BY <1>1, <1>2, Constants DEF EspInv, EspTypeOK, LiveHasSlot, HasSlotIsLive
<1>8. DownIsEmpty'
  BY <1>1, <1>2 DEF EspInv, DownIsEmpty
<1> QED
  BY <1>4, <1>5, <1>6, <1>7, <1>8 DEF EspInv

(* A reset changes nothing of the table; it ends what is known of who      *)
(* uses it.                                                                *)
LEMMA ConnectionResetKeeps ==
  ASSUME EspInv, NEW conn \in Conns, ConnectionReset(conn)
  PROVE  EspInv'
<1>1. /\ live' = live \ {conn} /\ anyReset' = TRUE
      /\ UNCHANGED <<espUp, active, length, ptr, reverse>>
  BY DEF ConnectionReset
<1>2. EspTypeOK'
  BY <1>1 DEF EspInv, EspTypeOK
<1>3. SlotsOwned'
  BY <1>1 DEF EspInv, SlotsOwned
<1>4. UsedByLive' /\ LiveHasSlot' /\ HasSlotIsLive' /\ DownIsEmpty'
  BY <1>1 DEF EspInv, UsedByLive, LiveHasSlot, HasSlotIsLive, DownIsEmpty
<1> QED
  BY <1>2, <1>3, <1>4 DEF EspInv

LEMMA RecvcbKeeps ==
  ASSUME EspInv, NEW conn \in Conns, NEW len \in 1..MaxPacket, Recvcb(conn, len)
  PROVE  EspInv'
<1>1. reverse[conn] \in Entries
  BY DEF Recvcb, EspInv, EspTypeOK
<1>2. PICK p \in 0..len : ptr' = [ptr EXCEPT ![reverse[conn]] = p]
  BY DEF Recvcb
<1>3. p \in 0..MaxPacket /\ len \in 0..MaxPacket
  BY Constants
<1>4. EspTypeOK'
  BY <1>1, <1>2, <1>3 DEF EspInv, EspTypeOK, Recvcb
<1>5. SlotsOwned' /\ UsedByLive' /\ LiveHasSlot' /\ HasSlotIsLive' /\ DownIsEmpty'
  BY DEF EspInv, SlotsOwned, UsedByLive, LiveHasSlot, HasSlotIsLive, DownIsEmpty, Recvcb
<1> QED
  BY <1>4, <1>5 DEF EspInv

LEMMA EspWrapperInitKeeps ==
  ASSUME EspInv, EspWrapperInit
  PROVE  EspInv'
<1>1. live = {} /\ \A c \in Conns : reverse[c] = NoSlot
  BY DEF EspInv, DownIsEmpty, EspWrapperInit
<1>2. EspTypeOK'
  <2>1. /\ active \in [Entries -> BOOLEAN] /\ reverse \in [Conns -> Entries \cup {NoSlot}]
        /\ length \in [Entries -> 0..MaxPacket] /\ ptr \in [Entries -> 0..MaxPacket]
        /\ live \subseteq Conns /\ anyReset \in BOOLEAN
    BY DEF EspInv, EspTypeOK
  <2>2. espUp' = TRUE /\ UNCHANGED <<reverse, live, anyReset>>
    BY DEF EspWrapperInit
  <2>3. active' \in [Entries -> BOOLEAN]
    BY <2>1 DEF EspWrapperInit
  <2>4. length' \in [Entries -> 0..MaxPacket] /\ ptr' \in [Entries -> 0..MaxPacket]
    BY <2>1, Constants DEF EspWrapperInit
  <2> QED
    BY <2>1, <2>2, <2>3, <2>4 DEF EspTypeOK
<1>3. /\ UNCHANGED <<reverse, live, anyReset>> /\ espUp'
      /\ \A i \in Slots : ~active'[i]
  BY Constants DEF EspWrapperInit
<1>4. SlotsOwned' /\ UsedByLive' /\ LiveHasSlot' /\ HasSlotIsLive' /\ DownIsEmpty'
  BY <1>1, <1>3 DEF SlotsOwned, UsedByLive, LiveHasSlot, HasSlotIsLive, DownIsEmpty
<1> QED
  BY <1>2, <1>4 DEF EspInv

LEMMA EspInitHolds == EspInit => EspInv
<1> SUFFICES ASSUME EspInit PROVE EspInv
  OBVIOUS
<1>1. EspTypeOK
  <2>1. espUp \in BOOLEAN /\ anyReset \in BOOLEAN /\ active \in [Entries -> BOOLEAN]
    BY Zenon DEF EspInit
  <2>2. length \in [Entries -> 0..MaxPacket] /\ ptr \in [Entries -> 0..MaxPacket]
    BY Constants DEF EspInit
  <2>3. reverse \in [Conns -> Entries \cup {NoSlot}] /\ live \subseteq Conns
    BY DEF EspInit
  <2> QED
    BY <2>1, <2>2, <2>3 DEF EspTypeOK
<1>2. SlotsOwned /\ UsedByLive /\ LiveHasSlot /\ HasSlotIsLive /\ DownIsEmpty
  BY Constants DEF EspInit, SlotsOwned, UsedByLive, LiveHasSlot, HasSlotIsLive, DownIsEmpty
<1> QED
  BY <1>1, <1>2 DEF EspInv

LEMMA EspNextKeeps == EspInv /\ [EspNext]_espVars => EspInv'
<1> SUFFICES ASSUME EspInv, [EspNext]_espVars PROVE EspInv'
  OBVIOUS
<1>1. CASE EspWrapperInit
  BY <1>1, EspWrapperInitKeeps
<1>2. ASSUME NEW conn \in Conns, Connectcb(conn) PROVE EspInv'
  BY <1>2, ConnectcbKeeps
<1>3. ASSUME NEW conn \in Conns, Disconnectcb(conn) PROVE EspInv'
  BY <1>3, DisconnectcbKeeps
<1>4. ASSUME NEW conn \in Conns, NEW len \in 1..MaxPacket, Recvcb(conn, len)
      PROVE EspInv'
  BY <1>4, RecvcbKeeps
<1>5. CASE UNCHANGED espVars
  BY <1>5 DEF espVars, EspInv, EspTypeOK, SlotsOwned, UsedByLive, LiveHasSlot,
     HasSlotIsLive, DownIsEmpty
<1>6. ASSUME NEW conn \in Conns, ConnectionReset(conn) PROVE EspInv'
  BY <1>6, ConnectionResetKeeps
<1> QED
  BY <1>1, <1>2, <1>3, <1>4, <1>5, <1>6 DEF EspNext

(***************************************************************************)
(* Whatever the size of the table and the order of the callbacks, late     *)
(* packets and resets included, a connection with a slot of the table has  *)
(* it alone, and attoHTTPConnectcb, whose test for a full table can never  *)
(* be true, goes behind the table only once a connection was reset.        *)
(***************************************************************************)
THEOREM ConnectionsOwnSlots == EspSpec => [](EspTypeOK /\ SlotsOwned)
<1>1. EspInv => EspTypeOK /\ SlotsOwned
  BY DEF EspInv
<1> QED
  BY <1>1, EspInitHolds, EspNextKeeps, PTL DEF EspSpec

(***************************************************************************)
(* The inductive invariant of the wrappers that serve one client: which    *)
(* descriptors are open at every step.  The two sockets are descriptors    *)
(* that were free when they were made, so closing one closes nothing else, *)
(* and on Windows each client leaves one more behind.                      *)
(***************************************************************************)
Serving == pc \in {"execute", "get", "set"}
Listening == up \/ pc = "bind"

SocketIsOwn ==
  Listening => sock \in Fds /\ sock \notin Inherited
ClientIsOwn ==
  Serving => newSock \in Fds /\ newSock \notin Inherited \cup {sock} /\ client \in Clients
Held ==
  Inherited \cup (IF Listening THEN {sock} ELSE {})
            \cup (IF Serving THEN {newSock} ELSE {})
Left == fds \ Held
DescriptorsAre ==
  pc # "exit" =>
    Held \subseteq fds /\ Cardinality(Left) = IF On("win32") THEN served ELSE 0
StageOfSocket ==
  /\ pc \in {"select", "execute", "get", "set"} => up
  /\ pc = "bind" => ~up /\ platform = "unix" /\ tries < BindTries
  /\ pc = "app" /\ platform = "unix" /\ ~up => sock = -1
SocketsInv ==
  SocketsTypeOK /\ SocketIsOwn /\ ClientIsOwn /\ DescriptorsAre /\ StageOfSocket

LEMMA SocketConstants ==
  /\ Platforms \subseteq {"unix", "win32", "particle"}
  /\ MaxFd \in Nat /\ Backlog \in Nat /\ MaxOps \in Nat
  /\ BindTries \in Nat /\ BindTries >= 1 /\ None \notin Clients
  /\ -1 \notin Fds /\ 0 \in Fds /\ IsFiniteSet(Fds)
BY SocketsAssumption, FS_Interval DEF Fds

(* What is left open stays the same where nothing else than what is held   *)
(* is opened or closed.                                                    *)
LEMMA LeftStays ==
  ASSUME DescriptorsAre, pc # "exit", UNCHANGED <<platform, served>>,
         Held' \subseteq fds', Left' = Left
  PROVE  DescriptorsAre'
BY DEF DescriptorsAre, On

(* A new socket is outside of what is held, and adds to it.                *)
LEMMA HeldBefore ==
  ASSUME SocketsInv, pc \in {"app", "select"}
  PROVE  Held = Inherited \cup (IF up THEN {sock} ELSE {}) /\ Held \subseteq fds
<1>1. Held = Inherited \cup (IF up THEN {sock} ELSE {})
  BY DEF Held, Listening, Serving
<1>2. Held \subseteq fds
  BY DEF SocketsInv, DescriptorsAre
<1> QED
  BY <1>1, <1>2

-----------------------------------------------------------------------------
(* Init calls: the listening socket is made, bound and opened.             *)
LEMMA OpenedKeeps ==
  ASSUME SocketsInv, pc = "app", up = FALSE, Opened,
         \/ pc' = "bind" /\ up' = FALSE /\ platform = "unix" /\ tries' = 0
         \/ pc' = "app" /\ up' = TRUE /\ tries' = tries,
         UNCHANGED <<platform, newSock, client, ops, ret, stdin, served, queue, peer>>
  PROVE  SocketsInv'
<1>1. PICK f \in Fds : f \notin fds /\ fds' = fds \cup {f} /\ sock' = f
  BY DEF Opened, Free
<1>2. Held = Inherited /\ Inherited \subseteq fds
  BY HeldBefore
<1>3. Held' = Inherited \cup {f}
  BY <1>1 DEF Held, Listening, Serving, Inherited
<1>4. SocketsTypeOK'
  <2>1. tries' \in 0..BindTries
    BY SocketConstants DEF SocketsInv, SocketsTypeOK
  <2> QED
    BY <1>1, <2>1 DEF SocketsInv, SocketsTypeOK
<1>5. SocketIsOwn' /\ ClientIsOwn' /\ StageOfSocket'
  BY <1>1, <1>2, SocketConstants
  DEF SocketIsOwn, ClientIsOwn, StageOfSocket, Listening, Serving, Inherited
<1>6. DescriptorsAre'
  <2>1. Held' \subseteq fds' /\ Left' = Left
    BY <1>1, <1>2, <1>3 DEF Left
  <2> QED
    BY <2>1, LeftStays DEF SocketsInv
<1> QED
  BY <1>4, <1>5, <1>6 DEF SocketsInv

(* The process ends.                                                       *)
LEMMA ExitKeeps ==
  ASSUME SocketsInv, pc' = "exit", pc # "bind" \/ up = FALSE,
         sock' \in {sock, -1}, sock' = sock \/ up = FALSE, fds' \subseteq fds,
         tries' \in 0..BindTries,
         UNCHANGED <<platform, up, newSock, client, ops, ret, stdin, served, queue, peer>>
  PROVE  SocketsInv'
<1>1. SocketsTypeOK'
  BY DEF SocketsInv, SocketsTypeOK
<1>2. SocketIsOwn'
  BY DEF SocketsInv, SocketIsOwn, Listening, Inherited
<1>3. ClientIsOwn' /\ DescriptorsAre' /\ StageOfSocket'
  BY DEF ClientIsOwn, DescriptorsAre, StageOfSocket, Serving
<1> QED
  BY <1>1, <1>2, <1>3 DEF SocketsInv

LEMMA UnixSocketKeeps == ASSUME SocketsInv, UnixSocket PROVE SocketsInv'
<1>1. /\ platform = "unix" /\ pc = "app" /\ up = FALSE
      /\ UNCHANGED <<platform, up, newSock, client, ops, ret, stdin, served, queue, peer>>
  BY DEF UnixSocket, On, SocketsInv, SocketsTypeOK
<1>2. CASE pc' = "bind" /\ Opened /\ tries' = 0
  BY <1>1, <1>2, OpenedKeeps
<1>3. CASE Exit /\ sock' = -1 /\ UNCHANGED <<fds, tries>>
  <2>1. tries' \in 0..BindTries
    BY <1>3 DEF SocketsInv, SocketsTypeOK
  <2> QED
    BY <1>1, <1>3, <2>1, ExitKeeps DEF Exit
<1> QED
  BY <1>2, <1>3 DEF UnixSocket

LEMMA UnixBindKeeps ==
  ASSUME SocketsInv, UnixBindFails \/ UnixListen
  PROVE  SocketsInv'
<1>1. /\ platform = "unix" /\ pc = "bind" /\ up = FALSE /\ tries < BindTries
      /\ tries \in Nat
      /\ UNCHANGED <<platform, newSock, client, ops, ret, stdin, served, queue, peer>>
  BY DEF UnixBindFails, UnixListen, On, SocketsInv, SocketsTypeOK, StageOfSocket
<1>2. CASE pc' = "exit"
  <2>1. UnixWrapperEnd /\ up' = up /\ tries' \in 0..BindTries
    BY <1>1, <1>2, SocketConstants DEF UnixBindFails, UnixListen, BindsAgain, Exit
  <2> QED
    BY <1>1, <1>2, <2>1, ExitKeeps DEF UnixWrapperEnd
<1>3. CASE pc' = "bind"
  <2>1. UNCHANGED <<pc, fds, sock, up>> /\ tries' \in 0..BindTries /\ tries' < BindTries
    BY <1>1, <1>3, SocketConstants DEF UnixBindFails, UnixListen, BindsAgain, Exit
  <2>2. SocketsTypeOK'
    BY <1>1, <2>1 DEF SocketsInv, SocketsTypeOK
  <2>3. SocketIsOwn' /\ ClientIsOwn' /\ DescriptorsAre' /\ StageOfSocket'
    BY <1>1, <2>1
    DEF SocketsInv, SocketIsOwn, ClientIsOwn, DescriptorsAre, StageOfSocket,
        Listening, Serving, Held, Left, Inherited, On
  <2> QED
    BY <2>2, <2>3 DEF SocketsInv
<1>4. CASE pc' = "app"
  <2>1. up' = TRUE /\ UNCHANGED <<fds, sock, tries>>
    BY <1>1, <1>4, SocketConstants DEF UnixBindFails, UnixListen, Exit
  <2>2. SocketsTypeOK'
    BY <1>1, <1>4, <2>1 DEF SocketsInv, SocketsTypeOK
  <2>3. SocketIsOwn' /\ ClientIsOwn' /\ DescriptorsAre' /\ StageOfSocket'
    BY <1>1, <1>4, <2>1
    DEF SocketsInv, SocketIsOwn, ClientIsOwn, DescriptorsAre, StageOfSocket,
        Listening, Serving, Held, Left, Inherited, On
  <2> QED
    BY <2>2, <2>3 DEF SocketsInv
<1> QED
  BY <1>1, <1>2, <1>3, <1>4 DEF UnixBindFails, UnixListen, Exit

LEMMA OtherInitKeeps ==
  ASSUME SocketsInv, Win32WrapperInit \/ ParticleWrapperInit
  PROVE  SocketsInv'
<1>1. /\ pc = "app" /\ up = FALSE
      /\ UNCHANGED <<platform, tries, newSock, client, ops, ret, stdin, served, queue, peer>>
  BY DEF Win32WrapperInit, ParticleWrapperInit, Going, SocketsInv, SocketsTypeOK
<1>2. CASE Opened /\ pc' = "app" /\ up' = TRUE
  BY <1>1, <1>2, OpenedKeeps
<1>3. CASE Exit /\ UNCHANGED <<up, fds, sock>>
  <2>1. tries' \in 0..BindTries
    BY <1>1 DEF SocketsInv, SocketsTypeOK
  <2> QED
    BY <1>1, <1>3, <2>1, ExitKeeps DEF Exit
<1>4. \/ Opened /\ pc' = "app" /\ up' = TRUE
      \/ Exit /\ UNCHANGED <<up, fds, sock>>
  BY Zenon DEF Win32WrapperInit, ParticleWrapperInit, Going
<1> QED
  BY <1>2, <1>3, <1>4, Zenon

-----------------------------------------------------------------------------
(* Waiting for a client, and serving it.                                   *)
LEMMA MainKeeps ==
  ASSUME SocketsInv, UnixWrapperMain \/ Win32WrapperMain \/ SelectInterrupted
  PROVE  SocketsInv'
<1>1. /\ pc \in {"app", "select"} /\ pc' \in {"app", "select"}
      /\ UNCHANGED <<wrapperVars, systemVars>>
  BY DEF UnixWrapperMain, Win32WrapperMain, SelectInterrupted, Going
<1>2. up
  <2>1. CASE UnixWrapperMain
    BY <2>1 DEF UnixWrapperMain, MainHasSocket, Going, On, SocketsInv, StageOfSocket,
       SocketsTypeOK
  <2>2. CASE Win32WrapperMain \/ SelectInterrupted
    BY <2>2 DEF Win32WrapperMain, SelectInterrupted, Going, SocketsInv, StageOfSocket
  <2> QED
    BY <2>1, <2>2
<1>3. SocketsTypeOK'
  BY <1>1 DEF SocketsInv, SocketsTypeOK, wrapperVars, systemVars
<1>4. SocketIsOwn' /\ ClientIsOwn' /\ DescriptorsAre' /\ StageOfSocket'
  BY <1>1, <1>2 DEF SocketsInv, SocketIsOwn, ClientIsOwn, DescriptorsAre, StageOfSocket,
     Listening, Serving, Held, Left, Inherited, On, wrapperVars, systemVars
<1> QED
  BY <1>3, <1>4 DEF SocketsInv

LEMMA ServeOnKeeps ==
  ASSUME SocketsInv, pc \in {"app", "select"}, up, queue # <<>>,
         NEW f \in Fds, Free(f), ServeOn(f)
  PROVE  SocketsInv'
<1>1. Held = Inherited \cup {sock} /\ Held \subseteq fds /\ f \notin fds
  BY HeldBefore DEF Free
<1>2. queue \in Seq(Clients) /\ Len(queue) <= Backlog /\ Len(queue) \in Nat
  BY DEF SocketsInv, SocketsTypeOK
<1>3. Head(queue) \in Clients /\ Tail(queue) \in Seq(Clients) /\ Len(Tail(queue)) <= Backlog
  BY <1>2, SocketConstants
<1>4. /\ pc' = "execute" /\ fds' = fds \cup {f} /\ newSock' = f
      /\ client' = Head(queue) /\ queue' = Tail(queue) /\ ops' = 0 /\ ret' = 0
      /\ UNCHANGED <<platform, up, sock, tries, stdin, served, peer>>
  BY DEF ServeOn
<1>5. SocketsTypeOK'
  BY <1>3, <1>4, SocketConstants DEF SocketsInv, SocketsTypeOK
<1>6. SocketIsOwn' /\ ClientIsOwn' /\ StageOfSocket'
  BY <1>1, <1>3, <1>4
  DEF SocketsInv, SocketIsOwn, ClientIsOwn, StageOfSocket, Listening, Serving, Inherited
<1>7. DescriptorsAre'
  <2>1. Held' = Held \cup {f}
    BY <1>1, <1>4 DEF Held, Listening, Serving, Inherited
  <2>2. Held' \subseteq fds' /\ Left' = Left
    BY <1>1, <1>4, <2>1 DEF Left
  <2> QED
    BY <1>4, <2>2, LeftStays DEF SocketsInv
<1> QED
  BY <1>5, <1>6, <1>7 DEF SocketsInv

LEMMA AcceptKeeps ==
  ASSUME SocketsInv, UnixAccept \/ Win32Accept \/ ParticleWrapperMain
  PROVE  SocketsInv'
<1>1. /\ pc \in {"app", "select"} /\ Serve
      /\ pc = "select" \/ up
  BY Zenon DEF UnixAccept, Win32Accept, ParticleWrapperMain
<1>2. up /\ queue # <<>>
  BY <1>1 DEF SocketsInv, StageOfSocket, Serve
<1>3. CASE \E f \in Fds : Free(f) /\ ServeOn(f)
  BY <1>1, <1>2, <1>3, ServeOnKeeps
<1>4. CASE Exit /\ UNCHANGED <<wrapperVars, systemVars>>
  <2>1. tries' \in 0..BindTries
    BY <1>4 DEF SocketsInv, SocketsTypeOK, wrapperVars
  <2> QED
    BY <1>1, <1>4, <2>1, ExitKeeps DEF Exit, wrapperVars, systemVars
<1> QED
  BY <1>1, <1>3, <1>4 DEF Serve

(* Steps that neither open nor close a descriptor while a client is served.*)
LEMMA ServingKeeps ==
  ASSUME SocketsInv, Serving, Serving',
         UNCHANGED <<platform, up, sock, tries, newSock, client, stdin, fds, served, queue>>,
         ops' \in 0..MaxOps, ret' \in {-1, 0, 1},
         peer' \in [Clients -> {"up", "reset", "down"}]
  PROVE  SocketsInv'
<1>1. SocketsTypeOK'
  BY DEF SocketsInv, SocketsTypeOK, Serving
<1>2. SocketIsOwn' /\ ClientIsOwn' /\ DescriptorsAre' /\ StageOfSocket'
  BY DEF SocketsInv, SocketIsOwn, ClientIsOwn, DescriptorsAre, StageOfSocket,
         Listening, Serving, Held, Left, Inherited, On
<1> QED
  BY <1>1, <1>2 DEF SocketsInv

LEMMA CallKeeps ==
  ASSUME SocketsInv, CallByte \/ SetByte
  PROVE  SocketsInv'
<1>1. /\ Serving /\ Serving'
      /\ UNCHANGED <<platform, up, sock, tries, newSock, client, stdin, fds, served,
                     queue, ret, peer>>
      /\ ops' = ops \/ (ops < MaxOps /\ ops' = ops + 1)
  BY DEF CallByte, SetByte, Going, Serving, wrapperVars, systemVars
<1>2. ops' \in 0..MaxOps
  BY <1>1, SocketConstants DEF SocketsInv, SocketsTypeOK
<1>3. ret' \in {-1, 0, 1} /\ peer' \in [Clients -> {"up", "reset", "down"}]
  BY <1>1 DEF SocketsInv, SocketsTypeOK
<1> QED
  BY <1>1, <1>2, <1>3, ServingKeeps

LEMMA GetByteKeeps ==
  ASSUME SocketsInv, UnixGetByte \/ Win32GetByte \/ ParticleGetByte
  PROVE  SocketsInv'
<1>1. pc = "get"
  BY DEF UnixGetByte, Win32GetByte, ParticleGetByte
<1>2. /\ peer \in [Clients -> {"up", "reset", "down"}]
      /\ ops \in 0..MaxOps /\ ret \in {-1, 0, 1}
  BY DEF SocketsInv, SocketsTypeOK
<1>3. ASSUME NEW r \in {-1, 0, 1}, Got(r) PROVE SocketsInv'
  <2>1. /\ ret' = r /\ pc' = "execute"
        /\ UNCHANGED <<platform, up, sock, tries, newSock, client, ops, systemVars>>
    BY <1>3 DEF Got
  <2>2. Serving /\ Serving'
    BY <1>1, <2>1 DEF Serving
  <2> QED
    BY <1>2, <2>1, <2>2, ServingKeeps DEF systemVars
<1>4. CASE RecvError
  <2>1. /\ peer' = [peer EXCEPT ![client] = "down"]
        /\ UNCHANGED <<pc, wrapperVars, stdin, fds, served, queue>>
    BY <1>4 DEF RecvError
  <2>2. Serving /\ Serving'
    BY <1>1, <2>1 DEF Serving
  <2>3. /\ peer' \in [Clients -> {"up", "reset", "down"}]
        /\ ops' \in 0..MaxOps /\ ret' \in {-1, 0, 1}
    BY <1>2, <2>1 DEF wrapperVars
  <2> QED
    BY <2>1, <2>2, <2>3, ServingKeeps DEF wrapperVars
<1>5. RecvError \/ Got(0) \/ Got(1) \/ Got(-1)
  BY Zenon DEF UnixGetByte, Win32GetByte, ParticleGetByte, Recv
<1> QED
  BY <1>3, <1>4, <1>5

LEMMA CloseKeeps ==
  ASSUME SocketsInv, CloseClient
  PROVE  SocketsInv'
<1>1. /\ pc = "execute" /\ pc' = "app" /\ newSock' = -1 /\ client' = None
      /\ fds' = (IF On("win32") THEN fds ELSE fds \ {newSock})
      /\ served' = (IF On("win32") THEN served + 1 ELSE served)
      /\ UNCHANGED <<platform, up, sock, tries, ops, ret, stdin, queue, peer>>
  BY DEF CloseClient, Returns, Closes, Going
<1>2. /\ up /\ newSock \notin Inherited \cup {sock} /\ newSock \in Fds
      /\ Held = Inherited \cup {sock} \cup {newSock} /\ Held \subseteq fds
      /\ fds \subseteq Fds /\ served \in Nat
  BY <1>1 DEF SocketsInv, SocketsTypeOK, StageOfSocket, DescriptorsAre, ClientIsOwn,
     Held, Listening, Serving
<1>3. SocketsTypeOK'
  BY <1>1, <1>2 DEF SocketsInv, SocketsTypeOK
<1>4. SocketIsOwn' /\ ClientIsOwn' /\ StageOfSocket'
  BY <1>1, <1>2 DEF SocketsInv, SocketIsOwn, ClientIsOwn, StageOfSocket,
     Listening, Serving, Inherited
<1>5. Held' = Inherited \cup {sock}
  BY <1>1, <1>2 DEF Held, Listening, Serving, Inherited
<1>6. CASE ~On("win32")
  <2>1. Held' \subseteq fds' /\ Left' = Left
    BY <1>1, <1>2, <1>5, <1>6 DEF Left
  <2>2. DescriptorsAre'
    BY <1>1, <1>6, <2>1, LeftStays DEF SocketsInv
  <2> QED
    BY <1>3, <1>4, <2>2 DEF SocketsInv
<1>7. CASE On("win32")
  <2>1. Held' \subseteq fds' /\ newSock \notin Left /\ Left' = Left \cup {newSock}
    BY <1>1, <1>2, <1>5, <1>7 DEF Left
  <2>2. IsFiniteSet(Left)
    BY <1>2, FS_Subset, SocketConstants DEF Left
  <2>3. Cardinality(Left) = served
    BY <1>1, <1>7 DEF SocketsInv, DescriptorsAre
  <2>4. Cardinality(Left') = served + 1
    BY <2>1, <2>2, <2>3, FS_AddElement
  <2>5. DescriptorsAre'
    BY <1>1, <1>7, <2>1, <2>4 DEF DescriptorsAre, On
  <2> QED
    BY <1>3, <1>4, <2>5 DEF SocketsInv
<1> QED
  BY <1>6, <1>7

(* A call that fails for good ends the process.                            *)
LEMMA FailureKeeps ==
  ASSUME SocketsInv, SelectFails \/ AcceptFails
  PROVE  SocketsInv'
<1>1. /\ pc' = "exit" /\ pc # "bind" /\ fds' \subseteq fds
      /\ UNCHANGED <<wrapperVars, stdin, served, queue, peer>>
  BY DEF SelectFails, AcceptFails, Exit, Closes, systemVars
<1>2. tries' \in 0..BindTries
  BY <1>1 DEF SocketsInv, SocketsTypeOK, wrapperVars
<1> QED
  BY <1>1, <1>2, ExitKeeps DEF wrapperVars

LEMMA WrapperEndKeeps ==
  ASSUME SocketsInv, WrapperEnd
  PROVE  SocketsInv'
<1>1. /\ pc = "app" /\ pc' = "app" /\ up /\ up' = FALSE
      /\ fds' = (IF On("win32") THEN Inherited ELSE fds \ {sock})
      /\ served' = 0 /\ queue' = <<>>
      /\ sock' \in {sock, -1} /\ (platform = "unix" => sock' = -1)
      /\ UNCHANGED <<platform, tries, newSock, client, ops, ret, stdin, peer>>
  BY DEF WrapperEnd, Going, On, UnixWrapperEnd, Closes
<1>2. /\ Held = Inherited \cup {sock} /\ Held \subseteq fds /\ sock \notin Inherited
      /\ fds \subseteq Fds
  BY <1>1, HeldBefore DEF SocketsInv, SocketsTypeOK, SocketIsOwn, Listening
<1>3. SocketsTypeOK'
  <2>1. queue' \in Seq(Clients) /\ Len(queue') <= Backlog
    <3>1. <<>> \in Seq(Clients) /\ Len(<<>>) = 0
      OBVIOUS
    <3> QED
      BY <1>1, <3>1, SocketConstants
  <2>2. /\ sock' \in Fds \cup {-1} /\ fds' \subseteq Fds /\ up' \in BOOLEAN
        /\ served' \in Nat
        /\ pc' \in {"app", "bind", "select", "execute", "get", "set", "exit"}
    BY <1>1, <1>2 DEF SocketsInv, SocketsTypeOK
  <2> QED
    BY <1>1, <2>1, <2>2 DEF SocketsInv, SocketsTypeOK
<1>4. SocketIsOwn' /\ ClientIsOwn' /\ StageOfSocket'
  BY <1>1 DEF SocketIsOwn, ClientIsOwn, StageOfSocket, Listening, Serving
<1>5. Held' = Inherited
  BY <1>1 DEF Held, Listening, Serving, Inherited
<1>6. DescriptorsAre'
  <2>1. CASE On("win32")
    <3>1. Held' \subseteq fds' /\ Left' = {}
      BY <1>1, <1>5, <2>1 DEF Left
    <3> QED
      BY <1>1, <3>1, FS_EmptySet DEF DescriptorsAre
  <2>2. CASE ~On("win32")
    <3>1. Held' \subseteq fds' /\ Left' = Left
      BY <1>1, <1>2, <1>5, <2>2 DEF Left
    <3>2. Cardinality(Left) = 0
      BY <1>1, <2>2 DEF SocketsInv, DescriptorsAre
    <3> QED
      BY <1>1, <2>2, <3>1, <3>2 DEF DescriptorsAre, On
  <2> QED
    BY <2>1, <2>2
<1> QED
  BY <1>3, <1>4, <1>6 DEF SocketsInv

(* What clients do changes the queue and the connections only.             *)
LEMMA ClientKeeps ==
  ASSUME SocketsInv, NEW c \in Clients, Connect(c) \/ GoAway(c)
  PROVE  SocketsInv'
<1>1. UNCHANGED <<pc, wrapperVars, stdin, fds, served>>
  BY DEF Connect, GoAway
<1>2. queue \in Seq(Clients) /\ Len(queue) \in Nat /\ Len(queue) <= Backlog
  BY DEF SocketsInv, SocketsTypeOK
<1>3. queue' \in Seq(Clients) /\ Len(queue') <= Backlog
  <2>1. CASE Connect(c)
    <3>1. queue' = Append(queue, c) /\ Len(queue) < Backlog
      BY <2>1 DEF Connect
    <3> QED
      BY <1>2, <3>1, SocketConstants
  <2>2. CASE GoAway(c)
    BY <1>2, <2>2 DEF GoAway
  <2> QED
    BY <2>1, <2>2
<1>4. peer' \in [Clients -> {"up", "reset", "down"}]
  <2>1. PICK s \in {"up", "reset", "down"} : peer' = [peer EXCEPT ![c] = s]
    BY DEF Connect, GoAway
  <2> QED
    BY <2>1 DEF SocketsInv, SocketsTypeOK
<1>5. SocketsTypeOK'
  BY <1>1, <1>3, <1>4 DEF SocketsInv, SocketsTypeOK, wrapperVars
<1>6. SocketIsOwn' /\ ClientIsOwn' /\ DescriptorsAre' /\ StageOfSocket'
  BY <1>1 DEF SocketsInv, SocketIsOwn, ClientIsOwn, DescriptorsAre, StageOfSocket,
     Listening, Serving, Held, Left, Inherited, On, wrapperVars
<1> QED
  BY <1>5, <1>6 DEF SocketsInv

-----------------------------------------------------------------------------
LEMMA SocketsInitHolds == ASSUME SocketsInit PROVE SocketsInv
<1>1. SocketsTypeOK
  <2>1. /\ platform \in Platforms /\ pc = "app" /\ served \in Nat
        /\ up \in BOOLEAN /\ stdin \in BOOLEAN
    BY Zenon, SocketConstants DEF SocketsInit
  <2>2. /\ sock = -1 /\ newSock = -1 /\ tries \in 0..BindTries /\ ops \in 0..MaxOps
        /\ ret = 0 /\ client = None /\ queue \in Seq(Clients) /\ Len(queue) <= Backlog
    BY SocketConstants DEF SocketsInit
  <2>3. fds \subseteq Fds /\ peer \in [Clients -> {"up", "reset", "down"}]
    BY SocketConstants DEF SocketsInit, Inherited
  <2> QED
    BY <2>1, <2>2, <2>3 DEF SocketsTypeOK
<1>2. SocketIsOwn /\ ClientIsOwn /\ StageOfSocket
  BY DEF SocketsInit, SocketIsOwn, ClientIsOwn, StageOfSocket, Listening, Serving
<1>3. DescriptorsAre
  <2>1. fds = Inherited /\ Held = Inherited /\ Left = {} /\ served = 0
    BY DEF SocketsInit, Held, Left, Listening, Serving
  <2> QED
    BY <2>1, FS_EmptySet DEF DescriptorsAre
<1> QED
  BY <1>1, <1>2, <1>3 DEF SocketsInv

LEMMA SocketsNextKeeps == ASSUME SocketsInv, [SocketsNext]_socketVars PROVE SocketsInv'
<1>1. CASE UNCHANGED socketVars
  BY <1>1 DEF socketVars, wrapperVars, systemVars, SocketsInv, SocketsTypeOK,
     SocketIsOwn, ClientIsOwn, DescriptorsAre, StageOfSocket,
     Listening, Serving, Held, Left, Inherited, On
<1>2. CASE Startup
  BY <1>2, UnixSocketKeeps, UnixBindKeeps, OtherInitKeeps DEF Startup
<1>3. CASE Main \/ Accept \/ SelectInterrupted
  BY <1>3, MainKeeps, AcceptKeeps DEF Main, Accept
<1>4. CASE Execute
  BY <1>4, CallKeeps, GetByteKeeps, CloseKeeps DEF Execute
<1>5. CASE WrapperEnd \/ AcceptFails \/ SelectFails
  BY <1>5, WrapperEndKeeps, FailureKeeps
<1>6. CASE \E c \in Clients : Connect(c) \/ GoAway(c)
  BY <1>6, ClientKeeps
<1> QED
  BY <1>1, <1>2, <1>3, <1>4, <1>5, <1>6 DEF SocketsNext

WrappersInv == build \in {"sockets", "esp8266"} /\ SocketsInv /\ EspInv

LEMMA WrappersInvHolds == FairSpec => []WrappersInv
<1>1. ASSUME Init PROVE WrappersInv
  BY <1>1, SocketsInitHolds, EspInitHolds DEF Init, WrappersInv
<1>2. ASSUME WrappersInv, [Next]_vars PROVE WrappersInv'
  <2>1. /\ build' \in {"sockets", "esp8266"}
        /\ [SocketsNext]_socketVars /\ [EspNext]_espVars
    BY <1>2, Zenon DEF Next, vars, WrappersInv
  <2> QED
    BY <1>2, <2>1, SocketsNextKeeps, EspNextKeeps DEF WrappersInv
<1> QED
  BY <1>1, <1>2, PTL DEF FairSpec

(* Every wrapper keeps its state in range, with any number of clients, of  *)
(* descriptors and of connections of the SDK: the queue never outgrows its *)
(* limit, a bind is tried no more often than allowed, and the ESP8266's    *)
(* slots are of its table.                                                 *)
THEOREM WrapperTypes == FairSpec => []TypeOK
<1>1. WrappersInv => TypeOK
  BY DEF WrappersInv, SocketsInv, EspInv, TypeOK
<1> QED
  BY <1>1, WrappersInvHolds, PTL

(* What the wrappers hold open when the application runs, however often    *)
(* attoHTTPWrapperInit, attoHTTPWrapperMain and attoHTTPWrapperEnd are     *)
(* called and however clients come, reset and go: on Unix and on Particle  *)
(* the listening socket alone, on Windows the socket of every client       *)
(* served as well, until attoHTTPWrapperEnd calls WSACleanup.              *)
THEOREM DescriptorsStayHeld == FairSpec => []DescriptorsHeld
<1>1. ASSUME WrappersInv PROVE DescriptorsHeld
  <2> SUFFICES ASSUME pc = "app"
               PROVE  /\ Inherited \cup (IF up THEN {sock} ELSE {}) \subseteq fds
                      /\ Cardinality(fds \ (Inherited \cup (IF up THEN {sock} ELSE {})))
                           = IF On("win32") THEN served ELSE 0
    BY DEF DescriptorsHeld
  <2>1. Held = Inherited \cup (IF up THEN {sock} ELSE {}) /\ Held \subseteq fds
    BY <1>1, HeldBefore DEF WrappersInv
  <2>2. Cardinality(Left) = IF On("win32") THEN served ELSE 0
    BY <1>1 DEF WrappersInv, SocketsInv, DescriptorsAre
  <2> QED
    BY <2>1, <2>2 DEF Left
<1> QED
  BY <1>1, WrappersInvHolds, PTL

(* The ESP8266 build keeps the slots of its table apart, and uses the      *)
(* entry behind it only once a connection was reset.                       *)
THEOREM SlotsStayOwned == FairSpec => []SlotsOwned
<1>1. WrappersInv => SlotsOwned
  BY DEF WrappersInv, EspInv
<1> QED
  BY <1>1, WrappersInvHolds, PTL
=============================================================================
