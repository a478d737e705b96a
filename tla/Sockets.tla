------------------------------ MODULE Sockets ------------------------------
(***************************************************************************)
(* The wrappers that serve one client at a time: Unix sockets, Windows     *)
(* sockets and the TCPServer of Particle.  The application calls           *)
(* attoHTTPWrapperInit once, attoHTTPWrapperMain in a loop and may call    *)
(* attoHTTPWrapperEnd.  A step is one system call (external) and what the  *)
(* wrapper makes of its result.  attoHTTPExecute is any sequence of calls  *)
(* of attoHTTPGetByte and attoHTTPSetByte, of at most MaxOps of them while *)
(* no read has returned -1: that it ends then is RequestParser's           *)
(* ParsingEnds, and that its loops may go on behind a -1 is what           *)
(* EveryRequestEnds fails for.                                             *)
(***************************************************************************)
EXTENDS Integers, Sequences, FiniteSets

CONSTANTS
  Platforms,   \* the wrappers to look at
  Clients,     \* clients, each with at most one connection at a time
  None,        \* no client
  Backlog,     \* connections the system queues for the listening socket
  MaxFd,       \* the largest descriptor
  BindTries,   \* binds that fit in 60 seconds, one a second
  MaxOps       \* bound on the bytes one attoHTTPExecute reads and writes

Fds == 0..MaxFd

ASSUME SocketsAssumption ==
  /\ Platforms \subseteq {"unix", "win32", "particle"}
  /\ None \notin Clients
  /\ Backlog \in Nat /\ MaxFd \in Nat
  /\ BindTries \in Nat \ {0} /\ MaxOps \in Nat

VARIABLES
  platform,    \* the wrapper that is compiled in
  pc,          \* "app": the application runs; "exit": the process has ended
  up,          \* between attoHTTPWrapperInit and attoHTTPWrapperEnd
  sock,        \* attoHTTPUnixSock; for Particle, w_server's
  tries,       \* binds that have failed
  newSock,     \* the descriptor of the client being served, -1 for none
  client,      \* that client
  ops,         \* bytes read and written for it
  ret          \* what attoHTTPGetByte returned last to this client

(* The system. *)
VARIABLES
  stdin,       \* descriptor 0 was open when the program was started
  fds,         \* open descriptors
  served,      \* Windows: clients served since WSAStartup (history)
  queue,       \* clients that wait to be accepted
  peer         \* "up", "reset" or "down" for each client's connection

wrapperVars == <<platform, up, sock, tries, newSock, client, ops, ret>>
systemVars == <<stdin, fds, served, queue, peer>>
socketVars == <<pc, wrapperVars, systemVars>>

On(p) == platform = p
Going(from, to) == pc = from /\ pc' = to

\* The system hands out a descriptor that is free: POSIX the lowest, the others
\* never 0.
Free(f) ==
  /\ f \notin fds
  /\ IF On("unix") THEN \A g \in 0..f - 1 : g \in fds ELSE f # 0

\* close() of a descriptor.  A Windows socket is none: it stays open.
Closes(f) == fds' = IF On("win32") THEN fds ELSE fds \ {f}
Inherited == IF stdin THEN {0} ELSE {}

Exit == pc' = "exit"

-----------------------------------------------------------------------------
\* close(attoHTTPUnixSock)
UnixWrapperEnd == fds' = fds \ {sock} /\ sock' = -1

Opened == \E f \in Fds : Free(f) /\ fds' = fds \cup {f} /\ sock' = f

\* attoHTTPWrapperInit up to the binds, one bind, and listen.
UnixSocket ==
  /\ On("unix") /\ pc = "app" /\ ~up
  /\ \/ pc' = "bind" /\ Opened /\ tries' = 0
     \/ Exit /\ sock' = -1 /\ UNCHANGED <<fds, tries>>
  /\ UNCHANGED <<platform, up, newSock, client, ops, ret, stdin, served, queue, peer>>
BindsOnceMore(n) == n <= BindTries
BindsAgain(n) == n < BindTries
UnixBindFails ==
  /\ On("unix") /\ pc = "bind"
  /\ tries' = tries + 1
  /\ IF BindsAgain(tries + 1) THEN UNCHANGED <<pc, fds, sock>>
     ELSE Exit /\ UnixWrapperEnd
  /\ UNCHANGED <<platform, up, newSock, client, ops, ret, stdin, served, queue, peer>>
UnixListen ==
  /\ On("unix") /\ pc = "bind"
  /\ \/ pc' = "app" /\ up' = TRUE /\ UNCHANGED <<fds, sock>>
     \/ Exit /\ UnixWrapperEnd /\ UNCHANGED up
  /\ UNCHANGED <<platform, tries, newSock, client, ops, ret, stdin, served, queue, peer>>

\* A socket call, bind or listen that fails ends the program.
Win32WrapperInit ==
  /\ On("win32") /\ pc = "app" /\ ~up
  /\ \/ pc' = "app" /\ up' = TRUE /\ Opened
     \/ Exit /\ UNCHANGED <<up, fds, sock>>
  /\ UNCHANGED <<platform, tries, newSock, client, ops, ret, stdin, served, queue, peer>>
ParticleWrapperInit ==
  /\ On("particle") /\ Going("app", "app") /\ ~up
  /\ up' = TRUE /\ Opened
  /\ UNCHANGED <<platform, tries, newSock, client, ops, ret, stdin, served, queue, peer>>

-----------------------------------------------------------------------------
\* attoHTTPWrapperMain: the Unix one does nothing without a socket.
MainSocketAboveOne == sock > 1
MainHasSocket == sock > 0
UnixWrapperMain ==
  /\ On("unix") /\ MainHasSocket
  /\ Going("app", "select")
  /\ UNCHANGED <<wrapperVars, systemVars>>
Win32WrapperMain ==
  /\ On("win32") /\ up
  /\ Going("app", "select")
  /\ UNCHANGED <<wrapperVars, systemVars>>

\* The client that waits longest is accepted and served; without a free
\* descriptor accept fails.
ServeOn(f) ==
  /\ pc' = "execute"
  /\ fds' = fds \cup {f} /\ newSock' = f
  /\ client' = Head(queue) /\ queue' = Tail(queue)
  /\ ops' = 0 /\ ret' = 0
  /\ UNCHANGED <<platform, up, sock, tries, stdin, served, peer>>
Serve ==
  /\ queue # <<>>
  /\ \/ \E f \in Fds : Free(f) /\ ServeOn(f)
     \/ (\A f \in Fds : ~Free(f)) /\ Exit /\ UNCHANGED <<wrapperVars, systemVars>>

\* select is interrupted, or says that a client waits, who is accepted.
SelectInterrupted ==
  /\ Going("select", "app")
  /\ UNCHANGED <<wrapperVars, systemVars>>
UnixAccept == On("unix") /\ pc = "select" /\ Serve
Win32Accept == On("win32") /\ pc = "select" /\ Serve

\* select or accept fails.
AcceptFails ==
  /\ pc = "select" /\ Exit
  /\ UNCHANGED <<wrapperVars, systemVars>>

\* available() does not wait; without a client there is nothing to stop.
ParticleWrapperMain == On("particle") /\ pc = "app" /\ up /\ Serve

-----------------------------------------------------------------------------
\* attoHTTPExecute calls attoHTTPGetByte or attoHTTPSetByte.
CallByte ==
  /\ pc = "execute" /\ (ops < MaxOps \/ ret = -1)
  /\ pc' \in {"get", "set"}
  /\ ops' = IF ret = -1 THEN ops ELSE ops + 1
  /\ UNCHANGED <<platform, up, sock, tries, newSock, client, ret, systemVars>>

Got(r) ==
  /\ ret' = r /\ pc' = "execute"
  /\ UNCHANGED <<platform, up, sock, tries, newSock, client, ops, systemVars>>

\* attoHTTPGetByte waits for a second (that select was interrupted, and the
\* wait starts again, is no step).  Once there is something, recv returns a
\* byte, the end, or the error of a connection that was reset; the loop goes
\* on while the result is negative.  Unix reports the error once and the end
\* then.  Windows reports it every time: the loop takes no step that changes
\* anything.
Recv == peer[client] # "reset" /\ (Got(0) \/ Got(1))
RecvError ==
  /\ On("unix") /\ peer[client] = "reset"
  /\ peer' = [peer EXCEPT ![client] = "down"]
  /\ UNCHANGED <<pc, wrapperVars, stdin, fds, served, queue>>
UnixGetByte ==
  On("unix") /\ pc = "get" /\ (IF newSock > 0 THEN Recv \/ RecvError ELSE Got(0))
Win32GetByte ==
  On("win32") /\ pc = "get" /\ (IF newSock > 0 THEN Recv ELSE Got(0))

\* select fails: the socket is closed and the program ends.
SelectFails ==
  /\ ~On("particle") /\ pc = "get" /\ newSock > 0
  /\ Exit
  /\ Closes(newSock)
  /\ UNCHANGED <<wrapperVars, stdin, served, queue, peer>>

\* It reads while the client is connected, a second at most.
ParticleGetByte ==
  /\ On("particle") /\ pc = "get"
  /\ IF peer[client] = "up" THEN Got(0) \/ Got(1) ELSE Got(-1)

\* attoHTTPSetByte: the byte is sent or it is not; interrupted, the Unix one
\* tries again, which is no step.  That the system has room for the byte, or
\* gets it, is assumed: send waits for a client that reads nothing.
SetByte ==
  /\ Going("set", "execute")
  /\ UNCHANGED <<wrapperVars, systemVars>>

\* attoHTTPExecute returns and the client's socket is closed.
Returns ==
  /\ Going("execute", "app")
  /\ newSock' = -1 /\ client' = None
  /\ served' = IF On("win32") THEN served + 1 ELSE served
  /\ UNCHANGED <<platform, up, sock, tries, ops, ret, stdin, queue, peer>>
ClosesNothing == Returns /\ UNCHANGED fds
CloseClient == Returns /\ Closes(newSock)

\* attoHTTPWrapperEnd, called by the application.  WSACleanup frees every
\* socket that is open.
WrapperEnd ==
  /\ Going("app", "app") /\ up
  /\ up' = FALSE
  /\ \/ On("unix") /\ UnixWrapperEnd
     \/ On("win32") /\ fds' = Inherited /\ UNCHANGED sock
     \/ On("particle") /\ Closes(sock) /\ UNCHANGED sock
  /\ served' = 0
  /\ queue' = <<>>
  /\ UNCHANGED <<platform, tries, newSock, client, ops, ret, stdin, peer>>

-----------------------------------------------------------------------------
\* Clients connect while there is room in the queue, and go away at any time.
Waiting(c) == client = c \/ \E i \in 1..Len(queue) : queue[i] = c
Connect(c) ==
  /\ up /\ pc # "exit" /\ ~Waiting(c) /\ Len(queue) < Backlog
  /\ queue' = Append(queue, c)
  /\ peer' = [peer EXCEPT ![c] = "up"]
  /\ UNCHANGED <<pc, wrapperVars, stdin, fds, served>>
GoAway(c) ==
  /\ pc # "exit" /\ Waiting(c) /\ peer[c] = "up"
  /\ \E s \in {"reset", "down"} : peer' = [peer EXCEPT ![c] = s]
  /\ UNCHANGED <<pc, wrapperVars, stdin, fds, served, queue>>

SocketsInit ==
  /\ platform \in Platforms
  /\ pc = "app" /\ up = FALSE /\ sock = -1 /\ tries = 0
  /\ newSock = -1 /\ client = None /\ ops = 0 /\ ret = 0
  /\ stdin \in BOOLEAN
  /\ fds = Inherited /\ served = 0
  /\ queue = <<>> /\ peer = [c \in Clients |-> "down"]

Startup == UnixSocket \/ UnixBindFails \/ UnixListen
           \/ Win32WrapperInit \/ ParticleWrapperInit
Main == UnixWrapperMain \/ Win32WrapperMain \/ ParticleWrapperMain
Accept == UnixAccept \/ Win32Accept
Execute == CallByte \/ UnixGetByte \/ Win32GetByte \/ ParticleGetByte
           \/ SetByte \/ CloseClient

SocketsNext ==
  \/ Startup \/ Main \/ Accept \/ Execute \/ WrapperEnd
  \/ SelectInterrupted \/ AcceptFails \/ SelectFails
  \/ \E c \in Clients : Connect(c) \/ GoAway(c)

\* The application calls attoHTTPWrapperMain in a loop, and not every wait for
\* a client is interrupted.
SocketsFairness ==
  /\ WF_socketVars(Main) /\ WF_socketVars(Execute)
  /\ SF_socketVars(Accept)

-----------------------------------------------------------------------------
(* Types of the wrappers' state and of the system's.                       *)
SocketsTypeOK ==
  /\ platform \in Platforms
  /\ pc \in {"app", "bind", "select", "execute", "get", "set", "exit"}
  /\ up \in BOOLEAN /\ stdin \in BOOLEAN
  /\ sock \in Fds \cup {-1} /\ newSock \in Fds \cup {-1}
  /\ tries \in 0..BindTries /\ ops \in 0..MaxOps /\ ret \in {-1, 0, 1}
  /\ client \in Clients \cup {None}
  /\ fds \subseteq Fds /\ served \in Nat
  /\ queue \in Seq(Clients) /\ Len(queue) <= Backlog
  /\ peer \in [Clients -> {"up", "reset", "down"}]

(* Whenever the application runs, what was open when the program started   *)
(* and the listening socket are open, and nothing else on Unix and on      *)
(* Particle, however the clients before were served: Init and End can go   *)
(* on for ever.  On Windows one socket more is open for every client that  *)
(* was served since attoHTTPWrapperInit, as close() frees none.            *)
DescriptorsHeld ==
  pc = "app" =>
    LET held == Inherited \cup (IF up THEN {sock} ELSE {})
    IN  /\ held \subseteq fds
        /\ Cardinality(fds \ held) = IF On("win32") THEN served ELSE 0

\* Where a wrapper stops to serve: on Unix attoHTTPWrapperMain takes the
\* listening socket 0 for none; on Windows attoHTTPGetByte reads for ever from
\* a connection that was reset; on Particle attoHTTPExecute may never return
\* behind a read of -1.
Stuck ==
  \/ On("unix") /\ sock = 0
  \/ On("win32") /\ pc = "get" /\ peer[client] = "reset"
  \/ On("particle") /\ client # None /\ ret = -1

\* Sooner or later attoHTTPExecute has run for c and returned, or the program
\* ends or is ended.
Served(c) == Waiting(c) ~> (~Waiting(c) \/ pc = "exit")

(* Every client that is queued is served, unless the wrapper comes to one  *)
(* of the three places where it is stuck and stays there.                  *)
ClientsServed == []<>~Stuck => \A c \in Clients : Served(c)

(* attoHTTPWrapperMain, called in a loop, serves every client: its comment *)
(* names no case in which it serves none while a request waits.            *)
EveryClientServed == \A c \in Clients : Served(c)
=============================================================================
