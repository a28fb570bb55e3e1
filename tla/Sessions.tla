------------------------------ MODULE Sessions ------------------------------
(***************************************************************************)
(* The session registry of the server: accepted connections, the pool      *)
(* workers that read them, the map Server::clients, the ban list, and the  *)
(* three kinds of threads that end a session: the worker of the connection *)
(* (DISCONNECT or end of file), the heartbeat monitor and the admin shell. *)
(*                                                                         *)
(* A step is what a thread does between two points where another thread    *)
(* can run: one region under clientsMutex or bannedUsersMutex, or one      *)
(* system call.  A region under clientsMutex waits while the heartbeat     *)
(* thread sends its PINGs, which it does with the mutex held; every other  *)
(* region is short and is one step.  A socket is a number (Fds); what it   *)
(* names is decided by the kernel at each call (fdt), so a number that was *)
(* closed may come to name another connection.                             *)
(*                                                                         *)
(* A frame is chosen when recv returns it: frames in flight have no other  *)
(* effect on this component.  A client may send any frame at any time, and *)
(* CONNECT as often as it likes.                                           *)
(***************************************************************************)
EXTENDS Naturals, Sequences, FiniteSets

CONSTANTS
  Users,      \* valid usernames
  Conns,      \* connections clients may open, each at most once
  Fds,        \* descriptor numbers accept may return
  Workers,    \* threads of the pool (Constants::THREAD_POOL_SIZE)
  Monitors,   \* the heartbeat thread, or {} when built with DISABLE_HEARTBEAT
  Admins,     \* the admin shell, or {} when nobody types a command
  NoUser, NoFd, NoConn

ASSUME SessionsAssumption ==
  /\ NoUser \notin Users /\ NoFd \notin Fds /\ NoConn \notin Conns
  /\ Workers \cap Monitors = {} /\ Workers \cap Admins = {}
  /\ Monitors \cap Admins = {}

VARIABLES
  clients,    \* Server::clients: name -> socket, NoFd when absent
  banned,     \* Server::bannedUsers
  fdt,        \* kernel: descriptor -> connection it names, NoConn when closed
  peer,       \* the client's side: not connected ("out"), "open" or closed ("eof")
  told,       \* the name in the "Connected as" reply the client has got
  tasks,      \* ThreadPool::tasks: sockets waiting for a worker
  pc,         \* where each thread is
  sock,       \* the socket a thread works on
  name,       \* the local variable username of the handler a thread runs
  file,       \* connection a blocked recv holds, whatever the number names now
  streamOk,   \* NetworkStream::connected of the worker's stream
  late,       \* timedOutClients of the heartbeat thread
  banning,    \* is the admin command being run /ban (or /kick)?
  conn,       \* history: the connection a thread's socket named when it got it
  met,        \* history: connections a name was registered for
  again,      \* history: has one of those been sent a second CONNECT?
  crossed     \* history: has a thread used its socket for another connection?

kernel == <<fdt, peer, told>>
locals == <<sock, name>>
reader == <<tasks, file, streamOk>>
others == <<late, banning>>
asked == <<met, again>>
history == <<conn, asked, crossed>>
vars == <<clients, banned, kernel, pc, locals, reader, others, history>>

Threads == Workers \cup Monitors \cup Admins
Registered == {u \in Users : clients[u] # NoFd}
NamesOf(s) == {u \in Users : clients[u] = s}

\* Types, and where each thread can be.
TypeOK ==
  /\ clients \in [Users -> Fds \cup {NoFd}]
  /\ banned \in SUBSET Users
  /\ fdt \in [Fds -> Conns \cup {NoConn}]
  /\ peer \in [Conns -> {"out", "open", "eof"}]
  /\ told \in [Conns -> Users \cup {NoUser}]
  /\ tasks \in Seq(Fds)
  /\ pc \in [Threads -> {"idle", "recv", "blocked", "banCheck", "takenCheck",
                         "register", "reply", "gone", "lookup", "unregister",
                         "close", "ping", "check", "next", "ban"}]
  /\ sock \in [Threads -> Fds \cup {NoFd}]
  /\ name \in [Threads -> Users \cup {NoUser}]
  /\ file \in [Workers -> Conns \cup {NoConn}]
  /\ streamOk \in [Workers -> BOOLEAN]
  /\ late \in SUBSET Users
  /\ banning \in BOOLEAN
  /\ conn \in [Threads -> Conns \cup {NoConn}]
  /\ met \in SUBSET Conns
  /\ again \in BOOLEAN
  /\ crossed \in BOOLEAN

\* loadBanlist: the file may hold any names.
Init ==
  /\ clients = [u \in Users |-> NoFd]
  /\ banned \in SUBSET Users
  /\ fdt = [f \in Fds |-> NoConn]
  /\ peer = [c \in Conns |-> "out"]
  /\ told = [c \in Conns |-> NoUser]
  /\ tasks = <<>>
  /\ pc = [t \in Threads |-> "idle"]
  /\ sock = [t \in Threads |-> NoFd]
  /\ name = [t \in Threads |-> NoUser]
  /\ file = [w \in Workers |-> NoConn]
  /\ streamOk = [w \in Workers |-> FALSE]
  /\ late = {}
  /\ banning = FALSE
  /\ conn = [t \in Threads |-> NoConn]
  /\ met = {}
  /\ again = FALSE
  /\ crossed = FALSE

\* heartbeatLoop holds clientsMutex while it sends the PINGs.
MutexFree == \A h \in Monitors : pc[h] # "ping"

Goto(t, from, to) ==
  /\ pc[t] = from
  /\ pc' = [pc EXCEPT ![t] = to]

\* History: t gets the socket f; it uses the socket it has, which may name another
\* connection by now.
Gets(t, f) == conn' = [conn EXCEPT ![t] = fdt[f]]
Uses(t) == crossed' = (crossed \/ fdt[sock[t]] \notin {conn[t], NoConn})

\* Goto where a handler returns: its local variables are gone.
Return(t, from, to) ==
  /\ Goto(t, from, to)
  /\ name' = [name EXCEPT ![t] = IF to = "ban" THEN @ ELSE NoUser]
  /\ sock' = [sock EXCEPT ![t] = IF to = "recv" THEN @ ELSE NoFd]
  /\ conn' = [conn EXCEPT ![t] = IF to = "recv" THEN @ ELSE NoConn]

(***************************************************************************)
(* Accepting, and the client's side                                        *)
(***************************************************************************)
\* acceptClients: accept a connection and queue handleClientMessages for it.
\* Any closed number may be returned.
Accept(c, f) ==
  /\ peer[c] = "out" /\ fdt[f] = NoConn
  /\ peer' = [peer EXCEPT ![c] = "open"]
  /\ fdt' = [fdt EXCEPT ![f] = c]
  /\ tasks' = Append(tasks, f)
  /\ UNCHANGED <<clients, banned, told, pc, locals, file, streamOk, others, history>>

\* The client process ends or closes its end.
PeerClose(c) ==
  /\ peer[c] = "open"
  /\ peer' = [peer EXCEPT ![c] = "eof"]
  /\ told' = [told EXCEPT ![c] = NoUser]
  /\ UNCHANGED <<clients, banned, fdt, pc, locals, reader, others, history>>

(***************************************************************************)
(* A worker runs handleClientMessages                                      *)
(***************************************************************************)
\* Mutated form of TakeTask: the task is read but not popped.
TakeTaskNoPop(w) ==
  /\ Goto(w, "idle", "recv") /\ tasks # <<>>
  /\ sock' = [sock EXCEPT ![w] = Head(tasks)]
  /\ Gets(w, Head(tasks))
  /\ streamOk' = [streamOk EXCEPT ![w] = TRUE]
  /\ UNCHANGED <<clients, banned, kernel, tasks, name, file, others, asked, crossed>>
TakeTask(w) ==
  /\ Goto(w, "idle", "recv") /\ tasks # <<>>
  /\ sock' = [sock EXCEPT ![w] = Head(tasks)]
  /\ Gets(w, Head(tasks))
  /\ tasks' = Tail(tasks)
  /\ streamOk' = [streamOk EXCEPT ![w] = TRUE]
  /\ UNCHANGED <<clients, banned, kernel, name, file, others, asked, crossed>>

\* recv on a number that names a connection blocks holding that connection; on
\* a closed number it fails at once (EBADF).
Recv(w) ==
  /\ pc[w] = "recv" /\ Uses(w)
  /\ LET c == fdt[sock[w]] IN
       /\ Goto(w, "recv", IF c = NoConn THEN "gone" ELSE "blocked")
       /\ file' = [file EXCEPT ![w] = c]
       /\ streamOk' = [streamOk EXCEPT ![w] = c # NoConn]
  /\ UNCHANGED <<clients, banned, kernel, locals, tasks, others, conn, asked>>

\* The blocked recv of w returns: a frame, or nothing when it fails.
Received(w, to) ==
  /\ Goto(w, "blocked", to)
  /\ file' = [file EXCEPT ![w] = NoConn]
  /\ streamOk' = [streamOk EXCEPT ![w] = to # "gone"]
  /\ UNCHANGED <<clients, banned, kernel, sock, tasks, others, conn, met, crossed>>

\* CONNECT;u with a valid name, whether or not the connection has one already.
GetConnect(w, u) ==
  /\ Received(w, "banCheck") /\ peer[file[w]] = "open"
  /\ name' = [name EXCEPT ![w] = u]
  /\ again' = (again \/ file[w] \in met)

GetDisconnect(w) ==
  Received(w, "lookup") /\ peer[file[w]] = "open" /\ UNCHANGED <<name, again>>

\* A frame that does not touch the registry: CONNECT with no name or an invalid
\* one, SEND, PING, PONG, LIST_USERS, GET_LOG, an unknown command, an empty line.
GetOther(w) ==
  Received(w, "recv") /\ peer[file[w]] = "open" /\ UNCHANGED <<name, again>>

\* receive fails though the client is there: a frame of length 0 or above the
\* maximum, or a reset.
GetBadFrame(w) ==
  Received(w, "gone") /\ peer[file[w]] = "open" /\ UNCHANGED <<name, again>>

\* Mutated form of GetEof: the end of the stream is taken for a frame.
GetEofAsFrame(w) ==
  Received(w, "recv") /\ peer[file[w]] = "eof" /\ UNCHANGED <<name, again>>
GetEof(w) ==
  Received(w, "gone") /\ peer[file[w]] = "eof" /\ UNCHANGED <<name, again>>

(***************************************************************************)
(* handleConnect: three checks and a registration, each under its own lock *)
(***************************************************************************)
\* Mutated form of BanCheck: a banned client is told so but not stopped.
BanCheckOnlyTells(w) ==
  /\ Goto(w, "banCheck", "takenCheck")
  /\ UNCHANGED <<clients, banned, kernel, locals, reader, others, history>>
\* A banned client is refused and its socket closed; the handler returns to the
\* receive loop, which goes on using the number.
BanCheck(w) ==
  /\ \/ /\ name[w] \in banned
        /\ Return(w, "banCheck", "recv") /\ Uses(w)
        /\ fdt' = [fdt EXCEPT ![sock[w]] = NoConn]
     \/ /\ name[w] \notin banned
        /\ Goto(w, "banCheck", "takenCheck")
        /\ UNCHANGED <<fdt, locals, conn, crossed>>
  /\ UNCHANGED <<clients, banned, peer, told, reader, others, asked>>

TakenCheck(w) ==
  /\ MutexFree
  /\ \/ name[w] \in Registered /\ Return(w, "takenCheck", "recv")
     \/ /\ name[w] \notin Registered
        /\ Goto(w, "takenCheck", "register") /\ UNCHANGED <<locals, conn>>
  /\ UNCHANGED <<clients, banned, kernel, reader, others, asked, crossed>>

\* registerClient overwrites an entry that appeared since the check.
Register(w) ==
  /\ MutexFree /\ Goto(w, "register", "reply") /\ Uses(w)
  /\ clients' = [clients EXCEPT ![name[w]] = sock[w]]
  /\ met' = met \cup ({fdt[sock[w]]} \ {NoConn})
  /\ UNCHANGED <<banned, kernel, locals, reader, others, conn, again>>

\* The reply goes to whatever connection the number names by now.
Reply(w) ==
  /\ Return(w, "reply", "recv") /\ Uses(w)
  /\ told' = [c \in Conns |-> IF c = fdt[sock[w]] /\ peer[c] # "eof"
                              THEN name[w] ELSE told[c]]
  /\ UNCHANGED <<clients, banned, fdt, peer, reader, others, asked>>

(***************************************************************************)
(* Ending a session                                                        *)
(***************************************************************************)
\* Mutated form of Gone: the loop ends without handleDisconnect.
GoneNoDisconnect(w) ==
  /\ MutexFree /\ Return(w, "gone", "idle") /\ Uses(w)
  /\ UNCHANGED <<clients, banned, kernel, reader, others, asked>>
\* Failure branch of the receive loop: a worker whose socket is not registered
\* leaves without closing the socket.
Gone(w) ==
  /\ pc[w] = "gone" /\ MutexFree /\ Uses(w)
  /\ \/ NamesOf(sock[w]) = {} /\ Return(w, "gone", "idle")
     \/ /\ NamesOf(sock[w]) # {}
        /\ Goto(w, "gone", "lookup") /\ UNCHANGED <<locals, conn>>
  /\ UNCHANGED <<clients, banned, kernel, reader, others, asked>>

\* Where a thread continues when handleDisconnect or disconnectUser returns.
Caller(t) ==
  CASE t \in Workers  -> IF streamOk[t] THEN "recv" ELSE "idle"
    [] t \in Monitors -> "next"
    [] OTHER          -> IF banning THEN "ban" ELSE "idle"

\* handleDisconnect finds a name by the socket, one of them if it has several ...
Lookup(t) ==
  /\ pc[t] = "lookup" /\ MutexFree /\ Uses(t)
  /\ \/ NamesOf(sock[t]) = {} /\ Return(t, "lookup", Caller(t))
     \/ \E u \in NamesOf(sock[t]) :
          /\ Goto(t, "lookup", "unregister")
          /\ name' = [name EXCEPT ![t] = u]
          /\ UNCHANGED <<sock, conn>>
  /\ UNCHANGED <<clients, banned, kernel, reader, others, asked>>

\* Mutated form of Unregister: the socket is closed before the entry is erased.
UnregisterAfterClose(t) ==
  /\ MutexFree /\ Goto(t, "unregister", "close")
  /\ fdt' = [fdt EXCEPT ![sock[t]] = NoConn]
  /\ UNCHANGED <<clients, banned, peer, told, locals, reader, others, history>>
\* ... erases the entry of that name, whatever socket it holds by now ...
Unregister(t) ==
  /\ MutexFree /\ Goto(t, "unregister", "close")
  /\ clients' = [clients EXCEPT ![name[t]] = NoFd]
  /\ UNCHANGED <<banned, kernel, locals, reader, others, history>>

\* Mutated form of Close: the admin's command loses the name it has to ban.
CloseForgetsName(t) ==
  /\ Goto(t, "close", Caller(t)) /\ Uses(t)
  /\ name' = [name EXCEPT ![t] = NoUser]
  /\ sock' = [sock EXCEPT ![t] = IF Caller(t) = "recv" THEN @ ELSE NoFd]
  /\ conn' = [conn EXCEPT ![t] = IF Caller(t) = "recv" THEN @ ELSE NoConn]
  /\ fdt' = [fdt EXCEPT ![sock[t]] = NoConn]
  /\ UNCHANGED <<clients, banned, peer, told, reader, others, asked>>
\* ... and closes the number, whatever it names by now.
Close(t) ==
  /\ Return(t, "close", Caller(t)) /\ Uses(t)
  /\ fdt' = [fdt EXCEPT ![sock[t]] = NoConn]
  /\ UNCHANGED <<clients, banned, peer, told, reader, others, asked>>

(***************************************************************************)
(* The heartbeat thread: the PINGs of heartbeatLoop, then                  *)
(* checkClientTimeouts.  Which sessions are overdue is left open here.     *)
(***************************************************************************)
\* A PING is sent with clientsMutex held and waits for room in the client's
\* socket buffer: PingsDone may never come.
StartPings(h) ==
  /\ MutexFree /\ Goto(h, "idle", "ping")
  /\ UNCHANGED <<clients, banned, kernel, locals, reader, others, history>>

PingsDone(h) ==
  /\ Goto(h, "ping", "check")
  /\ UNCHANGED <<clients, banned, kernel, locals, reader, others, history>>

Sweep(h, overdue) ==
  /\ MutexFree /\ Goto(h, "check", "next")
  /\ late' = overdue
  /\ UNCHANGED <<clients, banned, kernel, locals, reader, banning, history>>

\* getUserSocket, then handleDisconnect on the socket the name has now.
NextLate(h, u) ==
  /\ MutexFree /\ late' = late \ {u}
  /\ \/ u \notin Registered /\ Goto(h, "next", "next") /\ UNCHANGED <<sock, conn>>
     \/ /\ u \in Registered /\ Goto(h, "next", "lookup")
        /\ sock' = [sock EXCEPT ![h] = clients[u]]
        /\ Gets(h, clients[u])
  /\ UNCHANGED <<clients, banned, kernel, name, reader, banning, asked, crossed>>

SweepDone(h) ==
  /\ Goto(h, "next", "idle") /\ late = {}
  /\ UNCHANGED <<clients, banned, kernel, locals, reader, late, banning, history>>

(***************************************************************************)
(* The admin shell                                                         *)
(***************************************************************************)
\* /kick u and /ban u: disconnectUser finds the socket and says goodbye.
Evict(a, u, isBan) ==
  /\ MutexFree /\ Goto(a, "idle", "unregister") /\ u \in Registered
  /\ sock' = [sock EXCEPT ![a] = clients[u]]
  /\ Gets(a, clients[u])
  /\ name' = [name EXCEPT ![a] = u]
  /\ banning' = isBan
  /\ UNCHANGED <<clients, banned, kernel, reader, late, asked, crossed>>

BanlistAdd(a) ==
  /\ Return(a, "ban", "idle")
  /\ banned' = banned \cup {name[a]}
  /\ banning' = FALSE
  /\ UNCHANGED <<clients, kernel, reader, late, asked, crossed>>

Unban(a, u) ==
  /\ Goto(a, "idle", "idle") /\ u \in banned
  /\ banned' = banned \ {u}
  /\ UNCHANGED <<clients, kernel, locals, reader, others, history>>

-----------------------------------------------------------------------------
Network == \E c \in Conns : PeerClose(c) \/ \E f \in Fds : Accept(c, f)

Frame(w) ==
  \/ \E u \in Users : GetConnect(w, u)
  \/ GetDisconnect(w) \/ GetOther(w) \/ GetBadFrame(w) \/ GetEof(w)

Handler(w) ==
  BanCheck(w) \/ TakenCheck(w) \/ Register(w) \/ Reply(w) \/ Gone(w)

Ending(t) == Lookup(t) \/ Unregister(t) \/ Close(t)

Heartbeat(h) ==
  \/ StartPings(h) \/ PingsDone(h)
  \/ \E overdue \in SUBSET Registered : Sweep(h, overdue)
  \/ \E u \in late : NextLate(h, u)
  \/ SweepDone(h)

Shell(a) ==
  \/ \E u \in Users, isBan \in BOOLEAN : Evict(a, u, isBan)
  \/ BanlistAdd(a)
  \/ \E u \in Users : Unban(a, u)

Next ==
  \/ Network
  \/ \E w \in Workers : TakeTask(w) \/ Recv(w) \/ Frame(w) \/ Handler(w)
  \/ \E t \in Threads : Ending(t)
  \/ \E h \in Monitors : Heartbeat(h)
  \/ \E a \in Admins : Shell(a)

Spec == Init /\ [][Next]_vars

\* A worker inside handleClientMessages runs, a blocked recv returns at the end of
\* the stream, and the worker gets clientsMutex if it is free again and again: the
\* heartbeat thread, the one that keeps it for long, then sleeps for seconds.
\* Nothing makes a client send, a worker take a task, the admin type, or the
\* heartbeat get through its PINGs.
WorkerStep(w) == Recv(w) \/ GetEof(w) \/ Handler(w) \/ Ending(w)
FairSpec == Spec /\ \A w \in Workers : SF_vars(WorkerStep(w))

-----------------------------------------------------------------------------
(***************************************************************************)
(* What the registry keeps.  Numbers are reused and clients send what they *)
(* like; each property holds until one of two things happens:              *)
(*   crossed  a thread uses a number that was closed behind its back and   *)
(*            names another connection by now (ListedOpen shows a way      *)
(*            there);                                                      *)
(*   again    a client that was registered sends a valid CONNECT again:    *)
(*            its socket then has two entries of which only one is erased, *)
(*            or is closed by the ban check while its entry stays.         *)
(***************************************************************************)
Clean == ~crossed /\ ~again

\* Every name in the map clients has an open socket: each path that closes a
\* registered socket (handleDisconnect from a worker or from the heartbeat,
\* disconnectUser) has erased every entry that holds it before.
RegisteredOpen == Clean => \A u \in Registered : fdt[clients[u]] # NoConn

\* Every name in the map has a worker in the receive loop of its socket, so its
\* end of file will be seen: no entry outlives its handleClientMessages.
RegisteredServed ==
  Clean => \A u \in Registered :
             \E w \in Workers : pc[w] # "idle" /\ sock[w] = clients[u]

\* No two workers read frames of the same connection: the stream of a client is
\* parsed by one handleClientMessages from its first byte to its last.
ExclusiveReader ==
  Clean => \A v, w \in Workers :
             file[v] = file[w] /\ file[v] # NoConn => v = w

\* A registered client whose connection ends leaves the map, whatever the
\* heartbeat and the admin do to the entry in the meantime, unless the heartbeat
\* keeps clientsMutex for ever over a PING nobody reads.
DeadPeerLeaves ==
  []<>MutexFree =>
    \A u \in Users, f \in Fds :
      (clients[u] = f /\ \E c \in Conns : fdt[f] = c /\ peer[c] = "eof")
        ~> clients[u] # f \/ ~Clean

(***************************************************************************)
(* A property that holds whatever happens to the numbers                   *)
(***************************************************************************)
\* Nobody is, or is about to be, registered under the banned name u.
ShutOut(u) ==
  /\ u \in banned /\ u \notin Registered
  /\ \A w \in Workers : pc[w] \in {"takenCheck", "register"} => name[w] # u

\* Once a ban has settled (the name is not registered and no CONNECT is past
\* the ban check of handleConnect) the name stays out until /unban.
BanSettles == [][\A u \in banned' : ShutOut(u) => ShutOut(u)']_vars

(***************************************************************************)
(* What the documentation says and the code does not keep                  *)
(***************************************************************************)
Attached(c) == peer[c] = "open" /\ \E f \in Fds : fdt[f] = c

\* "Authentication enforces unique, validated usernames": no two connected
\* clients have been told they are connected under the same name.
UniqueNames ==
  \A c, d \in Conns :
    /\ told[c] = told[d] /\ told[c] # NoUser
    /\ Attached(c) /\ Attached(d)
    => c = d

\* Every listed user has an open connection, as long as no client sends CONNECT
\* twice: a handler that goes on using a number after it was closed breaks it.
ListedOpen == ~again => \A u \in Registered : fdt[clients[u]] # NoConn

=============================================================================
