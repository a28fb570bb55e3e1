--------------------------- MODULE SessionsProofs ---------------------------
(***************************************************************************)
(* What is proved of Sessions for every set of users, connections,         *)
(* descriptors and workers, with or without the heartbeat and the admin:   *)
(* the types, RegisteredOpen, RegisteredServed and ExclusiveReader, and    *)
(* BanSettles.                                                             *)
(***************************************************************************)
EXTENDS Sessions, TLAPS

-----------------------------------------------------------------------------
(***************************************************************************)
(* Types: TypeOK is not inductive, a thread has to hold what the next      *)
(* statement uses.                                                         *)
(***************************************************************************)
Ends(t) == pc[t] \in {"lookup", "unregister", "close"}

\* A worker inside handleClientMessages has a socket, and so does a thread that
\* ends a session.
SockTyped ==
  /\ \A w \in Workers : pc[w] # "idle" => sock[w] \in Fds
  /\ \A t \in Threads : Ends(t) => sock[t] \in Fds

\* A thread that erases an entry, or adds a name to the ban list, has the name.
NameTyped ==
  \A t \in Threads : pc[t] \in {"unregister", "close", "ban"} => name[t] \in Users

\* disconnectUser does not look the name up by the socket.
AdminPc == \A a \in Admins : pc[a] \in {"idle", "unregister", "close", "ban"}

Typed == TypeOK /\ SockTyped /\ NameTyped /\ AdminPc

-----------------------------------------------------------------------------
(***************************************************************************)
(* The inductive invariant of the registry                                 *)
(***************************************************************************)
Deciding(w) == pc[w] \in {"banCheck", "takenCheck", "register"}

\* A connection is accepted once and has one number.
OneNumber ==
  /\ \A f \in Fds : fdt[f] # NoConn => peer[fdt[f]] # "out"
  /\ \A t \in Threads : conn[t] # NoConn => peer[conn[t]] # "out"
  /\ \A c \in met : peer[c] # "out"
  /\ \A f, g \in Fds : fdt[f] # NoConn /\ fdt[f] = fdt[g] => f = g

\* A queued connection is open, new to the registry and in no worker's hands.
Queue ==
  /\ \A i \in 1..Len(tasks) : fdt[tasks[i]] \notin met \cup {NoConn}
  /\ \A i, j \in 1..Len(tasks) : tasks[i] = tasks[j] => i = j
  /\ \A w \in Workers, i \in 1..Len(tasks) :
       pc[w] # "idle" => conn[w] # fdt[tasks[i]]

\* A busy worker has a connection of its own, which its blocked recv holds, and
\* which has no other number.
OneWorker ==
  /\ \A w \in Workers : pc[w] # "idle" => conn[w] # NoConn
  /\ \A v, w \in Workers :
       pc[v] # "idle" /\ pc[w] # "idle" /\ conn[v] = conn[w] => v = w
  /\ \A w \in Workers : file[w] = IF pc[w] = "blocked" THEN conn[w] ELSE NoConn
  /\ \A w \in Workers, f \in Fds :
       pc[w] # "idle" /\ fdt[f] = conn[w] => f = sock[w]

\* Until its first registration nobody but its worker closes the connection.
NewIsOpen ==
  /\ \A w \in Workers : Deciding(w) => conn[w] \notin met
  /\ \A w \in Workers :
       Deciding(w) \/ (pc[w] = "blocked" /\ conn[w] \notin met)
         => fdt[sock[w]] = conn[w]
EndsMet ==
  \A t \in Threads :
    pc[t] \in {"unregister", "close"} \/ (Ends(t) /\ t \notin Workers)
      => conn[t] \in met

\* RegisteredOpen, with who was registered; an open socket has one entry.
Listed ==
  /\ \A u \in Users : clients[u] # NoFd => fdt[clients[u]] \in met
  /\ \A u, v \in Users : clients[u] # NoFd /\ clients[u] = clients[v] => u = v

\* The entry about to be erased is the only one that can hold the connection, and a
\* connection about to be closed is in no entry.
ErasedFirst ==
  /\ \A t \in Threads, u \in Users :
       pc[t] = "unregister" /\ clients[u] # NoFd /\ fdt[clients[u]] = conn[t]
         => u = name[t]
  /\ \A t \in Threads, u \in Users :
       pc[t] = "close" /\ clients[u] # NoFd => fdt[clients[u]] # conn[t]

\* RegisteredServed, by a worker whose connection is the registered one.
Served ==
  \A u \in Users : clients[u] # NoFd =>
    \E w \in Workers :
      pc[w] # "idle" /\ sock[w] = clients[u] /\ conn[w] = fdt[clients[u]]

Registry ==
  OneNumber /\ Queue /\ OneWorker /\ NewIsOpen /\ EndsMet /\ Listed
  /\ ErasedFirst /\ Served

-----------------------------------------------------------------------------
\* After Server::start every variable has its type.
LEMMA TypedInit == Init => Typed
<1> SUFFICES ASSUME Init PROVE Typed
  OBVIOUS
<1>1. tasks \in Seq(Fds)
  BY DEF Init
<1>2. TypeOK
  BY <1>1 DEF Init, TypeOK
<1> QED
  BY <1>2 DEF Init, Typed, SockTyped, NameTyped, AdminPc, Threads, Ends

\* Where a thread continues after it has ended a session.
LEMMA CallerFacts ==
  ASSUME NEW t \in Threads
  PROVE  /\ Caller(t) \in {"recv", "idle", "next", "ban"}
         /\ Caller(t) = "recv" => t \in Workers
         /\ Caller(t) = "next" => t \in Monitors
         /\ Caller(t) = "ban" => t \in Admins
         /\ t \in Workers => Caller(t) \in {"recv", "idle"}
<1> USE SessionsAssumption DEF Threads
<1>1. CASE t \in Workers
  <2>1. Caller(t) = IF streamOk[t] THEN "recv" ELSE "idle"
    BY <1>1 DEF Caller
  <2> QED
    BY <1>1, <2>1
<1>2. CASE t \in Monitors
  <2>1. Caller(t) = "next"
    BY <1>2 DEF Caller
  <2> QED
    BY <1>2, <2>1
<1>3. CASE t \in Admins
  <2>1. Caller(t) = IF banning THEN "ban" ELSE "idle"
    BY <1>3 DEF Caller
  <2> QED
    BY <1>3, <2>1
<1> QED
  BY <1>1, <1>2, <1>3

\* Every step of every thread keeps the types, one step per action.
LEMMA TypedStep == Typed /\ [Next]_vars => Typed'
<1> SUFFICES ASSUME Typed, [Next]_vars PROVE Typed'
  OBVIOUS
<1> USE SessionsAssumption
    DEF Typed, TypeOK, SockTyped, NameTyped, AdminPc, Ends, Threads, Goto, Uses, Gets,
        kernel, locals, reader, others, history, asked
<1>1. ASSUME NEW c \in Conns, NEW f \in Fds, Accept(c, f) PROVE Typed'
  BY <1>1 DEF Accept
<1>2. ASSUME NEW c \in Conns, PeerClose(c) PROVE Typed'
  BY <1>2 DEF PeerClose
<1>3. ASSUME NEW w \in Workers, TakeTask(w) PROVE Typed'
  BY <1>3 DEF TakeTask
<1>4. ASSUME NEW w \in Workers, Recv(w) PROVE Typed'
  BY <1>4 DEF Recv
<1>5. ASSUME NEW w \in Workers, Frame(w) PROVE Typed'
  <2>1. ASSUME NEW u \in Users, GetConnect(w, u) PROVE Typed'
    BY <2>1 DEF GetConnect, Received
  <2>2. CASE GetDisconnect(w)
    BY <2>2 DEF GetDisconnect, Received
  <2>3. CASE GetOther(w)
    BY <2>3 DEF GetOther, Received
  <2>4. CASE GetBadFrame(w)
    BY <2>4 DEF GetBadFrame, Received
  <2>5. CASE GetEof(w)
    BY <2>5 DEF GetEof, Received
  <2> QED
    BY <1>5, <2>1, <2>2, <2>3, <2>4, <2>5 DEF Frame
<1>6. ASSUME NEW w \in Workers, BanCheck(w) PROVE Typed'
  <2>1. CASE name[w] \in banned
    <3>1. /\ pc[w] = "banCheck" /\ pc' = [pc EXCEPT ![w] = "recv"]
          /\ fdt' = [fdt EXCEPT ![sock[w]] = NoConn]
          /\ name' = [name EXCEPT ![w] = NoUser]
          /\ crossed' \in BOOLEAN
          /\ UNCHANGED <<clients, banned, peer, told, tasks, sock, file, streamOk, late,
                        banning, conn, met, again>>
      BY <1>6, <2>1 DEF BanCheck, Return
    <3> QED
      BY <3>1
  <2>2. CASE name[w] \notin banned
    BY <1>6, <2>2 DEF BanCheck
  <2> QED
    BY <2>1, <2>2
<1>7. ASSUME NEW w \in Workers, TakenCheck(w) PROVE Typed'
  BY <1>7 DEF TakenCheck, Return
<1>8. ASSUME NEW w \in Workers, Register(w) PROVE Typed'
  BY <1>8 DEF Register
<1>9. ASSUME NEW w \in Workers, Reply(w) PROVE Typed'
  BY <1>9 DEF Reply, Return
<1>10. ASSUME NEW w \in Workers, Gone(w) PROVE Typed'
  BY <1>10 DEF Gone, Return
<1>11. ASSUME NEW t \in Threads, Lookup(t) PROVE Typed'
  <2>1. t \notin Admins
    BY <1>11 DEF Lookup
  <2>2. CASE Return(t, "lookup", Caller(t))
    <3>1. PICK to : to = Caller(t)
      OBVIOUS
    <3> QED
      BY <1>11, <2>1, <2>2, <3>1, CallerFacts DEF Lookup, Return
  <2>3. ASSUME NEW u \in NamesOf(sock[t]), Goto(t, "lookup", "unregister"),
               name' = [name EXCEPT ![t] = u], UNCHANGED <<sock, conn>>
        PROVE  Typed'
    BY <1>11, <2>1, <2>3 DEF Lookup, NamesOf
  <2> QED
    BY <1>11, <2>2, <2>3 DEF Lookup
<1>12. ASSUME NEW t \in Threads, Unregister(t) PROVE Typed'
  BY <1>12 DEF Unregister
<1>13. ASSUME NEW t \in Threads, Close(t) PROVE Typed'
  <2>1. PICK to : to = Caller(t)
    OBVIOUS
  <2> QED
    BY <1>13, <2>1, CallerFacts DEF Close, Return
<1>14. ASSUME NEW h \in Monitors, Heartbeat(h) PROVE Typed'
  <2>1. CASE StartPings(h) \/ PingsDone(h) \/ SweepDone(h)
    BY <2>1 DEF StartPings, PingsDone, SweepDone
  <2>2. ASSUME NEW overdue \in SUBSET Registered, Sweep(h, overdue) PROVE Typed'
    BY <2>2 DEF Sweep, Registered
  <2>3. ASSUME NEW u \in late, NextLate(h, u) PROVE Typed'
    <3>1. CASE u \notin Registered
      BY <2>3, <3>1 DEF NextLate
    <3>2. CASE u \in Registered
      <4>1. u \in Users /\ clients[u] \in Fds
        BY <3>2 DEF Registered
      <4>2. /\ pc[h] = "next" /\ pc' = [pc EXCEPT ![h] = "lookup"]
            /\ sock' = [sock EXCEPT ![h] = clients[u]]
            /\ conn' = [conn EXCEPT ![h] = fdt[clients[u]]]
            /\ late' = late \ {u}
            /\ UNCHANGED <<clients, banned, fdt, peer, told, tasks, name, file, streamOk,
                          banning, met, again, crossed>>
        BY <2>3, <3>2 DEF NextLate
      <4> QED
        BY <4>1, <4>2
    <3> QED
      BY <3>1, <3>2
  <2> QED
    BY <1>14, <2>1, <2>2, <2>3 DEF Heartbeat
<1>15. ASSUME NEW a \in Admins, Shell(a) PROVE Typed'
  <2>1. ASSUME NEW u \in Users, NEW isBan \in BOOLEAN, Evict(a, u, isBan)
        PROVE  Typed'
    BY <2>1 DEF Evict, Registered
  <2>2. CASE BanlistAdd(a)
    BY <2>2 DEF BanlistAdd, Return
  <2>3. ASSUME NEW u \in Users, Unban(a, u) PROVE Typed'
    BY <2>3 DEF Unban
  <2> QED
    BY <1>15, <2>1, <2>2, <2>3 DEF Shell
<1>16. CASE UNCHANGED vars
  BY <1>16 DEF vars
<1> QED
  BY <1>1, <1>2, <1>3, <1>4, <1>5, <1>6, <1>7, <1>8, <1>9, <1>10, <1>11, <1>12,
     <1>13, <1>14, <1>15, <1>16
  DEF Next, Network, Handler, Ending

\* Every variable keeps its type, whatever numbers accept returns and whatever
\* clients send.
THEOREM TypeCorrect == Spec => []TypeOK
<1>1. Spec => []Typed
  BY TypedInit, TypedStep, PTL DEF Spec
<1> QED
  BY <1>1, PTL DEF Typed

-----------------------------------------------------------------------------
(***************************************************************************)
(* The registry.  The argument: accept returns a number that nobody holds, *)
(* so a connection that was never registered is known to its worker only   *)
(* (Queue, NewIsOpen, EndsMet); it is registered once, under a number that *)
(* still names it; so a registration never shares its connection with      *)
(* another entry or with a thread that is about to close it (Listed,       *)
(* ErasedFirst).  A thread that uses a number names its own connection by  *)
(* it, or nothing, as long as nothing is crossed.                          *)
(***************************************************************************)
\* The flags are never taken back.
LEMMA CleanBefore == Typed /\ Typed' /\ [Next]_vars /\ Clean' => Clean
<1> DEFINE Kept == (again => again') /\ (crossed => crossed')
<1> SUFFICES ASSUME Typed, Typed', [Next]_vars PROVE Kept
  BY DEF Clean
<1> USE DEF Typed, TypeOK, history, asked, Uses
<1>1. CASE Network
  BY <1>1 DEF Network, Accept, PeerClose
<1>2. ASSUME NEW w \in Workers, TakeTask(w) \/ Recv(w) PROVE Kept
  BY <1>2 DEF TakeTask, Recv
<1>3. ASSUME NEW w \in Workers, Frame(w) PROVE Kept
  BY <1>3 DEF Frame, Received, GetConnect, GetDisconnect, GetOther, GetBadFrame, GetEof
<1>4. ASSUME NEW w \in Workers, Handler(w) PROVE Kept
  BY <1>4 DEF Handler, BanCheck, TakenCheck, Register, Reply, Gone
<1>5. ASSUME NEW t \in Threads, Ending(t) PROVE Kept
  BY <1>5 DEF Ending, Lookup, Unregister, Close
<1>6. ASSUME NEW h \in Monitors, Heartbeat(h) PROVE Kept
  BY <1>6 DEF Heartbeat, StartPings, PingsDone, Sweep, NextLate, SweepDone
<1>7. ASSUME NEW a \in Admins, Shell(a) PROVE Kept
  BY <1>7 DEF Shell, Evict, BanlistAdd, Unban
<1>8. CASE UNCHANGED vars
  BY <1>8 DEF vars
<1> QED
  BY <1>1, <1>2, <1>3, <1>4, <1>5, <1>6, <1>7, <1>8 DEF Next

\* After Server::start nothing is registered, queued or in a thread's hands.
LEMMA RegistryInit == Init => Registry
BY SessionsAssumption
DEF Init, Registry, OneNumber, Queue, OneWorker, NewIsOpen, EndsMet, Listed, ErasedFirst,
    Served, Deciding, Ends, Threads

\* The network and the receive loop up to the frame.
LEMMA RegistryStepReceive ==
  ASSUME Typed, Registry, Clean',
         \/ Network
         \/ \E w \in Workers : TakeTask(w) \/ Recv(w) \/ Frame(w)
  PROVE  Registry'
<1> USE SessionsAssumption
    DEF Typed, TypeOK, SockTyped, Threads, Ends, Goto, Uses, Gets, kernel, locals,
        reader, others, history, asked
<1>1. ASSUME NEW c \in Conns, NEW f \in Fds, Accept(c, f) PROVE Registry'
  <2>1. /\ peer[c] = "out" /\ peer' = [peer EXCEPT ![c] = "open"]
        /\ fdt[f] = NoConn /\ fdt' = [fdt EXCEPT ![f] = c]
        /\ tasks' = Append(tasks, f)
        /\ UNCHANGED <<clients, pc, sock, name, file, conn, met>>
    BY <1>1 DEF Accept
  <2>2. OneNumber'
    BY <2>1 DEF Registry, OneNumber
  <2>3. Queue'
    BY <2>1 DEF Registry, Queue, OneNumber, OneWorker, NewIsOpen, EndsMet
  <2>4. OneWorker'
    BY <2>1 DEF Registry, OneWorker, Queue, OneNumber
  <2>5. NewIsOpen'
    BY <2>1 DEF Registry, NewIsOpen, OneWorker, EndsMet, Deciding
  <2>6. EndsMet'
    BY <2>1 DEF Registry, EndsMet, Listed, NewIsOpen
  <2>7. Listed'
    BY <2>1 DEF Registry, Listed, NewIsOpen, EndsMet, ErasedFirst, Deciding
  <2>8. ErasedFirst'
    BY <2>1 DEF Registry, ErasedFirst, Listed, EndsMet, NewIsOpen, Deciding
  <2>9. Served'
    BY <2>1 DEF Registry, Served, OneWorker, Listed, NewIsOpen, Deciding, ErasedFirst
  <2> QED
    BY <2>2, <2>3, <2>4, <2>5, <2>6, <2>7, <2>8, <2>9 DEF Registry
<1>2. ASSUME NEW c \in Conns, PeerClose(c) PROVE Registry'
  BY <1>2 DEF PeerClose, Registry, OneNumber, Queue, OneWorker,
              NewIsOpen, EndsMet, Listed, ErasedFirst, Served, Deciding
<1>3. ASSUME NEW w \in Workers, TakeTask(w) PROVE Registry'
  <2>1. /\ tasks # <<>> /\ tasks' = Tail(tasks)
        /\ pc[w] = "idle" /\ pc' = [pc EXCEPT ![w] = "recv"]
        /\ sock' = [sock EXCEPT ![w] = Head(tasks)]
        /\ conn' = [conn EXCEPT ![w] = fdt[Head(tasks)]]
        /\ UNCHANGED <<clients, fdt, peer, name, file, met>>
    BY <1>3 DEF TakeTask
  <2>2. OneNumber'
    BY <2>1 DEF Registry, OneNumber
  <2>3. Queue'
    BY <2>1 DEF Registry, Queue, OneNumber, OneWorker, NewIsOpen, EndsMet
  <2>4. OneWorker'
    BY <2>1 DEF Registry, OneWorker, Queue, OneNumber
  <2>5. NewIsOpen'
    BY <2>1 DEF Registry, NewIsOpen, OneWorker, EndsMet, Deciding
  <2>6. EndsMet'
    BY <2>1 DEF Registry, EndsMet, Listed, NewIsOpen
  <2>7. Listed'
    BY <2>1 DEF Registry, Listed, NewIsOpen, EndsMet, ErasedFirst, Deciding
  <2>8. ErasedFirst'
    BY <2>1 DEF Registry, ErasedFirst, Listed, EndsMet, NewIsOpen, Deciding
  <2>9. Served'
    BY <2>1 DEF Registry, Served, OneWorker, Listed, NewIsOpen, Deciding, ErasedFirst
  <2> QED
    BY <2>2, <2>3, <2>4, <2>5, <2>6, <2>7, <2>8, <2>9 DEF Registry
<1>4. ASSUME NEW w \in Workers, Recv(w) PROVE Registry'
  <2>1. /\ pc[w] = "recv"
        /\ pc' = [pc EXCEPT ![w] = IF fdt[sock[w]] = NoConn THEN "gone" ELSE "blocked"]
        /\ file' = [file EXCEPT ![w] = fdt[sock[w]]]
        /\ fdt[sock[w]] \in {conn[w], NoConn}
        /\ UNCHANGED <<clients, fdt, peer, tasks, sock, name, conn, met>>
    BY <1>4 DEF Recv, Clean
  <2>2. OneNumber'
    BY <2>1 DEF Registry, OneNumber
  <2>3. Queue'
    BY <2>1 DEF Registry, Queue, OneNumber, OneWorker, NewIsOpen, EndsMet
  <2>4. OneWorker'
    BY <2>1 DEF Registry, OneWorker, Queue, OneNumber
  <2>5. NewIsOpen'
    BY <2>1 DEF Registry, NewIsOpen, OneWorker, EndsMet, Deciding
  <2>6. EndsMet'
    BY <2>1 DEF Registry, EndsMet, Listed, NewIsOpen
  <2>7. Listed'
    BY <2>1 DEF Registry, Listed, NewIsOpen, EndsMet, ErasedFirst, Deciding
  <2>8. ErasedFirst'
    BY <2>1 DEF Registry, ErasedFirst, Listed, EndsMet, NewIsOpen, Deciding
  <2>9. Served'
    BY <2>1 DEF Registry, Served, OneWorker, Listed, NewIsOpen, Deciding, ErasedFirst
  <2> QED
    BY <2>2, <2>3, <2>4, <2>5, <2>6, <2>7, <2>8, <2>9 DEF Registry
<1>5. ASSUME NEW w \in Workers, NEW u \in Users, GetConnect(w, u) PROVE Registry'
  <2>1. /\ pc[w] = "blocked" /\ pc' = [pc EXCEPT ![w] = "banCheck"]
        /\ file' = [file EXCEPT ![w] = NoConn] /\ file[w] \notin met
        /\ \A t \in Threads \ {w} : name'[t] = name[t]
        /\ UNCHANGED <<clients, fdt, peer, tasks, sock, conn, met>>
    BY <1>5 DEF GetConnect, Received, Clean
  <2>2. OneNumber'
    BY <2>1 DEF Registry, OneNumber
  <2>3. Queue'
    BY <2>1 DEF Registry, Queue, OneNumber, OneWorker, NewIsOpen, EndsMet
  <2>4. OneWorker'
    BY <2>1 DEF Registry, OneWorker, Queue, OneNumber
  <2>5. NewIsOpen'
    BY <2>1 DEF Registry, NewIsOpen, OneWorker, EndsMet, Deciding
  <2>6. EndsMet'
    BY <2>1 DEF Registry, EndsMet, Listed, NewIsOpen
  <2>7. Listed'
    BY <2>1 DEF Registry, Listed, NewIsOpen, EndsMet, ErasedFirst, Deciding
  <2>8. ErasedFirst'
    BY <2>1 DEF Registry, ErasedFirst, Listed, EndsMet, NewIsOpen, Deciding
  <2>9. Served'
    BY <2>1 DEF Registry, Served, OneWorker, Listed, NewIsOpen, Deciding, ErasedFirst
  <2> QED
    BY <2>2, <2>3, <2>4, <2>5, <2>6, <2>7, <2>8, <2>9 DEF Registry
<1>6. ASSUME NEW w \in Workers, GetDisconnect(w) PROVE Registry'
  BY <1>6 DEF GetDisconnect, Received, Registry, OneNumber, Queue, OneWorker,
              NewIsOpen, EndsMet, Listed, ErasedFirst, Served, Deciding
<1>7. ASSUME NEW w \in Workers, GetOther(w) PROVE Registry'
  BY <1>7 DEF GetOther, Received, Registry, OneNumber, Queue, OneWorker,
              NewIsOpen, EndsMet, Listed, ErasedFirst, Served, Deciding
<1>8. ASSUME NEW w \in Workers, GetBadFrame(w) PROVE Registry'
  BY <1>8 DEF GetBadFrame, Received, Registry, OneNumber, Queue, OneWorker,
              NewIsOpen, EndsMet, Listed, ErasedFirst, Served, Deciding
<1>9. ASSUME NEW w \in Workers, GetEof(w) PROVE Registry'
  BY <1>9 DEF GetEof, Received, Registry, OneNumber, Queue, OneWorker,
              NewIsOpen, EndsMet, Listed, ErasedFirst, Served, Deciding
<1> QED
  BY <1>1, <1>2, <1>3, <1>4, <1>5, <1>6, <1>7, <1>8, <1>9 DEF Network, Frame

\* handleConnect, and the failure branch of the receive loop.
LEMMA RegistryStepHandler ==
  ASSUME Typed, Registry, Clean',
         NEW w \in Workers, Handler(w)
  PROVE  Registry'
<1> USE SessionsAssumption
    DEF Typed, TypeOK, SockTyped, Threads, Ends, Goto, Uses, Gets, kernel, locals,
        reader, others, history, asked
<1>1. CASE BanCheck(w) /\ name[w] \in banned
  <2>1. /\ pc[w] = "banCheck" /\ pc' = [pc EXCEPT ![w] = "recv"]
        /\ fdt' = [fdt EXCEPT ![sock[w]] = NoConn]
        /\ \A t \in Threads \ {w} : name'[t] = name[t]
        /\ UNCHANGED <<clients, peer, tasks, sock, conn, file, met>>
    BY <1>1 DEF BanCheck, Return
  <2>2. OneNumber'
    BY <2>1 DEF Registry, OneNumber
  <2>3. Queue'
    <3>1. /\ fdt[sock[w]] = conn[w] /\ sock[w] \in Fds
          /\ \A k \in 1..Len(tasks) : conn[w] # fdt[tasks[k]] /\ tasks[k] \in Fds
      BY <2>1 DEF Registry, Queue, NewIsOpen, Deciding
    <3>2. \A k \in 1..Len(tasks) : fdt'[tasks[k]] = fdt[tasks[k]]
      BY <2>1, <3>1
    <3> QED
      BY <2>1, <3>2 DEF Registry, Queue
  <2>4. OneWorker'
    BY <2>1 DEF Registry, OneWorker, Queue, OneNumber
  <2>5. NewIsOpen'
    BY <2>1 DEF Registry, NewIsOpen, OneWorker, EndsMet, Deciding
  <2>6. EndsMet'
    BY <2>1 DEF Registry, EndsMet, Listed, NewIsOpen
  <2>7. Listed'
    BY <2>1 DEF Registry, Listed, NewIsOpen, EndsMet, ErasedFirst, Deciding
  <2>8. ErasedFirst'
    BY <2>1 DEF Registry, ErasedFirst, Listed, EndsMet, NewIsOpen, Deciding
  <2>9. Served'
    BY <2>1 DEF Registry, Served, OneWorker, Listed, NewIsOpen, Deciding, ErasedFirst
  <2> QED
    BY <2>2, <2>3, <2>4, <2>5, <2>6, <2>7, <2>8, <2>9 DEF Registry
<1>2. CASE BanCheck(w) /\ name[w] \notin banned
  <2>1. /\ pc[w] = "banCheck" /\ pc' = [pc EXCEPT ![w] = "takenCheck"]
        /\ UNCHANGED <<clients, fdt, peer, tasks, sock, name, conn, file, met>>
    BY <1>2 DEF BanCheck
  <2>2. OneNumber'
    BY <2>1 DEF Registry, OneNumber
  <2>3. Queue'
    BY <2>1 DEF Registry, Queue, OneNumber, OneWorker, NewIsOpen, EndsMet
  <2>4. OneWorker'
    BY <2>1 DEF Registry, OneWorker, Queue, OneNumber
  <2>5. NewIsOpen'
    BY <2>1 DEF Registry, NewIsOpen, OneWorker, EndsMet, Deciding
  <2>6. EndsMet'
    BY <2>1 DEF Registry, EndsMet, Listed, NewIsOpen
  <2>7. Listed'
    BY <2>1 DEF Registry, Listed, NewIsOpen, EndsMet, ErasedFirst, Deciding
  <2>8. ErasedFirst'
    BY <2>1 DEF Registry, ErasedFirst, Listed, EndsMet, NewIsOpen, Deciding
  <2>9. Served'
    BY <2>1 DEF Registry, Served, OneWorker, Listed, NewIsOpen, Deciding, ErasedFirst
  <2> QED
    BY <2>2, <2>3, <2>4, <2>5, <2>6, <2>7, <2>8, <2>9 DEF Registry
<1>3. CASE TakenCheck(w)
  <2>1. /\ pc[w] = "takenCheck"
        /\ \E to \in {"recv", "register"} : pc' = [pc EXCEPT ![w] = to]
        /\ \A t \in Threads \ {w} : name'[t] = name[t]
        /\ UNCHANGED <<clients, fdt, peer, tasks, sock, conn, file, met>>
    BY <1>3 DEF TakenCheck, Return
  <2>2. OneNumber'
    BY <2>1 DEF Registry, OneNumber
  <2>3. Queue'
    BY <2>1 DEF Registry, Queue, OneNumber, OneWorker, NewIsOpen, EndsMet
  <2>4. OneWorker'
    BY <2>1 DEF Registry, OneWorker, Queue, OneNumber
  <2>5. NewIsOpen'
    BY <2>1 DEF Registry, NewIsOpen, OneWorker, EndsMet, Deciding
  <2>6. EndsMet'
    BY <2>1 DEF Registry, EndsMet, Listed, NewIsOpen
  <2>7. Listed'
    BY <2>1 DEF Registry, Listed, NewIsOpen, EndsMet, ErasedFirst, Deciding
  <2>8. ErasedFirst'
    BY <2>1 DEF Registry, ErasedFirst, Listed, EndsMet, NewIsOpen, Deciding
  <2>9. Served'
    BY <2>1 DEF Registry, Served, OneWorker, Listed, NewIsOpen, Deciding, ErasedFirst
  <2> QED
    BY <2>2, <2>3, <2>4, <2>5, <2>6, <2>7, <2>8, <2>9 DEF Registry
<1>4. CASE Register(w)
  BY <1>4 DEF Register, Clean, NameTyped, Registry, OneNumber, Queue, OneWorker,
              NewIsOpen, EndsMet, Listed, ErasedFirst, Served, Deciding
<1>5. CASE Reply(w)
  <2>1. /\ pc[w] = "reply" /\ pc' = [pc EXCEPT ![w] = "recv"]
        /\ \A t \in Threads \ {w} : name'[t] = name[t]
        /\ UNCHANGED <<clients, fdt, peer, tasks, sock, conn, file, met>>
    BY <1>5 DEF Reply, Return
  <2>2. OneNumber'
    BY <2>1 DEF Registry, OneNumber
  <2>3. Queue'
    BY <2>1 DEF Registry, Queue, OneNumber, OneWorker, NewIsOpen, EndsMet
  <2>4. OneWorker'
    BY <2>1 DEF Registry, OneWorker, Queue, OneNumber
  <2>5. NewIsOpen'
    BY <2>1 DEF Registry, NewIsOpen, OneWorker, EndsMet, Deciding
  <2>6. EndsMet'
    BY <2>1 DEF Registry, EndsMet, Listed, NewIsOpen
  <2>7. Listed'
    BY <2>1 DEF Registry, Listed, NewIsOpen, EndsMet, ErasedFirst, Deciding
  <2>8. ErasedFirst'
    BY <2>1 DEF Registry, ErasedFirst, Listed, EndsMet, NewIsOpen, Deciding
  <2>9. Served'
    BY <2>1 DEF Registry, Served, OneWorker, Listed, NewIsOpen, Deciding, ErasedFirst
  <2> QED
    BY <2>2, <2>3, <2>4, <2>5, <2>6, <2>7, <2>8, <2>9 DEF Registry
<1>6. CASE Gone(w) /\ NamesOf(sock[w]) = {}
  <2>1. /\ pc[w] = "gone" /\ pc' = [pc EXCEPT ![w] = "idle"]
        /\ \A u \in Users : clients[u] # sock[w]
        /\ \A t \in Threads \ {w} : name'[t] = name[t]
        /\ sock' = [sock EXCEPT ![w] = NoFd] /\ conn' = [conn EXCEPT ![w] = NoConn]
        /\ UNCHANGED <<clients, fdt, peer, tasks, file, met>>
    BY <1>6 DEF Gone, NamesOf, Return
  <2>2. OneNumber'
    BY <2>1 DEF Registry, OneNumber
  <2>3. Queue'
    BY <2>1 DEF Registry, Queue, OneNumber, OneWorker, NewIsOpen, EndsMet
  <2>4. OneWorker'
    BY <2>1 DEF Registry, OneWorker, Queue, OneNumber
  <2>5. NewIsOpen'
    BY <2>1 DEF Registry, NewIsOpen, OneWorker, EndsMet, Deciding
  <2>6. EndsMet'
    BY <2>1 DEF Registry, EndsMet, Listed, NewIsOpen
  <2>7. Listed'
    BY <2>1 DEF Registry, Listed, NewIsOpen, EndsMet, ErasedFirst, Deciding
  <2>8. ErasedFirst'
    BY <2>1 DEF Registry, ErasedFirst, Listed, EndsMet, NewIsOpen, Deciding
  <2>9. Served'
    BY <2>1 DEF Registry, Served, OneWorker, Listed, NewIsOpen, Deciding, ErasedFirst
  <2> QED
    BY <2>2, <2>3, <2>4, <2>5, <2>6, <2>7, <2>8, <2>9 DEF Registry
<1>7. CASE Gone(w) /\ NamesOf(sock[w]) # {}
  <2>1. /\ pc[w] = "gone" /\ pc' = [pc EXCEPT ![w] = "lookup"]
        /\ UNCHANGED <<clients, fdt, peer, tasks, sock, name, conn, file, met>>
    BY <1>7 DEF Gone
  <2>2. OneNumber'
    BY <2>1 DEF Registry, OneNumber
  <2>3. Queue'
    BY <2>1 DEF Registry, Queue, OneNumber, OneWorker, NewIsOpen, EndsMet
  <2>4. OneWorker'
    BY <2>1 DEF Registry, OneWorker, Queue, OneNumber
  <2>5. NewIsOpen'
    BY <2>1 DEF Registry, NewIsOpen, OneWorker, EndsMet, Deciding
  <2>6. EndsMet'
    BY <2>1 DEF Registry, EndsMet, Listed, NewIsOpen
  <2>7. Listed'
    BY <2>1 DEF Registry, Listed, NewIsOpen, EndsMet, ErasedFirst, Deciding
  <2>8. ErasedFirst'
    BY <2>1 DEF Registry, ErasedFirst, Listed, EndsMet, NewIsOpen, Deciding
  <2>9. Served'
    BY <2>1 DEF Registry, Served, OneWorker, Listed, NewIsOpen, Deciding, ErasedFirst
  <2> QED
    BY <2>2, <2>3, <2>4, <2>5, <2>6, <2>7, <2>8, <2>9 DEF Registry
<1> QED
  BY <1>1, <1>2, <1>3, <1>4, <1>5, <1>6, <1>7 DEF Handler

\* handleDisconnect and disconnectUser, by whatever thread.
LEMMA RegistryStepEnding ==
  ASSUME Typed, Registry, Clean',
         NEW t \in Threads, Ending(t)
  PROVE  Registry'
<1> USE SessionsAssumption
    DEF Typed, TypeOK, SockTyped, Threads, Ends, Goto, Uses, Gets, kernel, locals,
        reader, others, history, asked
<1>1. CASE Lookup(t) /\ NamesOf(sock[t]) = {}
  <2> PICK to : to = Caller(t)
    OBVIOUS
  <2>1. /\ pc[t] = "lookup" /\ pc' = [pc EXCEPT ![t] = to]
        /\ to \in {"recv", "idle", "next", "ban"}
        /\ t \in Workers => to \in {"recv", "idle"}
        /\ \A u \in Users : clients[u] # sock[t]
        /\ \A r \in Threads \ {t} : name'[r] = name[r]
        /\ sock' = [sock EXCEPT ![t] = IF to = "recv" THEN @ ELSE NoFd]
        /\ conn' = [conn EXCEPT ![t] = IF to = "recv" THEN @ ELSE NoConn]
        /\ UNCHANGED <<clients, fdt, peer, tasks, file, met>>
    BY <1>1, CallerFacts DEF Lookup, NamesOf, Return
  <2>2. OneNumber'
    BY <2>1 DEF Registry, OneNumber
  <2>3. Queue'
    BY <2>1 DEF Registry, Queue, OneNumber, OneWorker, NewIsOpen, EndsMet
  <2>4. OneWorker'
    BY <2>1 DEF Registry, OneWorker, Queue, OneNumber
  <2>5. NewIsOpen'
    BY <2>1 DEF Registry, NewIsOpen, OneWorker, EndsMet, Deciding
  <2>6. EndsMet'
    BY <2>1 DEF Registry, EndsMet, Listed, NewIsOpen
  <2>7. Listed'
    BY <2>1 DEF Registry, Listed, NewIsOpen, EndsMet, ErasedFirst, Deciding
  <2>8. ErasedFirst'
    BY <2>1 DEF Registry, ErasedFirst, Listed, EndsMet, NewIsOpen, Deciding
  <2>9. Served'
    BY <2>1 DEF Registry, Served, OneWorker, Listed, NewIsOpen, Deciding, ErasedFirst
  <2> QED
    BY <2>2, <2>3, <2>4, <2>5, <2>6, <2>7, <2>8, <2>9 DEF Registry
<1>2. ASSUME NEW u \in NamesOf(sock[t]), Lookup(t), name' = [name EXCEPT ![t] = u],
             Goto(t, "lookup", "unregister"), UNCHANGED <<sock, conn>>
      PROVE  Registry'
  <2>1. /\ pc[t] = "lookup" /\ pc' = [pc EXCEPT ![t] = "unregister"]
        /\ u \in Users /\ clients[u] = sock[t] /\ name' = [name EXCEPT ![t] = u]
        /\ fdt[sock[t]] \in {conn[t], NoConn}
        /\ UNCHANGED <<clients, fdt, peer, tasks, sock, conn, file, met>>
    BY <1>2 DEF Lookup, NamesOf, Clean
  <2>2. OneNumber'
    BY <2>1 DEF Registry, OneNumber
  <2>3. Queue'
    BY <2>1 DEF Registry, Queue, OneNumber, OneWorker, NewIsOpen, EndsMet
  <2>4. OneWorker'
    BY <2>1 DEF Registry, OneWorker, Queue, OneNumber
  <2>5. NewIsOpen'
    BY <2>1 DEF Registry, NewIsOpen, OneWorker, EndsMet, Deciding
  <2>6. EndsMet'
    BY <2>1 DEF Registry, EndsMet, Listed, NewIsOpen
  <2>7. Listed'
    BY <2>1 DEF Registry, Listed, NewIsOpen, EndsMet, ErasedFirst, Deciding
  <2>8. ErasedFirst'
    <3>1. fdt[clients[u]] = conn[t] /\ clients[u] \in Fds
      BY <2>1 DEF Registry, Listed
    <3>2. \A v \in Users : clients[v] # NoFd /\ fdt[clients[v]] = conn[t] => v = u
      BY <2>1, <3>1 DEF Registry, OneNumber, Listed
    <3> QED
      BY <2>1, <3>2 DEF Registry, ErasedFirst
  <2>9. Served'
    BY <2>1 DEF Registry, Served, OneWorker, Listed, NewIsOpen, Deciding, ErasedFirst
  <2> QED
    BY <2>2, <2>3, <2>4, <2>5, <2>6, <2>7, <2>8, <2>9 DEF Registry
<1>3. CASE Unregister(t)
  BY <1>3 DEF Unregister, NameTyped, Registry, OneNumber, Queue, OneWorker,
              NewIsOpen, EndsMet, Listed, ErasedFirst, Served, Deciding
<1>4. CASE Close(t)
  <2> PICK to : to = Caller(t)
    OBVIOUS
  <2>1. /\ pc[t] = "close" /\ pc' = [pc EXCEPT ![t] = to]
        /\ to \in {"recv", "idle", "next", "ban"}
        /\ t \in Workers => to \in {"recv", "idle"}
        /\ fdt[sock[t]] \in {conn[t], NoConn}
        /\ fdt' = [fdt EXCEPT ![sock[t]] = NoConn]
        /\ \A r \in Threads \ {t} : name'[r] = name[r]
        /\ sock' = [sock EXCEPT ![t] = IF to = "recv" THEN @ ELSE NoFd]
        /\ conn' = [conn EXCEPT ![t] = IF to = "recv" THEN @ ELSE NoConn]
        /\ UNCHANGED <<clients, peer, tasks, file, met>>
    BY <1>4, CallerFacts DEF Close, Return, Clean
  <2>2. OneNumber'
    BY <2>1 DEF Registry, OneNumber
  <2>3. Queue'
    BY <2>1 DEF Registry, Queue, OneNumber, OneWorker, NewIsOpen, EndsMet
  <2>4. OneWorker'
    BY <2>1 DEF Registry, OneWorker, Queue, OneNumber
  <2>5. NewIsOpen'
    BY <2>1 DEF Registry, NewIsOpen, OneWorker, EndsMet, Deciding
  <2>6. EndsMet'
    BY <2>1 DEF Registry, EndsMet, Listed, NewIsOpen
  <2>7. Listed'
    BY <2>1 DEF Registry, Listed, NewIsOpen, EndsMet, ErasedFirst, Deciding
  <2>8. ErasedFirst'
    BY <2>1 DEF Registry, ErasedFirst, Listed, EndsMet, NewIsOpen, Deciding
  <2>9. Served'
    BY <2>1 DEF Registry, Served, OneWorker, Listed, NewIsOpen, Deciding, ErasedFirst
  <2> QED
    BY <2>2, <2>3, <2>4, <2>5, <2>6, <2>7, <2>8, <2>9 DEF Registry
<1> QED
  BY <1>1, <1>2, <1>3, <1>4 DEF Ending, Lookup

\* The heartbeat and the admin shell take their sockets from the map.
LEMMA RegistryStepOthers ==
  ASSUME Typed, Registry, Clean',
         \/ \E h \in Monitors : Heartbeat(h)
         \/ \E a \in Admins : Shell(a)
  PROVE  Registry'
<1> USE SessionsAssumption
    DEF Typed, TypeOK, SockTyped, Threads, Ends, Goto, Uses, Gets, kernel, locals,
        reader, others, history, asked
<1>1. ASSUME NEW h \in Monitors, StartPings(h) \/ PingsDone(h) \/ SweepDone(h)
      PROVE  Registry'
  <2>1. PICK to \in {"ping", "check", "idle"} :
          /\ pc[h] \in {"idle", "ping", "next"} /\ h \in Threads \ Workers
          /\ pc' = [pc EXCEPT ![h] = to]
          /\ UNCHANGED <<clients, fdt, peer, tasks, sock, name, conn, file, met>>
    BY <1>1 DEF StartPings, PingsDone, SweepDone
  <2> QED
    BY <2>1 DEF Registry, OneNumber, Queue, OneWorker, NewIsOpen, EndsMet, Listed,
                ErasedFirst, Served, Deciding
<1>2. ASSUME NEW h \in Monitors, NEW overdue \in SUBSET Registered,
             Sweep(h, overdue)
      PROVE  Registry'
  <2>1. /\ pc[h] = "check" /\ pc' = [pc EXCEPT ![h] = "next"]
        /\ UNCHANGED <<clients, fdt, peer, tasks, sock, name, conn, file, met>>
    BY <1>2 DEF Sweep
  <2> QED
    BY <2>1 DEF Registry, OneNumber, Queue, OneWorker, NewIsOpen, EndsMet, Listed,
                ErasedFirst, Served, Deciding
<1>3. ASSUME NEW h \in Monitors, NEW u \in Users \ Registered, NextLate(h, u)
      PROVE  Registry'
  <2>1. /\ pc[h] = "next" /\ pc' = [pc EXCEPT ![h] = "next"]
        /\ UNCHANGED <<clients, fdt, peer, tasks, sock, name, conn, file, met>>
    BY <1>3 DEF NextLate
  <2>2. OneNumber'
    BY <2>1 DEF Registry, OneNumber
  <2>3. Queue'
    BY <2>1 DEF Registry, Queue, OneNumber, OneWorker, NewIsOpen, EndsMet
  <2>4. OneWorker'
    BY <2>1 DEF Registry, OneWorker, Queue, OneNumber
  <2>5. NewIsOpen'
    BY <2>1 DEF Registry, NewIsOpen, OneWorker, EndsMet, Deciding
  <2>6. EndsMet'
    BY <2>1 DEF Registry, EndsMet, Listed, NewIsOpen
  <2>7. Listed'
    BY <2>1 DEF Registry, Listed, NewIsOpen, EndsMet, ErasedFirst, Deciding
  <2>8. ErasedFirst'
    BY <2>1 DEF Registry, ErasedFirst, Listed, EndsMet, NewIsOpen, Deciding
  <2>9. Served'
    BY <2>1 DEF Registry, Served, OneWorker, Listed, NewIsOpen, Deciding, ErasedFirst
  <2> QED
    BY <2>2, <2>3, <2>4, <2>5, <2>6, <2>7, <2>8, <2>9 DEF Registry
<1>4. ASSUME NEW h \in Monitors, NEW u \in Registered, NextLate(h, u)
      PROVE  Registry'
  <2>1. /\ u \in Users /\ clients[u] \in Fds /\ h \in Threads \ Workers
        /\ pc[h] = "next" /\ pc' = [pc EXCEPT ![h] = "lookup"]
        /\ sock' = [sock EXCEPT ![h] = clients[u]]
        /\ conn' = [conn EXCEPT ![h] = fdt[clients[u]]]
        /\ UNCHANGED <<clients, fdt, peer, tasks, name, file, met>>
    BY <1>4 DEF NextLate, Registered
  <2>2. OneNumber'
    BY <2>1 DEF Registry, OneNumber
  <2>3. Queue'
    BY <2>1 DEF Registry, Queue, OneNumber, OneWorker, NewIsOpen, EndsMet
  <2>4. OneWorker'
    BY <2>1 DEF Registry, OneWorker, Queue, OneNumber
  <2>5. NewIsOpen'
    BY <2>1 DEF Registry, NewIsOpen, OneWorker, EndsMet, Deciding
  <2>6. EndsMet'
    BY <2>1 DEF Registry, EndsMet, Listed, NewIsOpen
  <2>7. Listed'
    BY <2>1 DEF Registry, Listed, NewIsOpen, EndsMet, ErasedFirst, Deciding
  <2>8. ErasedFirst'
    BY <2>1 DEF Registry, ErasedFirst, Listed, EndsMet, NewIsOpen, Deciding
  <2>9. Served'
    BY <2>1 DEF Registry, Served, OneWorker, Listed, NewIsOpen, Deciding, ErasedFirst
  <2> QED
    BY <2>2, <2>3, <2>4, <2>5, <2>6, <2>7, <2>8, <2>9 DEF Registry
<1>5. ASSUME NEW a \in Admins, NEW u \in Users, NEW isBan \in BOOLEAN,
             Evict(a, u, isBan)
      PROVE  Registry'
  <2>1. /\ u \in Users /\ clients[u] \in Fds /\ a \in Threads \ Workers
        /\ pc[a] = "idle" /\ pc' = [pc EXCEPT ![a] = "unregister"]
        /\ sock' = [sock EXCEPT ![a] = clients[u]]
        /\ conn' = [conn EXCEPT ![a] = fdt[clients[u]]]
        /\ name' = [name EXCEPT ![a] = u]
        /\ UNCHANGED <<clients, fdt, peer, tasks, file, met>>
    BY <1>5 DEF Evict, Registered
  <2>2. OneNumber'
    BY <2>1 DEF Registry, OneNumber
  <2>3. Queue'
    BY <2>1 DEF Registry, Queue, OneNumber, OneWorker, NewIsOpen, EndsMet
  <2>4. OneWorker'
    BY <2>1 DEF Registry, OneWorker, Queue, OneNumber
  <2>5. NewIsOpen'
    BY <2>1 DEF Registry, NewIsOpen, OneWorker, EndsMet, Deciding
  <2>6. EndsMet'
    BY <2>1 DEF Registry, EndsMet, Listed, NewIsOpen
  <2>7. Listed'
    BY <2>1 DEF Registry, Listed, NewIsOpen, EndsMet, ErasedFirst, Deciding
  <2>8. ErasedFirst'
    <3>1. fdt[clients[u]] \in met /\ clients[u] \in Fds
      BY <2>1 DEF Registry, Listed
    <3>2. \A v \in Users :
            clients[v] # NoFd /\ fdt[clients[v]] = fdt[clients[u]] => v = u
      BY <2>1, <3>1 DEF Registry, OneNumber, Listed
    <3> QED
      BY <2>1, <3>2 DEF Registry, ErasedFirst
  <2>9. Served'
    BY <2>1 DEF Registry, Served, OneWorker, Listed, NewIsOpen, Deciding, ErasedFirst
  <2> QED
    BY <2>2, <2>3, <2>4, <2>5, <2>6, <2>7, <2>8, <2>9 DEF Registry
<1>6. ASSUME NEW a \in Admins, BanlistAdd(a) PROVE Registry'
  <2>1. /\ pc[a] = "ban" /\ pc' = [pc EXCEPT ![a] = "idle"]
        /\ \A t \in Threads \ {a} : name'[t] = name[t]
        /\ \A t \in Threads \ {a} : sock'[t] = sock[t] /\ conn'[t] = conn[t]
        /\ conn'[a] = NoConn
        /\ UNCHANGED <<clients, fdt, peer, tasks, file, met>>
    BY <1>6 DEF BanlistAdd, Return
  <2>2. OneNumber'
    BY <2>1 DEF Registry, OneNumber
  <2>3. Queue'
    BY <2>1 DEF Registry, Queue, OneNumber, OneWorker, NewIsOpen, EndsMet
  <2>4. OneWorker'
    BY <2>1 DEF Registry, OneWorker, Queue, OneNumber
  <2>5. NewIsOpen'
    BY <2>1 DEF Registry, NewIsOpen, OneWorker, EndsMet, Deciding
  <2>6. EndsMet'
    BY <2>1 DEF Registry, EndsMet, Listed, NewIsOpen
  <2>7. Listed'
    BY <2>1 DEF Registry, Listed, NewIsOpen, EndsMet, ErasedFirst, Deciding
  <2>8. ErasedFirst'
    BY <2>1 DEF Registry, ErasedFirst, Listed, EndsMet, NewIsOpen, Deciding
  <2>9. Served'
    BY <2>1 DEF Registry, Served, OneWorker, Listed, NewIsOpen, Deciding, ErasedFirst
  <2> QED
    BY <2>2, <2>3, <2>4, <2>5, <2>6, <2>7, <2>8, <2>9 DEF Registry
<1>7. ASSUME NEW a \in Admins, NEW u \in Users, Unban(a, u) PROVE Registry'
  BY <1>7 DEF Unban, Registry, OneNumber, Queue, OneWorker,
              NewIsOpen, EndsMet, Listed, ErasedFirst, Served, Deciding
<1> QED
  BY <1>1, <1>2, <1>3, <1>4, <1>5, <1>6, <1>7 DEF Heartbeat, Shell

\* The inductive invariant holds as long as no flag is set.
LEMMA RegistryInvariant == Spec => [](Typed /\ (Clean => Registry))
<1>1. Init => Typed /\ (Clean => Registry)
  BY TypedInit, RegistryInit
<1>2. Typed /\ (Clean => Registry) /\ [Next]_vars => (Typed /\ (Clean => Registry))'
  <2> SUFFICES ASSUME Typed, Clean => Registry, [Next]_vars
               PROVE  Typed' /\ (Clean' => Registry')
    BY DEF Clean
  <2>1. Typed'
    BY TypedStep
  <2>2. ASSUME Clean' PROVE Registry'
    <3>1. Registry
      BY <2>1, <2>2, CleanBefore
    <3>2. CASE UNCHANGED vars
      BY <3>1, <3>2
      DEF vars, kernel, locals, reader, others, history, asked, Registry, OneNumber,
          Queue, OneWorker, NewIsOpen, EndsMet, Listed, ErasedFirst, Served, Deciding,
          Ends
    <3> QED
      BY <2>2, <3>1, <3>2, RegistryStepReceive, RegistryStepHandler, RegistryStepEnding,
         RegistryStepOthers
      DEF Next
  <2> QED
    BY <2>1, <2>2
<1> QED
  BY <1>1, <1>2, PTL DEF Spec

\* Every name in the map clients has an open socket, for any number of workers,
\* clients, names and descriptors, reused or not: no interleaving of DISCONNECT, end
\* of file, heartbeat, /kick and /ban closes a registered socket before its entry is
\* gone, until a thread uses a number that names another connection or a registered
\* client sends CONNECT again.
THEOREM RegisteredAreOpen == Spec => []RegisteredOpen
<1>1. Typed /\ (Clean => Registry) => RegisteredOpen
  BY SessionsAssumption
  DEF Typed, TypeOK, Registry, Listed, RegisteredOpen, Registered
<1> QED
  BY <1>1, RegistryInvariant, PTL

\* Every name in the map has a worker in the receive loop of its socket, under the
\* same condition.
THEOREM RegisteredAreServed == Spec => []RegisteredServed
<1>1. Typed /\ (Clean => Registry) => RegisteredServed
  BY DEF Registry, Served, RegisteredServed, Registered
<1> QED
  BY <1>1, RegistryInvariant, PTL

\* A connection is read by one worker at a time, under the same condition.
THEOREM ReadersAreExclusive == Spec => []ExclusiveReader
<1>1. Typed /\ (Clean => Registry) => ExclusiveReader
  BY DEF Registry, OneWorker, ExclusiveReader
<1> QED
  BY <1>1, RegistryInvariant, PTL

-----------------------------------------------------------------------------
(***************************************************************************)
(* Bans, whatever happens to the numbers                                   *)
(***************************************************************************)
\* No step but /unban opens a settled ban: handleConnect passes its ban check only
\* for names that are not banned.
LEMMA BanStep ==
  ASSUME Typed, [Next]_vars, NEW u \in banned', ShutOut(u)
  PROVE  ShutOut(u)'
<1> USE SessionsAssumption
    DEF ShutOut, Typed, TypeOK, Registered, Threads, Goto, locals
<1>1. ASSUME NEW c \in Conns, NEW f \in Fds, Accept(c, f) PROVE ShutOut(u)'
  BY <1>1 DEF Accept
<1>2. ASSUME NEW c \in Conns, PeerClose(c) PROVE ShutOut(u)'
  BY <1>2 DEF PeerClose
<1>3. ASSUME NEW w \in Workers, TakeTask(w) \/ Recv(w) PROVE ShutOut(u)'
  BY <1>3 DEF TakeTask, Recv
<1>4. ASSUME NEW w \in Workers, Frame(w) PROVE ShutOut(u)'
  BY <1>4 DEF Frame, Received, GetConnect, GetDisconnect, GetOther, GetBadFrame, GetEof
<1>5. ASSUME NEW w \in Workers, BanCheck(w) PROVE ShutOut(u)'
  BY <1>5 DEF BanCheck, Return
<1>6. ASSUME NEW w \in Workers, TakenCheck(w) PROVE ShutOut(u)'
  BY <1>6 DEF TakenCheck, Return
<1>7. ASSUME NEW w \in Workers, Register(w) PROVE ShutOut(u)'
  <2>1. name[w] # u
    BY <1>7 DEF Register
  <2> QED
    BY <1>7, <2>1 DEF Register
<1>8. ASSUME NEW w \in Workers, Reply(w) \/ Gone(w) PROVE ShutOut(u)'
  BY <1>8 DEF Reply, Gone, Return
<1>9. ASSUME NEW t \in Threads, Lookup(t) PROVE ShutOut(u)'
  BY <1>9, CallerFacts DEF Lookup, NamesOf, Return
<1>10. ASSUME NEW t \in Threads, Unregister(t) PROVE ShutOut(u)'
  BY <1>10 DEF Unregister
<1>11. ASSUME NEW t \in Threads, Close(t) PROVE ShutOut(u)'
  BY <1>11, CallerFacts DEF Close, Return
<1>12. ASSUME NEW h \in Monitors, Heartbeat(h) PROVE ShutOut(u)'
  BY <1>12 DEF Heartbeat, StartPings, PingsDone, Sweep, NextLate, SweepDone
<1>13. ASSUME NEW a \in Admins, Shell(a) PROVE ShutOut(u)'
  BY <1>13 DEF Shell, Evict, BanlistAdd, Unban, Return
<1>14. CASE UNCHANGED vars
  BY <1>14 DEF vars
<1> QED
  BY <1>1, <1>2, <1>3, <1>4, <1>5, <1>6, <1>7, <1>8, <1>9, <1>10, <1>11, <1>12,
     <1>13, <1>14
  DEF Next, Network, Handler, Ending

\* A ban that has settled keeps the name out until /unban, in every build, whatever
\* happens to descriptor numbers and whatever clients send.
THEOREM BansStay == Spec => BanSettles
<1>1. Typed /\ [Next]_vars => [\A u \in banned' : ShutOut(u) => ShutOut(u)']_vars
  BY BanStep
<1> QED
  BY <1>1, TypedInit, TypedStep, PTL DEF Spec, BanSettles

=============================================================================
