----------------------------- MODULE Lifecycle -----------------------------
(***************************************************************************)
(* The server process from start to exit and start again: Server::start    *)
(* and Server::stop, the main thread and its signal handler, the thread    *)
(* pool with its condition variable, the PING loop as the holder of        *)
(* clientsMutex, the admin shell's commands that write the ban list, and   *)
(* the file banlist, the only state that outlives the process.             *)
(*                                                                         *)
(* stop() can be run by the admin thread (/stop), by the handler of a      *)
(* first SIGINT or SIGTERM, which the kernel gives to the main thread, and *)
(* by the handler of a second one, which goes to another thread, or to     *)
(* main again if the two differ.  The thread a handler runs on goes no     *)
(* further and keeps the mutex it holds: clientsMutex, or what Logger::log *)
(* holds (logMutex, and while it writes the allocator's lock).             *)
(* Connections are a number of tasks; what a connection does is in         *)
(* Sessions.  The members of Server destroyed after the pool, and what     *)
(* detached threads do with them, are not modelled.                        *)
(***************************************************************************)
EXTENDS Naturals, FiniteSets

CONSTANTS
  Users,     \* names the admin bans
  Workers,   \* threads of the pool
  MaxTasks   \* bound: connections waiting for a worker

ASSUME LifecycleAssumption ==
  IsFiniteSet(Workers) /\ MaxTasks \in Nat

VARIABLES
  main,      \* main thread: "down" (no process), "start", "launch" (its threads),
             \* "loop", and in ~ThreadPool "notifyAll", "join"
  under,     \* what the handler of each signal has interrupted: "nothing" (no
             \* signal yet), "main", "heart", a thread inside Logger::log
             \* ("logger"), one with clientsMutex ("holder"), or any "other"
  status,    \* Server::status
  stopping,  \* where each caller of Server::stop is
  admin,     \* admin thread: "idle", in saveBanlist "open" or "write", "ended"
  heart,     \* heartbeat thread: "sleep", "ping", "stuck" (its send blocks), "ended"
  acceptor,  \* accept thread: "accept", "notify"
  wpc,       \* the workers
  tasks,     \* length of ThreadPool::tasks
  poolStop,  \* ThreadPool::stop
  bannedUsers, \* Server::bannedUsers
  banlist,   \* the names in the file banlist
  wanted,    \* history: the bans the admin has asked for, in every run, but those
             \* that a start has lost
  fileBad    \* history: did the last save fail, or end with the process, or the
             \* start not read the file?

control == <<main, status, stopping, heart, under>>
pool == <<acceptor, wpc, tasks, poolStop>>
bans == <<bannedUsers, banlist, wanted, fileBad>>
vars == <<control, admin, pool, bans>>

Signals == {"first", "second"}
Callers == Signals \cup {"admin"}

\* Types of the variables.
TypeOK ==
  /\ main \in {"down", "start", "launch", "loop", "notifyAll", "join"}
  /\ under \in [Signals -> {"nothing", "main", "heart", "logger", "holder", "other"}]
  /\ status \in {"OFF", "STARTING", "RUNNING", "STOPPING"}
  /\ stopping \in [Callers -> {"no", "check", "mark", "close", "exit"}]
  /\ admin \in {"idle", "open", "write", "ended"}
  /\ heart \in {"sleep", "ping", "stuck", "ended"}
  /\ acceptor \in {"accept", "notify"}
  /\ wpc \in [Workers -> {"top", "sleepy", "asleep", "woken", "busy", "done"}]
  /\ tasks \in 0 .. MaxTasks
  /\ poolStop \in BOOLEAN
  /\ {bannedUsers, banlist, wanted} \subseteq SUBSET Users
  /\ fileBad \in BOOLEAN

NotStopping == [t \in Callers |-> "no"]
NoSignal == [s \in Signals |-> "nothing"]
AllWorkers(step) == [w \in Workers |-> step]

Init ==
  /\ main = "down" /\ status = "OFF" /\ stopping = NotStopping
  /\ under = NoSignal
  /\ admin = "ended" /\ heart = "ended"
  /\ acceptor = "accept" /\ wpc = AllWorkers("done") /\ tasks = 0 /\ poolStop = FALSE
  /\ bannedUsers = {} /\ banlist = {} /\ wanted = {}
  /\ fileBad = FALSE

\* The process ends: memory goes, and what saveBanlist has not yet written.
Down ==
  /\ main' = "down" /\ status' = "OFF" /\ stopping' = NotStopping
  /\ under' = NoSignal
  /\ admin' = "ended" /\ heart' = "ended"
  /\ acceptor' = "accept" /\ wpc' = AllWorkers("done") /\ tasks' = 0 /\ poolStop' = FALSE
  /\ bannedUsers' = {} /\ fileBad' = (fileBad \/ admin \in {"open", "write"})
  /\ UNCHANGED <<banlist, wanted>>

(***************************************************************************)
(* main and Server::start                                                  *)
(***************************************************************************)
Start ==
  /\ main = "down"
  /\ main' = "start" /\ status' = "STARTING"
  /\ UNCHANGED <<stopping, heart, under, admin, pool, bans>>

\* A signal handler on the main thread keeps it from going on.
MainAt(step) == main = step /\ stopping["first"] = "no"

\* socket, bind or listen fails, and main returns 1.
StartFails == MainAt("start") /\ Down

\* loadBanlist reads the file, or cannot open it or read on: the list is then
\* short or empty, and nothing is done about it.  What is lost here, or was not
\* in the file, is lost for good, and the history begins again.
Load(names) ==
  /\ bannedUsers' = names
  /\ wanted' = (IF fileBad \/ names # banlist THEN names ELSE wanted)
  /\ fileBad' = (names # banlist)

\* The pool is made, the ban list loaded, and the threads are started.
StartSucceeds ==
  /\ MainAt("start")
  /\ main' = "launch" /\ status' = "RUNNING"
  /\ admin' = "idle" /\ heart' = "sleep"
  /\ wpc' = AllWorkers("top")
  /\ \E names \in SUBSET banlist : Load(names)
  /\ UNCHANGED <<stopping, under, acceptor, tasks, poolStop, banlist>>

\* start returns to main.
Launched ==
  /\ MainAt("launch")
  /\ main' = "loop"
  /\ UNCHANGED <<status, stopping, heart, under, admin, pool, bans>>

(***************************************************************************)
(* ~Server and ~ThreadPool: stop is set and notified without queueMutex    *)
(***************************************************************************)
\* The loop of main ends; the stop() of ~Server returns at once.
MainLoopEnds ==
  /\ MainAt("loop") /\ status # "RUNNING"
  /\ main' = "notifyAll" /\ poolStop' = TRUE
  /\ UNCHANGED <<status, stopping, heart, under, admin, acceptor, wpc, tasks, bans>>

NotifyAll ==
  /\ MainAt("notifyAll") /\ main' = "join"
  /\ wpc' = [w \in Workers |-> IF wpc[w] = "asleep" THEN "woken" ELSE wpc[w]]
  /\ UNCHANGED <<status, stopping, heart, under, admin, acceptor, tasks, poolStop, bans>>

\* All workers are joined, and main returns.
Joined == MainAt("join") /\ (\A w \in Workers : wpc[w] = "done") /\ Down

(***************************************************************************)
(* Server::stop                                                            *)
(***************************************************************************)
StopAt(t, from, to) == stopping[t] = from /\ stopping' = [stopping EXCEPT ![t] = to]

\* No handler runs on a thread that is inside Logger::log.
LogMutexFree == \A s \in Signals : under[s] # "logger"

\* The threads the handler of a signal may stop, by what they do and hold.  main
\* logs while it starts and launches its threads, and in the handler of the first;
\* before it launches them there is no other thread.
Interrupted(s) ==
  {t \in {"main", "heart", "logger", "holder", "other"} :
     /\ s = "first" => t = "main" \/ (t = "logger" /\ main \in {"start", "launch"})
     /\ s = "second" => stopping["first"] # "no"
     /\ s = "second" /\ t = "logger" /\ main = "start" => stopping["first"] \in {"mark", "exit"}
     /\ t = "heart" => heart # "ended"
     /\ t = "logger" => LogMutexFree
     /\ t = "holder" => main # "start" /\ heart \in {"sleep", "ended"}}

\* A second signal comes while the handler of the first is running.
Signal(s) ==
  /\ main # "down" /\ StopAt(s, "no", "check")
  /\ \E t \in Interrupted(s) : under' = [under EXCEPT ![s] = t]
  /\ UNCHANGED <<main, status, heart, admin, pool, bans>>

\* /stop
cmdStop ==
  /\ admin = "idle" /\ StopAt("admin", "no", "check")
  /\ UNCHANGED <<main, status, heart, under, admin, pool, bans>>

\* Mutated form of StopCheck: only OFF counts as stopped.
StopCheckOnlyOff(t) ==
  \/ status = "OFF" /\ t \in Signals /\ stopping[t] = "check" /\ Down
  \/ /\ \/ status = "OFF" /\ t = "admin" /\ StopAt(t, "check", "no") /\ admin' = "ended"
        \/ status # "OFF" /\ StopAt(t, "check", "mark") /\ UNCHANGED admin
     /\ UNCHANGED <<main, status, heart, under, pool, bans>>
\* Stopped already: the signal handler exits all the same, the admin loop ends.
StopCheck(t) ==
  \/ stopping[t] = "check" /\ status \in {"OFF", "STOPPING"} /\ t \in Signals /\ Down
  \/ /\ \/ /\ status \in {"OFF", "STOPPING"} /\ t = "admin"
           /\ StopAt(t, "check", "no") /\ admin' = "ended"
        \/ /\ status \in {"STARTING", "RUNNING"} /\ StopAt(t, "check", "mark")
           /\ UNCHANGED admin
     /\ UNCHANGED <<main, status, heart, under, pool, bans>>

\* "Stopping server..." is logged, and the status set.
StopMark(t) ==
  /\ LogMutexFree /\ StopAt(t, "mark", "close") /\ status' = "STOPPING"
  /\ UNCHANGED <<main, heart, under, admin, pool, bans>>

\* clientsMutex is free unless the heartbeat is in its PING loop, or a thread
\* that holds it was interrupted.
ClientsMutexFree == heart \in {"sleep", "ended"} /\ under["second"] # "holder"

\* Close the clients' sockets under clientsMutex, and the listening socket.
StopClose(t) ==
  /\ ClientsMutexFree /\ StopAt(t, "close", "exit") /\ status' = "OFF"
  /\ UNCHANGED <<main, heart, under, admin, pool, bans>>

\* Mutated form of Exit: stop() returns instead, and leaves the end to main.
ExitReturns(t) ==
  /\ LogMutexFree /\ StopAt(t, "exit", "no")
  /\ UNCHANGED <<main, status, heart, under, admin, pool, bans>>
\* "Server stopped" is logged, and std::exit(0).
Exit(t) == LogMutexFree /\ stopping[t] = "exit" /\ Down

(***************************************************************************)
(* The thread pool.  A worker in "sleepy" has found nothing to do and      *)
(* holds queueMutex until it sleeps.                                       *)
(***************************************************************************)
QueueMutexFree == \A w \in Workers : wpc[w] # "sleepy"

WorkerAt(w, from, to) ==
  /\ wpc[w] \in from /\ wpc' = [wpc EXCEPT ![w] = to]
  /\ UNCHANGED <<control, admin, acceptor, poolStop, bans>>

\* while (!stop)
WorkerStops(w) == poolStop /\ WorkerAt(w, {"top"}, "done") /\ UNCHANGED tasks

\* Mutated form of WorkerLooks: a worker woken to stop pops the empty queue.
WorkerLooksPopsEmpty(w) ==
  /\ QueueMutexFree /\ (wpc[w] = "top" => ~poolStop)
  /\ \/ tasks > 0 /\ WorkerAt(w, {"top", "woken"}, "busy") /\ tasks' = tasks - 1
     \/ tasks = 0 /\ poolStop /\ WorkerAt(w, {"woken"}, "done") /\ tasks' = tasks - 1
     \/ tasks = 0 /\ ~poolStop /\ WorkerAt(w, {"top", "woken"}, "sleepy")
        /\ UNCHANGED tasks
\* Lock the queue, from the top of the loop or in the wait, and evaluate the
\* predicate: a task (taken even when the pool stops), stopped, or neither.
WorkerLooks(w) ==
  /\ QueueMutexFree /\ (wpc[w] = "top" => ~poolStop)
  /\ \/ tasks > 0 /\ WorkerAt(w, {"top", "woken"}, "busy") /\ tasks' = tasks - 1
     \/ tasks = 0 /\ poolStop /\ WorkerAt(w, {"woken"}, "done") /\ UNCHANGED tasks
     \/ tasks = 0 /\ ~poolStop /\ WorkerAt(w, {"top", "woken"}, "sleepy")
        /\ UNCHANGED tasks

WorkerSleeps(w) == WorkerAt(w, {"sleepy"}, "asleep") /\ UNCHANGED tasks

\* handleClientMessages returns: the connection has ended.
TaskEnds(w) == WorkerAt(w, {"busy"}, "top") /\ UNCHANGED tasks

AcceptorAt(from, to) ==
  /\ acceptor = from /\ acceptor' = to
  /\ UNCHANGED <<control, admin, poolStop, bans>>

\* Mutated form of Enqueue: nobody is notified when the queue had tasks already.
EnqueueLazy ==
  /\ status = "RUNNING" /\ QueueMutexFree /\ tasks < MaxTasks
  /\ AcceptorAt("accept", IF tasks = 0 THEN "notify" ELSE "accept")
  /\ tasks' = tasks + 1
  /\ UNCHANGED wpc
\* acceptClients: a connection is accepted and queued.
Enqueue ==
  /\ status = "RUNNING" /\ QueueMutexFree /\ tasks < MaxTasks
  /\ AcceptorAt("accept", "notify")
  /\ tasks' = tasks + 1
  /\ UNCHANGED wpc

NotifyOne ==
  /\ AcceptorAt("notify", "accept")
  /\ \/ \E w \in Workers : wpc[w] = "asleep" /\ wpc' = [wpc EXCEPT ![w] = "woken"]
     \/ (\A w \in Workers : wpc[w] # "asleep") /\ UNCHANGED wpc
  /\ UNCHANGED tasks

(***************************************************************************)
(* The heartbeat as the holder of clientsMutex (see Heartbeat)             *)
(***************************************************************************)
HeartAt(from, to) ==
  /\ under["second"] # "heart" /\ heart = from /\ heart' = to
  /\ UNCHANGED <<main, status, stopping, under, admin, pool, bans>>
StartPings == under["second"] # "holder" /\ HeartAt("sleep", "ping")
PingBlocks == HeartAt("ping", "stuck")
PingUnblocks == HeartAt("stuck", "ping")
\* Each PING is logged; the status is read once the mutex is free again.
PingsDone ==
  LogMutexFree /\ HeartAt("ping", IF status = "RUNNING" THEN "sleep" ELSE "ended")

(***************************************************************************)
(* The admin shell and the file banlist                                    *)
(***************************************************************************)
AdminIdle == admin = "idle" /\ stopping["admin"] = "no"
Prompt == IF status = "RUNNING" THEN "idle" ELSE "ended"

\* /ban u of a connected user: disconnectUser, then banlistAdd.
cmdBan(u) ==
  /\ AdminIdle /\ ClientsMutexFree
  /\ admin' = "open"
  /\ bannedUsers' = bannedUsers \cup {u} /\ wanted' = wanted \cup {u}
  /\ UNCHANGED <<control, pool, banlist, fileBad>>

\* Mutated form of cmdUnban: the list is not saved.
cmdUnbanNoSave(u) ==
  /\ AdminIdle /\ u \in bannedUsers
  /\ admin' = Prompt
  /\ bannedUsers' = bannedUsers \ {u} /\ wanted' = wanted \ {u}
  /\ UNCHANGED <<control, pool, banlist, fileBad>>
\* /unban u of a banned user: banlistRemove.
cmdUnban(u) ==
  /\ AdminIdle /\ u \in bannedUsers
  /\ admin' = "open"
  /\ bannedUsers' = bannedUsers \ {u} /\ wanted' = wanted \ {u}
  /\ UNCHANGED <<control, pool, banlist, fileBad>>

\* saveBanlist: opening the file empties it ...
SaveOpen ==
  /\ admin = "open" /\ admin' = "write"
  /\ banlist' = {}
  /\ UNCHANGED <<control, pool, bannedUsers, wanted, fileBad>>

\* ... or fails, which is logged.
SaveFails ==
  /\ admin = "open" /\ admin' = Prompt
  /\ fileBad' = TRUE
  /\ UNCHANGED <<control, pool, bannedUsers, banlist, wanted>>

\* The names are buffered, and written when the file is closed.  A write that
\* fails, whatever it leaves in the file, goes unnoticed.
SaveWrite ==
  /\ admin = "write" /\ admin' = Prompt
  /\ \E names \in SUBSET Users :
       banlist' = names /\ fileBad' = (names # bannedUsers)
  /\ UNCHANGED <<control, pool, bannedUsers, wanted>>

\* The end of standard input.
AdminEof ==
  /\ AdminIdle /\ admin' = "ended"
  /\ UNCHANGED <<control, pool, bans>>

-----------------------------------------------------------------------------
Main == StartFails \/ StartSucceeds \/ Launched \/ MainLoopEnds \/ NotifyAll \/ Joined
\* The nested handler of a second signal keeps that of the first from going on.
Stop(t) ==
  /\ t = "first" => under["second"] # "main"
  /\ StopCheck(t) \/ StopMark(t) \/ StopClose(t) \/ Exit(t)
Worker(w) == WorkerStops(w) \/ WorkerLooks(w) \/ WorkerSleeps(w)
Heart == StartPings \/ PingsDone
Save == SaveOpen \/ SaveFails \/ SaveWrite
Shell == cmdStop \/ AdminEof \/ \E u \in Users : cmdBan(u) \/ cmdUnban(u)

Next ==
  \/ Start \/ Main
  \/ \E s \in Signals : Signal(s)
  \/ \E t \in Callers : Stop(t)
  \/ \E w \in Workers : Worker(w) \/ TaskEnds(w)
  \/ Enqueue \/ NotifyOne
  \/ Heart \/ PingBlocks \/ PingUnblocks
  \/ Shell \/ Save

Spec == Init /\ [][Next]_vars

\* The callers of stop() and the heartbeat run; nothing is asked of main and the
\* other threads, and nothing makes a client read on or a connection end.
FairSpec == Spec /\ WF_vars(Heart) /\ \A t \in Callers : WF_vars(Stop(t))

-----------------------------------------------------------------------------
Asleep == {w \in Workers : wpc[w] = "asleep"}
OnTheWay == {w \in Workers : wpc[w] \in {"top", "woken"}}

\* While a worker sleeps, every queued connection has a worker on the way to it,
\* or its notification still to come: enqueue notifies after it has unlocked,
\* and another worker may take the task before the one notified wakes.
QueuedHaveWorkers ==
  ~poolStop /\ Asleep # {} =>
    tasks <= Cardinality(OnTheWay) + (IF acceptor = "notify" THEN 1 ELSE 0)

\* While the server runs, the bans in force are those the admin has asked for, in
\* this run and in earlier ones, and no others, except what a start loses: it
\* loses bans when the last save did not complete (the file was not opened, a
\* write failed, the process ended before) or when the file is not read to its
\* end.  A save that fails costs nothing before that, and a later one mends it.
BansKept == main \notin {"down", "start"} => bannedUsers = wanted

\* A handler that waits for a mutex held by the thread it has interrupted, and
\* every other caller of stop() with it: for the log, before the status is set,
\* or for clientsMutex.
Hung ==
  \/ under["first"] = "logger" /\ \E s \in Signals : stopping[s] = "mark"
  \/ under["second"] = "logger" /\ stopping["second"] = "mark"
  \/ /\ under["second"] = "holder" \/ (under["second"] = "heart" /\ heart = "ping")
     /\ stopping["second"] = "close"

\* /stop, SIGINT or SIGTERM ends the process, although ~ThreadPool may wait for
\* a worker for ever (one that reads a connection, or one that missed
\* notify_all), unless the heartbeat holds clientsMutex in a send that blocks or
\* a signal handler waits for a mutex of the thread it runs on.
StopEnds ==
  (\E t \in Callers : stopping[t] # "no") ~> main = "down" \/ heart = "stuck" \/ Hung

\* A second signal, once the first has set STOPPING, ends the process even then:
\* it does not wait for clientsMutex.
SecondSignalEnds ==
  stopping["first"] = "close" /\ stopping["second"] = "check" ~> main = "down"

=============================================================================
