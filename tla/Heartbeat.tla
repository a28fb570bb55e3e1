----------------------------- MODULE Heartbeat -----------------------------
(***************************************************************************)
(* The heartbeat monitor in time: heartbeatLoop sleeps, sends a PING to    *)
(* every client while it holds clientsMutex, sleeps again and ends the     *)
(* sessions whose last PONG is too old.                                    *)
(*                                                                         *)
(* One Tick is the unit of steady_clock the timeouts are compared in.  A   *)
(* thread that can run does so before the next Tick: scheduling delays are *)
(* small beside seconds.  What takes time is a sleep, a client's answer,   *)
(* and a send to a client that does not read: it blocks, and clientsMutex  *)
(* with it.  Everything else that locks clientsMutex (registerClient,      *)
(* unregisterClient, handlePong) waits for the heartbeat meanwhile.        *)
(*                                                                         *)
(* Responsive clients have each PING answered, and the PONG received by    *)
(* their worker, within Answer ticks; the others do as they like.  The     *)
(* flag waitingForPong is written by the code and read nowhere.            *)
(***************************************************************************)
EXTENDS Naturals

CONSTANTS
  Clients,     \* usernames
  Responsive,  \* those that answer in time and keep reading
  Interval,    \* Constants::HEARTBEAT_INTERVAL_S
  CheckDelay,  \* Constants::HEARTBEAT_CHECK_DELAY_S
  Timeout,     \* Constants::HEARTBEAT_TIMEOUT_S
  Answer,      \* how long a responsive client takes
  NoClient

\* The code has 30, 5 and 90 seconds.
ASSUME HeartbeatAssumption ==
  /\ Responsive \subseteq Clients /\ NoClient \notin Clients
  /\ {Interval, CheckDelay, Timeout} \subseteq Nat \ {0}
  /\ Answer \in Nat
  /\ Answer < CheckDelay /\ CheckDelay <= Timeout

VARIABLES
  registered,  \* names in Server::clients
  age,         \* now - lastPong of each of them, no more than MaxAge
  link,        \* the connection: "reads", "full" (a send blocks) or "dead"
  due,         \* ticks left to a responsive client that has a PING to answer
  ponging,     \* names handlePong has found by the socket and not updated yet
  hpc,         \* the heartbeat thread: "sleep", "ping", "wait", "end"
  timer,       \* what is left of the sleep it is in
  todo,        \* clients of the PING loop not reached yet
  at,          \* the client whose PING is being sent
  late,        \* timedOutClients
  held         \* history: has time passed in the PING loop?

vars == <<registered, age, link, due, ponging, hpc, timer, todo, at, late, held>>
thread == <<hpc, timer, todo, at, late, held>>

\* An age the properties tell apart from every larger one.
MaxAge == Timeout + Interval + CheckDelay + 1
NoPing == Answer + 1

\* Types of the variables.
TypeOK ==
  /\ registered \in SUBSET Clients
  /\ age \in [Clients -> 0 .. MaxAge]
  /\ link \in [Clients -> {"reads", "full", "dead"}]
  /\ due \in [Clients -> 0 .. NoPing]
  /\ ponging \in SUBSET Clients
  /\ hpc \in {"sleep", "ping", "wait", "end"}
  /\ timer \in 0 .. Interval + CheckDelay
  /\ todo \in SUBSET Clients
  /\ at \in Clients \cup {NoClient}
  /\ late \in SUBSET Clients
  /\ held \in BOOLEAN

Init ==
  /\ registered = {}
  /\ age = [c \in Clients |-> 0]
  /\ link = [c \in Clients |-> "reads"]
  /\ due = [c \in Clients |-> NoPing]
  /\ ponging = {}
  /\ hpc = "sleep" /\ timer = Interval
  /\ todo = {} /\ at = NoClient /\ late = {}
  /\ held = FALSE

\* clientsMutex: the heartbeat keeps it for the whole PING loop.
MutexFree == hpc # "ping"

(***************************************************************************)
(* Sessions come, answer and go                                            *)
(***************************************************************************)
\* registerClient stores ClientInfo(socket), whose lastPong is now, for a new
\* connection; two CONNECTs that both found the name free overwrite one another.
registerClient(c) ==
  /\ MutexFree
  /\ registered' = registered \cup {c}
  /\ age' = [age EXCEPT ![c] = 0]
  /\ link' = [link EXCEPT ![c] = "reads"]
  /\ due' = [due EXCEPT ![c] = NoPing]
  /\ UNCHANGED <<ponging, thread>>

\* The entry of c is gone, and with it all that is known of the client.
Forget(c) ==
  /\ registered' = registered \ {c}
  /\ age' = [age EXCEPT ![c] = 0]
  /\ link' = [link EXCEPT ![c] = "reads"]
  /\ due' = [due EXCEPT ![c] = NoPing]

\* The worker of c ends the session (DISCONNECT, or the end of the stream), or
\* the admin does, at any moment.
unregisterClient(c) ==
  /\ MutexFree /\ c \in registered
  /\ Forget(c)
  /\ UNCHANGED <<ponging, thread>>

\* handlePong locks clientsMutex twice: to find the name of the socket ...
PongLookup(c) ==
  /\ MutexFree /\ c \in registered \ ponging
  /\ ponging' = ponging \cup {c}
  /\ UNCHANGED <<registered, age, link, due, thread>>

\* ... and in updateClientPong, where the name may be gone or registered anew.
updateClientPong(c) ==
  /\ MutexFree /\ c \in ponging
  /\ ponging' = ponging \ {c}
  /\ age' = [age EXCEPT ![c] = 0]
  /\ due' = [due EXCEPT ![c] = NoPing]
  /\ UNCHANGED <<registered, link, thread>>

\* A client that is not responsive stops reading until what is sent to it no
\* longer fits the socket buffers, reads on, or ends.
LinkChange(c, from, to) ==
  /\ c \in registered \ Responsive /\ link[c] \in from
  /\ link' = [link EXCEPT ![c] = to]
  /\ UNCHANGED <<registered, age, due, ponging, thread>>
StopReading(c) == LinkChange(c, {"reads"}, "full")
ResumeReading(c) == LinkChange(c, {"full"}, "reads")
PeerEnds(c) == LinkChange(c, {"reads", "full"}, "dead")

(***************************************************************************)
(* heartbeatLoop                                                           *)
(***************************************************************************)
\* The sleep is over: lock clientsMutex and walk the map, in any order.
StartPings ==
  /\ hpc = "sleep" /\ timer = 0
  /\ hpc' = "ping" /\ todo' = registered
  /\ UNCHANGED <<registered, age, link, due, ponging, timer, at, late, held>>

PingNext(c) ==
  /\ hpc = "ping" /\ at = NoClient /\ c \in todo
  /\ at' = c /\ todo' = todo \ {c}
  /\ UNCHANGED <<registered, age, link, due, ponging, hpc, timer, late, held>>

\* send returns unless the buffers are full; its result is not looked at.
PingSent ==
  /\ hpc = "ping" /\ at # NoClient /\ link[at] # "full"
  /\ due' = [due EXCEPT ![at] = IF @ < Answer THEN @ ELSE Answer]
  /\ at' = NoClient
  /\ UNCHANGED <<registered, age, link, ponging, hpc, timer, todo, late, held>>

\* Mutated form of PingsDone: no time is left to answer.
PingsDoneNoDelay ==
  /\ hpc = "ping" /\ at = NoClient /\ todo = {}
  /\ hpc' = "wait" /\ timer' = 0
  /\ UNCHANGED <<registered, age, link, due, ponging, todo, at, late, held>>
\* Unlock, and give the clients time to answer.
PingsDone ==
  /\ hpc = "ping" /\ at = NoClient /\ todo = {}
  /\ hpc' = "wait" /\ timer' = CheckDelay
  /\ UNCHANGED <<registered, age, link, due, ponging, todo, at, late, held>>

\* Mutated form of CollectLate: compared with CLIENT_TIMEOUT_S, which is larger
\* than HEARTBEAT_TIMEOUT_S by one interval.
CollectLateClientTimeout ==
  /\ hpc = "wait" /\ timer = 0
  /\ hpc' = "end"
  /\ late' = {c \in registered : age[c] > Timeout + Interval}
  /\ UNCHANGED <<registered, age, link, due, ponging, timer, todo, at, held>>
\* checkClientTimeouts collects the names under clientsMutex ...
CollectLate ==
  /\ hpc = "wait" /\ timer = 0
  /\ hpc' = "end"
  /\ late' = {c \in registered : age[c] > Timeout}
  /\ UNCHANGED <<registered, age, link, due, ponging, timer, todo, at, held>>

\* ... and then ends each by its name, registered anew or not.
EndLate(c) ==
  /\ hpc = "end" /\ c \in late
  /\ late' = late \ {c}
  /\ \/ c \in registered /\ Forget(c)
     \/ c \notin registered /\ UNCHANGED <<registered, age, link, due>>
  /\ UNCHANGED <<ponging, hpc, timer, todo, at, held>>

NextRound ==
  /\ hpc = "end" /\ late = {}
  /\ hpc' = "sleep" /\ timer' = Interval
  /\ UNCHANGED <<registered, age, link, due, ponging, todo, at, late, held>>

(***************************************************************************)
(* Time                                                                    *)
(***************************************************************************)
Sleeping == hpc \in {"sleep", "wait"} /\ timer > 0
Blocked == hpc = "ping" /\ at # NoClient /\ link[at] = "full"

\* Mutated form of Tick: a blocked send counts against the sleep as well.
TickAlways ==
  /\ Sleeping \/ Blocked
  /\ MutexFree => \A c \in Responsive \cap registered : due[c] # 0
  /\ age' = [c \in Clients |-> IF c \in registered /\ age[c] < MaxAge
                               THEN age[c] + 1 ELSE age[c]]
  /\ due' = [c \in Clients |-> IF due[c] \in 1 .. Answer THEN due[c] - 1 ELSE due[c]]
  /\ timer' = timer - 1
  /\ held' = (held \/ Blocked)
  /\ UNCHANGED <<registered, link, ponging, hpc, todo, at, late>>
Tick ==
  /\ Sleeping \/ Blocked
  /\ MutexFree => \A c \in Responsive \cap registered : due[c] # 0
  /\ age' = [c \in Clients |-> IF c \in registered /\ age[c] < MaxAge
                               THEN age[c] + 1 ELSE age[c]]
  /\ due' = [c \in Clients |-> IF due[c] \in 1 .. Answer THEN due[c] - 1 ELSE due[c]]
  /\ timer' = IF Sleeping THEN timer - 1 ELSE timer
  /\ held' = (held \/ Blocked)
  /\ UNCHANGED <<registered, link, ponging, hpc, todo, at, late>>

-----------------------------------------------------------------------------
Session(c) == registerClient(c) \/ unregisterClient(c)
Pong(c) == PongLookup(c) \/ updateClientPong(c)
Peer(c) == StopReading(c) \/ ResumeReading(c) \/ PeerEnds(c)

heartbeatLoop ==
  \/ StartPings
  \/ \E c \in todo : PingNext(c)
  \/ PingSent \/ PingsDone \/ CollectLate
  \/ \E c \in late : EndLate(c)
  \/ NextRound

Next ==
  \/ \E c \in Clients : Session(c) \/ Pong(c) \/ Peer(c)
  \/ heartbeatLoop
  \/ Tick

Spec == Init /\ [][Next]_vars

\* The heartbeat thread runs, time passes, and a PONG being handled is recorded;
\* nothing makes a client read or end.
FairSpec ==
  /\ Spec /\ WF_vars(heartbeatLoop) /\ WF_vars(Tick)
  /\ \A c \in Clients : WF_vars(updateClientPong(c))

-----------------------------------------------------------------------------
\* A client that answers every PING in time is never found overdue, although a
\* client that does not read can hold up the PING loop, and with it the PONGs of
\* the others, for any length of time (checkClientTimeouts).
AnsweringStays == late \cap Responsive = {}

\* As long as no send has blocked the PING loop, a client that sends no PONG
\* stays in the map at most HEARTBEAT_TIMEOUT_S plus one round of heartbeatLoop.
EndedInTime ==
  ~held => \A c \in registered : age[c] <= Timeout + Interval + CheckDelay

\* "Lack of PONG responses triggers a timeout path": an overdue session ends, or
\* its PONG comes after all.
OverdueIsEnded ==
  \A c \in Clients :
    (c \in registered /\ age[c] > Timeout) ~> ~(c \in registered /\ age[c] > Timeout)

=============================================================================
