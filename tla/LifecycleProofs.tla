-------------------------- MODULE LifecycleProofs --------------------------
(***************************************************************************)
(* What is proved of Lifecycle for any names, any finite pool and any      *)
(* number of queued connections: the types, that bans are kept over        *)
(* restarts but for those a start loses, and that no queued connection is  *)
(* forgotten while a worker sleeps.                                        *)
(***************************************************************************)
EXTENDS Lifecycle, FiniteSetTheorems, TLAPS

-----------------------------------------------------------------------------
(***************************************************************************)
(* Inductive invariants                                                    *)
(***************************************************************************)
\* Without a running server there is nobody to write the ban list, and the admin
\* thread does not write it while it is in stop().
NoShell ==
  /\ main \in {"down", "start"} => admin = "ended"
  /\ stopping["admin"] # "no" => admin = "idle"

\* The memory of a running server holds the bans the admin has asked for, and so
\* does the file, between two runs as well, unless it is being written or the
\* last save or load has gone wrong.
BansInStep ==
  /\ BansKept
  /\ ~fileBad /\ admin \notin {"open", "write"} => banlist = wanted

\* A worker that found the queue empty keeps queueMutex until it sleeps.
SleepyFindsNothing == \A w \in Workers : wpc[w] = "sleepy" => tasks = 0

-----------------------------------------------------------------------------
\* Every variable has its type before the first start.
LEMMA TypeInit == Init => TypeOK
<1> SUFFICES ASSUME Init PROVE TypeOK
  OBVIOUS
<1>1. stopping \in [Callers -> {"no", "check", "mark", "close", "exit"}]
  BY DEF Init, NotStopping
<1>2. wpc \in [Workers -> {"top", "sleepy", "asleep", "woken", "busy", "done"}]
  BY DEF Init, AllWorkers
<1>3. tasks \in 0 .. MaxTasks
  BY LifecycleAssumption DEF Init
<1> QED
  BY <1>1, <1>2, <1>3 DEF Init, NoSignal, TypeOK

\* The end of the process leaves every variable in its type.
LEMMA TypeDown == TypeOK /\ Down => TypeOK'
<1> SUFFICES ASSUME TypeOK, Down PROVE TypeOK'
  OBVIOUS
<1>1. stopping' \in [Callers -> {"no", "check", "mark", "close", "exit"}]
  BY DEF Down, NotStopping
<1>2. wpc' \in [Workers -> {"top", "sleepy", "asleep", "woken", "busy", "done"}]
  BY DEF Down, AllWorkers
<1>3. tasks' \in 0 .. MaxTasks
  BY LifecycleAssumption DEF Down
<1> QED
  BY <1>1, <1>2, <1>3 DEF Down, NoSignal, TypeOK

\* Every step of every thread keeps the types, one step per action.
LEMMA TypeStep == TypeOK /\ [Next]_vars => TypeOK'
<1> SUFFICES ASSUME TypeOK, [Next]_vars PROVE TypeOK'
  OBVIOUS
<1> USE LifecycleAssumption DEF TypeOK
<1>1. CASE Start
  BY <1>1 DEF Start, pool, bans
<1>2. CASE Main
  <2>1. CASE StartFails \/ Joined
    BY <2>1, TypeDown DEF StartFails, Joined
  <2>2. CASE StartSucceeds
    BY <2>2 DEF StartSucceeds, Load, AllWorkers
  <2>3. CASE MainLoopEnds
    BY <2>3 DEF MainLoopEnds, bans
  <2>4. CASE NotifyAll
    BY <2>4 DEF NotifyAll, bans
  <2>5. CASE Launched
    BY <2>5 DEF Launched, pool, bans
  <2> QED
    BY <1>2, <2>1, <2>2, <2>3, <2>4, <2>5 DEF Main
<1>3. ASSUME NEW s \in Signals, Signal(s) PROVE TypeOK'
  BY <1>3 DEF Signal, Interrupted, StopAt, Callers, pool, bans
<1>4. ASSUME NEW t \in Callers, Stop(t) PROVE TypeOK'
  <2>1. CASE StopCheck(t)
    BY <2>1, TypeDown DEF StopCheck, StopAt, pool, bans
  <2>2. CASE StopMark(t) \/ StopClose(t)
    BY <2>2 DEF StopMark, StopClose, StopAt, pool, bans
  <2>3. CASE Exit(t)
    BY <2>3, TypeDown DEF Exit
  <2> QED
    BY <1>4, <2>1, <2>2, <2>3 DEF Stop
<1>5. ASSUME NEW w \in Workers, Worker(w) PROVE TypeOK'
  BY <1>5 DEF Worker, WorkerStops, WorkerLooks, WorkerSleeps, WorkerAt, control, bans
<1>6. ASSUME NEW w \in Workers, TaskEnds(w) PROVE TypeOK'
  BY <1>6 DEF TaskEnds, WorkerAt, control, bans
<1>7. CASE Enqueue
  BY <1>7 DEF Enqueue, AcceptorAt, control, bans
<1>8. CASE NotifyOne
  BY <1>8 DEF NotifyOne, AcceptorAt, control, bans
<1>9. CASE Heart \/ PingBlocks \/ PingUnblocks
  BY <1>9 DEF Heart, StartPings, PingsDone, PingBlocks, PingUnblocks, HeartAt, pool, bans
<1>10. CASE Shell
  <2>1. CASE cmdStop
    BY <2>1 DEF cmdStop, StopAt, Callers, pool, bans
  <2>2. CASE AdminEof
    BY <2>2 DEF AdminEof, control, pool, bans
  <2>3. ASSUME NEW u \in Users, cmdBan(u) \/ cmdUnban(u) PROVE TypeOK'
    BY <2>3 DEF cmdBan, cmdUnban, control, pool
  <2> QED
    BY <1>10, <2>1, <2>2, <2>3 DEF Shell
<1>11. CASE Save
  BY <1>11 DEF Save, SaveOpen, SaveFails, SaveWrite, Prompt, control, pool
<1>12. CASE UNCHANGED vars
  BY <1>12 DEF vars, control, pool, bans
<1> QED
  BY <1>1, <1>2, <1>3, <1>4, <1>5, <1>6, <1>7, <1>8, <1>9, <1>10, <1>11, <1>12
  DEF Next

\* Every variable keeps its type; in particular no worker ever pops the empty
\* queue, also when the pool is being stopped.
THEOREM TypeCorrect == Spec => []TypeOK
<1> QED
  BY TypeInit, TypeStep, PTL DEF Spec

-----------------------------------------------------------------------------
\* The ban list and its file are untouched by all but the end of the process, a
\* start, and the admin's commands.
LEMMA BansStep ==
  TypeOK /\ NoShell /\ BansInStep /\ [Next]_vars => NoShell' /\ BansInStep'
<1> SUFFICES ASSUME TypeOK, NoShell, BansInStep, [Next]_vars PROVE NoShell' /\ BansInStep'
  OBVIOUS
<1>0. /\ DOMAIN stopping = Callers /\ "admin" \in Callers
      /\ \A s \in Signals : s \in Callers /\ s # "admin"
  BY DEF TypeOK, Callers, Signals
<1> USE <1>0 DEF NoShell, BansInStep, BansKept
<1>1. CASE Down
  BY <1>1 DEF Down, NotStopping
<1>2. CASE Start
  BY <1>2 DEF Start, bans
<1>3. CASE StartSucceeds
  BY <1>3 DEF StartSucceeds, Load, MainAt
<1>4. CASE Launched \/ MainLoopEnds \/ NotifyAll
  BY <1>4 DEF Launched, MainLoopEnds, NotifyAll, MainAt, bans
<1>5. ASSUME NEW s \in Signals, Signal(s) PROVE NoShell' /\ BansInStep'
  BY <1>5 DEF Signal, StopAt, bans
<1>6. ASSUME NEW t \in Callers, StopCheck(t) \/ StopMark(t) \/ StopClose(t)
      PROVE  NoShell' /\ BansInStep'
  BY <1>1, <1>6 DEF StopCheck, StopMark, StopClose, StopAt, bans
<1>7. ASSUME NEW w \in Workers, Worker(w) \/ TaskEnds(w)
      PROVE  NoShell' /\ BansInStep'
  BY <1>7 DEF Worker, WorkerStops, WorkerLooks, WorkerSleeps, TaskEnds, WorkerAt,
              control, bans
<1>8. CASE Enqueue \/ NotifyOne
  BY <1>8 DEF Enqueue, NotifyOne, AcceptorAt, control, bans
<1>9. CASE Heart \/ PingBlocks \/ PingUnblocks
  BY <1>9 DEF Heart, StartPings, PingsDone, PingBlocks, PingUnblocks, HeartAt, bans
<1>10. CASE Shell
  <2>1. CASE cmdStop \/ AdminEof
    BY <2>1 DEF cmdStop, AdminEof, AdminIdle, StopAt, control, bans
  <2>2. ASSUME NEW u \in Users, cmdBan(u) \/ cmdUnban(u)
        PROVE  NoShell' /\ BansInStep'
    BY <2>2 DEF cmdBan, cmdUnban, AdminIdle, control
  <2> QED
    BY <1>10, <2>1, <2>2 DEF Shell
<1>11. CASE Save
  BY <1>11 DEF Save, SaveOpen, SaveFails, SaveWrite, Prompt, control
<1>12. CASE UNCHANGED vars
  BY <1>12 DEF vars, control, bans
<1> QED
  BY <1>1, <1>2, <1>3, <1>4, <1>5, <1>6, <1>7, <1>8, <1>9, <1>10, <1>11, <1>12
  DEF Next, Main, StartFails, Joined, Stop, Exit

\* A server that runs enforces the bans the admin asked for in any run and no
\* others, except those that a start has lost: because the last save did not
\* complete, or the file could not be read.
THEOREM BansAreKept == Spec => []BansKept
<1>1. Init => NoShell /\ BansInStep
  BY DEF Init, NoShell, BansInStep, BansKept, NotStopping, Callers
<1>2. BansInStep => BansKept
  BY DEF BansInStep
<1> QED
  BY <1>1, <1>2, TypeInit, TypeStep, BansStep, PTL DEF Spec

-----------------------------------------------------------------------------
Queue == SleepyFindsNothing /\ QueuedHaveWorkers

\* OnTheWay can be counted, and counting follows a worker that joins or leaves.
LEMMA OnTheWayCount ==
  /\ Cardinality(OnTheWay) \in Nat
  /\ \A w \in Workers :
       /\ w \notin OnTheWay =>
            Cardinality(OnTheWay \cup {w}) = Cardinality(OnTheWay) + 1
       /\ w \in OnTheWay =>
            Cardinality(OnTheWay \ {w}) = Cardinality(OnTheWay) - 1
<1>1. IsFiniteSet(Workers) /\ OnTheWay \subseteq Workers
  BY LifecycleAssumption DEF OnTheWay
<1>2. IsFiniteSet(OnTheWay)
  BY <1>1, FS_Subset
<1> QED
  BY <1>2, FS_CardinalityType, FS_AddElement, FS_RemoveElement

\* It can be counted after a step, too.
LEMMA OnTheWayCountAfter == Cardinality(OnTheWay') \in Nat
<1>1. IsFiniteSet(Workers) /\ OnTheWay' \subseteq Workers
  BY LifecycleAssumption DEF OnTheWay
<1> QED
  BY <1>1, FS_Subset, FS_CardinalityType

\* A step that changes neither the queue, nor the pool's stop, nor the workers.
LEMMA QueueUntouched ==
  Queue /\ UNCHANGED <<tasks, poolStop, wpc, acceptor>> => Queue'
  BY DEF Queue, SleepyFindsNothing, QueuedHaveWorkers, Asleep, OnTheWay

\* A step after which the pool is stopped or no worker sleeps or is about to.
LEMMA QueueVacuous ==
  (\A w \in Workers : wpc'[w] # "sleepy")
    /\ (poolStop' \/ \A w \in Workers : wpc'[w] # "asleep") => Queue'
  BY DEF Queue, SleepyFindsNothing, QueuedHaveWorkers, Asleep

\* What a step does to queue and workers, one step per action.
LEMMA QueueStep == TypeOK /\ Queue /\ [Next]_vars => Queue'
<1> SUFFICES ASSUME TypeOK, Queue, [Next]_vars PROVE Queue'
  OBVIOUS
<1>1. CASE Down
  <2>1. \A w \in Workers : wpc'[w] = "done"
    BY <1>1 DEF Down, AllWorkers
  <2> QED
    BY <2>1, QueueVacuous
<1>2. CASE StartSucceeds
  <2>1. \A w \in Workers : wpc'[w] = "top"
    BY <1>2 DEF StartSucceeds, AllWorkers
  <2> QED
    BY <2>1, QueueVacuous
<1>3. CASE MainLoopEnds
  BY <1>3 DEF MainLoopEnds, bans, Queue, SleepyFindsNothing, QueuedHaveWorkers
<1>4. CASE NotifyAll
  BY <1>4 DEF NotifyAll, TypeOK, Queue, SleepyFindsNothing, QueuedHaveWorkers, Asleep
<1>5. CASE Start
  BY <1>5, QueueUntouched DEF Start, pool
<1>17. CASE Launched
  BY <1>17, QueueUntouched DEF Launched, pool
<1>6. ASSUME NEW s \in Signals, Signal(s) PROVE Queue'
  BY <1>6, QueueUntouched DEF Signal, pool
<1>7. ASSUME NEW t \in Callers, StopCheck(t) \/ StopMark(t) \/ StopClose(t)
      PROVE  Queue'
  BY <1>1, <1>7, QueueUntouched DEF StopCheck, StopMark, StopClose, pool
<1>8. CASE Heart \/ PingBlocks \/ PingUnblocks
  BY <1>8, QueueUntouched
  DEF Heart, StartPings, PingsDone, PingBlocks, PingUnblocks, HeartAt, pool
<1>9. CASE Shell \/ Save
  BY <1>9, QueueUntouched
  DEF Shell, cmdStop, AdminEof, cmdBan, cmdUnban, Save, SaveOpen, SaveFails, SaveWrite,
      pool
<1>10. CASE UNCHANGED vars
  BY <1>10, QueueUntouched DEF vars, pool
<1>11. ASSUME NEW w \in Workers, WorkerStops(w) PROVE Queue'
  BY <1>11
  DEF WorkerStops, WorkerAt, TypeOK, Queue, SleepyFindsNothing, QueuedHaveWorkers
<1>12. ASSUME NEW w \in Workers, WorkerLooks(w) PROVE Queue'
  <2> USE <1>12 DEF WorkerLooks, WorkerAt, TypeOK
  <2>1. CASE tasks > 0
    <3>1. /\ wpc[w] \in {"top", "woken"} /\ wpc' = [wpc EXCEPT ![w] = "busy"]
          /\ tasks' = tasks - 1 /\ UNCHANGED <<poolStop, acceptor>>
      BY <2>1
    <3>2. OnTheWay' = OnTheWay \ {w} /\ Asleep' = Asleep /\ w \in OnTheWay
      BY <3>1 DEF OnTheWay, Asleep
    <3>3. Cardinality(OnTheWay') = Cardinality(OnTheWay) - 1
      BY <3>2, OnTheWayCount
    <3>4. QueuedHaveWorkers'
      BY <3>1, <3>2, <3>3, OnTheWayCount DEF QueuedHaveWorkers, Queue
    <3>5. SleepyFindsNothing'
      BY <3>1 DEF QueueMutexFree, SleepyFindsNothing
    <3> QED
      BY <3>4, <3>5 DEF Queue
  <2>2. CASE tasks = 0
    <3>1. tasks' = 0 /\ acceptor' = acceptor
      BY <2>2
    <3> QED
      BY <3>1, OnTheWayCountAfter DEF Queue, SleepyFindsNothing, QueuedHaveWorkers
  <2> QED
    BY <2>1, <2>2, LifecycleAssumption
<1>13. ASSUME NEW w \in Workers, WorkerSleeps(w) PROVE Queue'
  <2>1. tasks' = 0
    BY <1>13 DEF WorkerSleeps, WorkerAt, Queue, SleepyFindsNothing
  <2> QED
    BY <2>1, OnTheWayCountAfter DEF Queue, SleepyFindsNothing, QueuedHaveWorkers
<1>14. ASSUME NEW w \in Workers, TaskEnds(w) PROVE Queue'
  <2>1. /\ wpc[w] = "busy" /\ wpc' = [wpc EXCEPT ![w] = "top"]
        /\ UNCHANGED <<tasks, poolStop, acceptor>>
    BY <1>14 DEF TaskEnds, WorkerAt
  <2>2. OnTheWay' = OnTheWay \cup {w} /\ Asleep' = Asleep /\ w \notin OnTheWay
    BY <2>1 DEF OnTheWay, Asleep, TypeOK
  <2>3. Cardinality(OnTheWay') = Cardinality(OnTheWay) + 1
    BY <2>2, OnTheWayCount
  <2>4. SleepyFindsNothing'
    BY <2>1 DEF SleepyFindsNothing, Queue, TypeOK
  <2> QED
    BY <2>1, <2>2, <2>3, <2>4, OnTheWayCount, LifecycleAssumption
    DEF QueuedHaveWorkers, Queue, TypeOK
<1>15. CASE Enqueue
  <2>1. /\ acceptor = "accept" /\ acceptor' = "notify" /\ tasks' = tasks + 1
        /\ UNCHANGED <<wpc, poolStop>> /\ QueueMutexFree
    BY <1>15 DEF Enqueue, AcceptorAt
  <2>2. OnTheWay' = OnTheWay /\ Asleep' = Asleep
    BY <2>1 DEF OnTheWay, Asleep
  <2>3. SleepyFindsNothing'
    BY <2>1 DEF SleepyFindsNothing, QueueMutexFree
  <2> QED
    BY <2>1, <2>2, <2>3, OnTheWayCount, LifecycleAssumption
    DEF QueuedHaveWorkers, Queue, TypeOK
<1>16. CASE NotifyOne
  <2>1. /\ acceptor = "notify" /\ acceptor' = "accept" /\ UNCHANGED <<tasks, poolStop>>
    BY <1>16 DEF NotifyOne, AcceptorAt
  <2>2. ASSUME NEW w \in Workers, wpc[w] = "asleep", wpc' = [wpc EXCEPT ![w] = "woken"]
        PROVE  Queue'
    <3>1. OnTheWay' = OnTheWay \cup {w} /\ Asleep' \subseteq Asleep /\ w \notin OnTheWay
      BY <2>2 DEF OnTheWay, Asleep, TypeOK
    <3>2. Cardinality(OnTheWay') = Cardinality(OnTheWay) + 1
      BY <3>1, OnTheWayCount
    <3>3. SleepyFindsNothing'
      BY <2>1, <2>2 DEF SleepyFindsNothing, Queue, TypeOK
    <3> QED
      BY <2>1, <3>1, <3>2, <3>3, OnTheWayCount, LifecycleAssumption
      DEF QueuedHaveWorkers, Queue, TypeOK
  <2>3. CASE (\A w \in Workers : wpc[w] # "asleep") /\ UNCHANGED wpc
    BY <2>1, <2>3 DEF Queue, SleepyFindsNothing, QueuedHaveWorkers, Asleep
  <2> QED
    BY <1>16, <2>2, <2>3 DEF NotifyOne
<1> QED
  BY <1>1, <1>2, <1>3, <1>4, <1>5, <1>6, <1>7, <1>8, <1>9, <1>10, <1>11, <1>12,
     <1>13, <1>14, <1>15, <1>16, <1>17
  DEF Next, Main, StartFails, Joined, Stop, Exit, Worker

\* While a worker sleeps, every queued connection has a worker on the way to it
\* or its notification still to come, for any size of the pool.
THEOREM QueuedConnectionsHaveWorkers == Spec => []QueuedHaveWorkers
<1>1. Init => Queue
  BY DEF Init, AllWorkers, Queue, SleepyFindsNothing, QueuedHaveWorkers, Asleep
<1>2. Queue => QueuedHaveWorkers
  BY DEF Queue
<1> QED
  BY <1>1, <1>2, TypeInit, TypeStep, QueueStep, PTL DEF Spec

=============================================================================
