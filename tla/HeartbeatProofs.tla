-------------------------- MODULE HeartbeatProofs --------------------------
(***************************************************************************)
(* What is proved of Heartbeat for any clients and any interval, delay and *)
(* timeout that satisfy HeartbeatAssumption: the types, that a client that *)
(* answers is never found overdue, and that a silent one is gone within    *)
(* one round of its timeout unless a send has blocked.                     *)
(***************************************************************************)
EXTENDS Heartbeat, TLAPS

-----------------------------------------------------------------------------
(***************************************************************************)
(* The inductive invariant of AnsweringStays                               *)
(***************************************************************************)
\* A sleep is no longer than what it was started with.
TimerBound ==
  /\ hpc = "sleep" => timer <= Interval
  /\ hpc = "wait" => timer <= CheckDelay

\* The PING loop holds clientsMutex, so what it walks stays in the map.
LoopRegistered ==
  /\ hpc = "ping" => todo \subseteq registered
  /\ at # NoClient => hpc = "ping" /\ at \in registered

\* A client that is not in the map has no PING to answer.
UnpingedOutside == \A c \in Clients \ registered : due[c] = NoPing

\* The PING loop leaves every responsive client behind it with a PING to answer.
PingedBehind ==
  hpc = "ping" =>
    \A c \in (Responsive \cap registered) \ (todo \cup {at}) : due[c] <= Answer

\* While the heartbeat waits, the answer of a responsive client is due before
\* the wait is over, or its PONG is no older than the wait.
AnswerInTime ==
  hpc = "wait" =>
    \A c \in Responsive \cap registered :
      \/ due[c] + CheckDelay <= Answer + timer
      \/ due[c] = NoPing /\ age[c] + timer <= CheckDelay

Answering ==
  /\ TimerBound /\ LoopRegistered /\ UnpingedOutside
  /\ PingedBehind /\ AnswerInTime /\ AnsweringStays

(***************************************************************************)
(* The inductive invariant of EndedInTime: how old a session can be in     *)
(* each phase of a round                                                   *)
(***************************************************************************)
AgeBound ==
  ~held => \A c \in registered :
    /\ hpc = "sleep" => age[c] + timer <= Timeout + Interval
    /\ hpc = "ping" => age[c] <= Timeout + Interval
    /\ hpc = "wait" => age[c] + timer <= Timeout + Interval + CheckDelay
    /\ hpc = "end" => age[c] <= (IF c \in late THEN Timeout + Interval + CheckDelay
                                               ELSE Timeout)

-----------------------------------------------------------------------------
\* Every variable has its type at the start.
LEMMA TypeInit == Init => TypeOK
<1> SUFFICES ASSUME Init PROVE TypeOK
  OBVIOUS
<1>1. /\ 0 \in 0 .. MaxAge /\ NoPing \in 0 .. NoPing
      /\ Interval \in 0 .. Interval + CheckDelay
  BY HeartbeatAssumption DEF MaxAge, NoPing
<1> QED
  BY <1>1 DEF Init, TypeOK

\* Every step of every thread keeps the types, one step per action.
LEMMA TypeStep == TypeOK /\ [Next]_vars => TypeOK'
<1> SUFFICES ASSUME TypeOK, [Next]_vars PROVE TypeOK'
  OBVIOUS
<1> USE HeartbeatAssumption DEF TypeOK, NoPing, MaxAge
<1>1. ASSUME NEW c \in Clients, Session(c) PROVE TypeOK'
  BY <1>1 DEF Session, registerClient, unregisterClient, Forget, thread
<1>2. ASSUME NEW c \in Clients, Pong(c) PROVE TypeOK'
  BY <1>2 DEF Pong, PongLookup, updateClientPong, thread
<1>3. ASSUME NEW c \in Clients, Peer(c) PROVE TypeOK'
  BY <1>3 DEF Peer, StopReading, ResumeReading, PeerEnds, LinkChange, thread
<1>4. CASE StartPings
  BY <1>4 DEF StartPings
<1>5. ASSUME NEW c \in todo, PingNext(c) PROVE TypeOK'
  BY <1>5 DEF PingNext
<1>6. CASE PingSent
  BY <1>6 DEF PingSent
<1>7. CASE PingsDone
  BY <1>7 DEF PingsDone
<1>8. CASE CollectLate
  BY <1>8 DEF CollectLate
<1>9. ASSUME NEW c \in late, EndLate(c) PROVE TypeOK'
  BY <1>9 DEF EndLate, Forget
<1>10. CASE NextRound
  BY <1>10 DEF NextRound
<1>11. CASE Tick
  <2>1. age' \in [Clients -> 0 .. MaxAge]
    BY <1>11 DEF Tick
  <2>2. due' \in [Clients -> 0 .. NoPing]
    BY <1>11 DEF Tick
  <2>3. timer' \in 0 .. Interval + CheckDelay
    BY <1>11 DEF Tick, Sleeping
  <2> QED
    BY <1>11, <2>1, <2>2, <2>3 DEF Tick, Blocked
<1>12. CASE UNCHANGED vars
  BY <1>12 DEF vars
<1> QED
  BY <1>1, <1>2, <1>3, <1>4, <1>5, <1>6, <1>7, <1>8, <1>9, <1>10, <1>11, <1>12
  DEF Next, heartbeatLoop

\* Ages, answers due and timers stay within their bounds, for any interval,
\* delay and timeout: the sleeps of heartbeatLoop never count below zero.
THEOREM TypeCorrect == Spec => []TypeOK
<1> QED
  BY TypeInit, TypeStep, PTL DEF Spec

-----------------------------------------------------------------------------
\* Nobody is registered and nobody is pinged at the start.
LEMMA AnsweringInit == Init => Answering
  BY HeartbeatAssumption
  DEF Init, Answering, TimerBound, LoopRegistered, UnpingedOutside, PingedBehind,
      AnswerInTime, AnsweringStays, NoPing

\* What a step does to the answers, one step per action.
LEMMA AnsweringStep == TypeOK /\ Answering /\ [Next]_vars => Answering'
<1> SUFFICES ASSUME TypeOK, Answering, [Next]_vars PROVE Answering'
  OBVIOUS
<1> USE HeartbeatAssumption
    DEF TypeOK, NoPing, Answering, TimerBound, LoopRegistered, UnpingedOutside,
        PingedBehind, AnswerInTime, AnsweringStays
<1>1. ASSUME NEW c \in Clients, Session(c) PROVE Answering'
  BY <1>1 DEF Session, registerClient, unregisterClient, Forget, MutexFree, thread
<1>2. ASSUME NEW c \in Clients, Pong(c) PROVE Answering'
  BY <1>2 DEF Pong, PongLookup, updateClientPong, MutexFree, thread
<1>3. ASSUME NEW c \in Clients, Peer(c) PROVE Answering'
  BY <1>3 DEF Peer, StopReading, ResumeReading, PeerEnds, LinkChange, thread
<1>4. CASE StartPings
  BY <1>4 DEF StartPings
<1>5. ASSUME NEW c \in todo, PingNext(c) PROVE Answering'
  BY <1>5 DEF PingNext
<1>6. CASE PingSent
  BY <1>6 DEF PingSent
<1>7. CASE PingsDone
  BY <1>7 DEF PingsDone
<1>8. CASE CollectLate
  BY <1>8 DEF CollectLate
<1>9. ASSUME NEW c \in late, EndLate(c) PROVE Answering'
  BY <1>9 DEF EndLate, Forget
<1>10. CASE NextRound
  BY <1>10 DEF NextRound
<1>11. CASE Tick
  BY <1>11 DEF Tick, Sleeping, Blocked, MutexFree, MaxAge
<1>12. CASE UNCHANGED vars
  BY <1>12 DEF vars
<1> QED
  BY <1>1, <1>2, <1>3, <1>4, <1>5, <1>6, <1>7, <1>8, <1>9, <1>10, <1>11, <1>12
  DEF Next, heartbeatLoop

\* checkClientTimeouts never collects a client that answers every PING within
\* the delay, however long the PING loop was held up by others.
THEOREM AnsweringClientsStay == Spec => []AnsweringStays
<1>1. Answering => AnsweringStays
  BY DEF Answering
<1> QED
  BY TypeInit, TypeStep, AnsweringInit, AnsweringStep, <1>1, PTL DEF Spec

-----------------------------------------------------------------------------
\* There is no session at the start.
LEMMA AgeInit == Init => AgeBound
  BY DEF Init, AgeBound

\* How a step changes the bound of its phase, one step per action.
LEMMA AgeStep == TypeOK /\ TimerBound /\ AgeBound /\ [Next]_vars => AgeBound'
<1> SUFFICES ASSUME TypeOK, TimerBound, AgeBound, [Next]_vars PROVE AgeBound'
  OBVIOUS
<1> USE HeartbeatAssumption DEF TypeOK, TimerBound, AgeBound
<1>1. ASSUME NEW c \in Clients, Session(c) PROVE AgeBound'
  BY <1>1 DEF Session, registerClient, unregisterClient, Forget, MutexFree, thread
<1>2. ASSUME NEW c \in Clients, Pong(c) PROVE AgeBound'
  BY <1>2 DEF Pong, PongLookup, updateClientPong, MutexFree, thread
<1>3. ASSUME NEW c \in Clients, Peer(c) PROVE AgeBound'
  BY <1>3 DEF Peer, StopReading, ResumeReading, PeerEnds, LinkChange, thread
<1>4. CASE StartPings
  BY <1>4 DEF StartPings
<1>5. ASSUME NEW c \in todo, PingNext(c) PROVE AgeBound'
  BY <1>5 DEF PingNext
<1>6. CASE PingSent
  BY <1>6 DEF PingSent
<1>7. CASE PingsDone
  BY <1>7 DEF PingsDone
<1>8. CASE CollectLate
  BY <1>8 DEF CollectLate
<1>9. ASSUME NEW c \in late, EndLate(c) PROVE AgeBound'
  BY <1>9 DEF EndLate, Forget
<1>10. CASE NextRound
  BY <1>10 DEF NextRound
<1>11. CASE Tick
  <2>1. SUFFICES ASSUME ~held', Sleeping PROVE AgeBound'
    BY <1>11 DEF Tick
  <2>2. \A c \in registered : age'[c] <= age[c] + 1
    BY <1>11 DEF Tick
  <2>3. /\ ~held /\ hpc \in {"sleep", "wait"} /\ timer' = timer - 1
        /\ UNCHANGED <<registered, hpc>>
    BY <1>11, <2>1 DEF Tick, Sleeping
  <2>4. \A c \in registered : age'[c] \in Nat
    BY <1>11 DEF Tick, MaxAge
  <2>5. timer' \in Nat
    BY <2>1, <2>3 DEF Sleeping
  <2> QED
    BY <2>2, <2>3, <2>4, <2>5 DEF MaxAge
<1>12. CASE UNCHANGED vars
  BY <1>12 DEF vars
<1> QED
  BY <1>1, <1>2, <1>3, <1>4, <1>5, <1>6, <1>7, <1>8, <1>9, <1>10, <1>11, <1>12
  DEF Next, heartbeatLoop

\* Unless a send has blocked the PING loop, no session without PONG is older than
\* the timeout and one round of heartbeatLoop.
THEOREM SilentClientsEnd == Spec => []EndedInTime
<1>1. TypeOK /\ TimerBound /\ AgeBound => EndedInTime
  BY HeartbeatAssumption DEF TypeOK, TimerBound, AgeBound, EndedInTime
<1>2. Answering => TimerBound
  BY DEF Answering
<1> QED
  BY TypeInit, TypeStep, AnsweringInit, AnsweringStep, AgeInit, AgeStep, <1>1, <1>2,
     PTL DEF Spec

=============================================================================
