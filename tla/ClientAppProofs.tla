-------------------------- MODULE ClientAppProofs --------------------------
(***************************************************************************)
(* What is proved of ClientApp for any number of messages, PINGs and       *)
(* commands: the types, that an event is announced once, that the inbox    *)
(* keeps every message under one index, and that a wait that has not timed *)
(* out ends with the answer to its own command.                            *)
(***************************************************************************)
EXTENDS ClientApp, FiniteSetTheorems, SequenceTheorems, TLAPS

-----------------------------------------------------------------------------
(***************************************************************************)
(* Types                                                                   *)
(***************************************************************************)
\* Commands are numbered up to the last one sent.
Numbered ==
  /\ asked.n <= MaxCommands
  /\ \A i \in 1..Len(toServer) :
       toServer[i].cmd \in DOMAIN Answers => toServer[i].n \in 1..asked.n

\* While onServerEvent runs, the listener has an event it has taken, not a PING.
ListenerTyped ==
  lpc \in {"check", "queue", "show", "note"} =>
    ev \in Event /\ ev \in heard /\ ev.type # "PING"

Typed == TypeOK /\ Numbered /\ ListenerTyped

\* The kinds of answers.
LEMMA AnswerTypes ==
  /\ DOMAIN Answers = {"LIST_USERS", "GET_LOG", "SEND"}
  /\ Answers["LIST_USERS"] = {"USERS"}
  /\ Answers["GET_LOG"] = {"LOG", "ERROR_MSG"}
  /\ Answers["SEND"] = {"OK", "ERROR_MSG"}
BY DEF Answers

\* An event has one of six types, and its type says which numbers it can have.
LEMMA EventTypes ==
  ASSUME NEW e \in Event
  PROVE  /\ e.type \in {"MESSAGE", "PING", "OK", "ERROR_MSG", "USERS", "LOG"}
         /\ e.n \in Nat /\ e = [type |-> e.type, n |-> e.n]
         /\ e.type = "MESSAGE" => e.n \in 1..MaxMessages
         /\ e.type = "PING" => e.n \in 1..MaxPings
         /\ e.type \in {"OK", "ERROR_MSG", "USERS", "LOG"} => e.n \in 0..MaxCommands
<1>0. {MaxMessages, MaxPings, MaxCommands} \subseteq Nat
  BY ClientAssumption
<1>1. CASE e \in [type : {"MESSAGE"}, n : 1..MaxMessages]
  BY <1>0, <1>1
<1>2. CASE e \in [type : {"PING"}, n : 1..MaxPings]
  BY <1>0, <1>2
<1>3. CASE e \in [type : {"OK", "ERROR_MSG", "USERS", "LOG"}, n : 0..MaxCommands]
  BY <1>0, <1>3
<1> QED
  BY <1>1, <1>2, <1>3 DEF Event

\* A frame of the right type and number is an event.
LEMMA MakeEvent ==
  /\ \A k \in 1..MaxMessages : [type |-> "MESSAGE", n |-> k] \in Event
  /\ \A k \in 1..MaxPings : [type |-> "PING", n |-> k] \in Event
  /\ \A k \in 0..MaxCommands, type \in {"OK", "ERROR_MSG", "USERS", "LOG"} :
       [type |-> type, n |-> k] \in Event
<1>1. \A k \in 1..MaxMessages : [type |-> "MESSAGE", n |-> k] \in Event
  BY DEF Event
<1>2. \A k \in 1..MaxPings : [type |-> "PING", n |-> k] \in Event
  BY DEF Event
<1>3. \A k \in 0..MaxCommands, type \in {"OK", "ERROR_MSG", "USERS", "LOG"} :
        [type |-> type, n |-> k] \in Event
  BY DEF Event
<1> QED
  BY <1>1, <1>2, <1>3

\* How often an event is in a sequence can be counted.
LEMMA CountIsNat ==
  ASSUME NEW s, Len(s) \in Nat, NEW e
  PROVE  Count(s, e) \in Nat /\ Count(s, e) = Cardinality({i \in 1..Len(s) : s[i] = e})
<1>1. IsFiniteSet(1..Len(s)) /\ {i \in 1..Len(s) : s[i] = e} \subseteq 1..Len(s)
  BY FS_Interval
<1>2. IsFiniteSet({i \in 1..Len(s) : s[i] = e})
  BY <1>1, FS_Subset
<1> QED
  BY <1>2, FS_CardinalityType DEF Count

\* One more of an event at the end.
LEMMA CountAppend ==
  ASSUME NEW S, NEW s \in Seq(S), NEW x \in S, NEW e
  PROVE  Count(Append(s, x), e) = Count(s, e) + (IF x = e THEN 1 ELSE 0)
<1> DEFINE A == {i \in 1..Len(s) : s[i] = e}
           B == {i \in 1..Len(Append(s, x)) : Append(s, x)[i] = e}
<1>1. /\ Len(s) \in Nat /\ Len(Append(s, x)) = Len(s) + 1
      /\ Append(s, x)[Len(s) + 1] = x /\ \A i \in 1..Len(s) : Append(s, x)[i] = s[i]
  OBVIOUS
<1>2. \A i : i \in 1..Len(s) + 1 <=> i \in 1..Len(s) \/ i = Len(s) + 1
  BY <1>1
<1>3. B = IF x = e THEN A \cup {Len(s) + 1} ELSE A
  BY <1>1, <1>2
<1>4. IsFiniteSet(A) /\ Len(s) + 1 \notin A
  <2>1. IsFiniteSet(1..Len(s)) /\ A \subseteq 1..Len(s)
    BY <1>1, FS_Interval
  <2>2. Len(s) + 1 \notin 1..Len(s)
    BY <1>1
  <2> QED
    BY <2>1, <2>2, FS_Subset
<1>5. Count(s, e) = Cardinality(A) /\ Count(Append(s, x), e) = Cardinality(B)
  BY DEF Count
<1> HIDE DEF A, B
<1>6. Cardinality(A \cup {Len(s) + 1}) = Cardinality(A) + 1 /\ Cardinality(A) \in Nat
  BY <1>4, FS_AddElement, FS_CardinalityType
<1> QED
  BY <1>3, <1>5, <1>6

\* None in an empty sequence.
LEMMA CountEmpty == \A e : Count(<<>>, e) = 0
<1> TAKE e
<1>1. {i \in 1..Len(<<>>) : <<>>[i] = e} = {}
  OBVIOUS
<1> QED
  BY <1>1, FS_EmptySet DEF Count

\* The elements of a sequence without its first.
LEMMA TailElements ==
  ASSUME NEW S, NEW s \in Seq(S), s # <<>>, NEW q, q = Tail(s)
  PROVE  /\ q \in Seq(S) /\ Len(s) \in Nat \ {0} /\ Len(q) = Len(s) - 1 /\ Len(q) \in Nat
         /\ Head(s) = s[1] /\ s[1] \in S /\ 1 \in 1..Len(s)
         /\ \A i \in 1..Len(q) : q[i] = s[i + 1] /\ i + 1 \in 1..Len(s) /\ i + 1 # 1
<1>1. q \in Seq(S) /\ Len(s) \in Nat \ {0} /\ Len(q) = Len(s) - 1 /\ Head(s) = s[1]
  OBVIOUS
<1>2. \A i \in 1..Len(q) : q[i] = s[i + 1] /\ i + 1 \in 1..Len(s) /\ i + 1 # 1
  BY <1>1
<1>3. 1 \in 1..Len(s)
  BY <1>1
<1> QED
  BY <1>1, <1>2, <1>3, ElementOfSeq

\* The elements of a sequence with one more at its end.
LEMMA AppendElements ==
  ASSUME NEW S, NEW s \in Seq(S), NEW x \in S, NEW q, q = Append(s, x)
  PROVE  /\ q \in Seq(S) /\ Len(s) \in Nat /\ Len(q) = Len(s) + 1 /\ q[Len(s) + 1] = x
         /\ Len(s) + 1 \in 1..Len(q) /\ Len(s) + 1 \notin 1..Len(s)
         /\ \A i \in 1..Len(s) : q[i] = s[i] /\ i \in 1..Len(q)
         /\ \A i \in 1..Len(q) : i \in 1..Len(s) \/ i = Len(s) + 1
<1>1. /\ q \in Seq(S) /\ Len(s) \in Nat /\ Len(q) = Len(s) + 1 /\ q[Len(s) + 1] = x
      /\ \A i \in 1..Len(s) : q[i] = s[i]
  OBVIOUS
<1>2. /\ Len(s) + 1 \in 1..Len(q) /\ Len(s) + 1 \notin 1..Len(s)
      /\ \A i \in 1..Len(s) : i \in 1..Len(q)
      /\ \A i \in 1..Len(q) : i \in 1..Len(s) \/ i = Len(s) + 1
  BY <1>1
<1> QED
  BY <1>1, <1>2

\* The elements of the inbox without the entry that readMessageByIndex takes out.
LEMMA RemoveElements ==
  ASSUME NEW s \in Seq(Entry), NEW k \in 1..Len(s), NEW q, q = RemoveAt(s, k)
  PROVE  /\ q \in Seq(Entry) /\ Len(q) = Len(s) - 1
         /\ \A i \in 1..Len(q) : i < k => q[i] = s[i] /\ i \in 1..Len(s)
         /\ \A i \in 1..Len(q) : ~(i < k) => q[i] = s[i + 1] /\ i + 1 \in 1..Len(s)
<1>1. Len(s) \in Nat /\ k \in Nat /\ 1 <= k /\ k <= Len(s)
  OBVIOUS
<1>2. PICK a : a = SubSeq(s, 1, k - 1)
  OBVIOUS
<1>3. PICK b : b = SubSeq(s, k + 1, Len(s))
  OBVIOUS
<1>4. a \in Seq(Entry) /\ Len(a) = k - 1 /\ \A i \in 1..k - 1 : a[i] = s[i]
  <2>1. CASE k = 1
    BY <1>1, <1>2, <2>1
  <2>2. CASE k # 1
    BY <1>1, <1>2, <2>2
  <2> QED
    BY <2>1, <2>2
<1>5. b \in Seq(Entry) /\ Len(b) = Len(s) - k /\ \A i \in 1..Len(s) - k : b[i] = s[k + i]
  <2>1. CASE k = Len(s)
    BY <1>1, <1>3, <2>1
  <2>2. CASE k # Len(s)
    <3>1. k + 1 \in 1..Len(s) /\ \A i \in Nat : k + 1 + i - 1 = k + i
      BY <1>1, <2>2
    <3> QED
      BY <1>1, <1>3, <3>1
  <2> QED
    BY <2>1, <2>2
<1>6. /\ q \in Seq(Entry) /\ Len(q) = (k - 1) + (Len(s) - k)
      /\ \A i \in 1..(k - 1) + (Len(s) - k) :
           q[i] = IF i <= k - 1 THEN a[i] ELSE b[i - (k - 1)]
  <2>1. q = a \o b
    BY <1>2, <1>3 DEF RemoveAt
  <2>2. /\ q \in Seq(Entry) /\ Len(q) = Len(a) + Len(b)
        /\ \A i \in 1..Len(a) + Len(b) :
             q[i] = IF i <= Len(a) THEN a[i] ELSE b[i - Len(a)]
    <3>1. a \in Seq(Entry) /\ b \in Seq(Entry)
      BY <1>4, <1>5
    <3> QED
      BY <2>1, <3>1, ConcatProperties
  <2> QED
    BY <1>4, <1>5, <2>2
<1>7. Len(q) = Len(s) - 1 /\ (k - 1) + (Len(s) - k) = Len(s) - 1
  BY <1>1, <1>6
<1>8. ASSUME NEW i \in 1..Len(q), i < k PROVE q[i] = s[i] /\ i \in 1..Len(s)
  <2>1. i <= k - 1 /\ i \in 1..k - 1 /\ i \in 1..Len(s)
    BY <1>1, <1>8
  <2> QED
    BY <1>4, <1>6, <1>7, <2>1
<1>9. ASSUME NEW i \in 1..Len(q), ~(i < k) PROVE q[i] = s[i + 1] /\ i + 1 \in 1..Len(s)
  <2>1. /\ ~(i <= k - 1) /\ i - (k - 1) \in 1..Len(s) - k /\ i + 1 \in 1..Len(s)
        /\ k + (i - (k - 1)) = i + 1
    BY <1>1, <1>7, <1>9
  <2> QED
    BY <1>5, <1>6, <1>7, <2>1
<1> QED
  BY <1>6, <1>7, <1>8, <1>9

\* Every other entry stays.
LEMMA RemoveLeaves ==
  ASSUME NEW s \in Seq(Entry), NEW k \in 1..Len(s), NEW q, q = RemoveAt(s, k)
  PROVE  \A j \in 1..Len(s) : j # k => \E i \in 1..Len(q) : q[i] = s[j]
<1>1. q \in Seq(Entry) /\ Len(q) = Len(s) - 1
  BY RemoveElements
<1>2. \A i \in 1..Len(q) : i < k => q[i] = s[i] /\ i \in 1..Len(s)
  BY RemoveElements
<1>3. \A i \in 1..Len(q) : ~(i < k) => q[i] = s[i + 1] /\ i + 1 \in 1..Len(s)
  BY RemoveElements
<1> SUFFICES ASSUME NEW j \in 1..Len(s), j # k PROVE \E i \in 1..Len(q) : q[i] = s[j]
  OBVIOUS
<1>4. Len(s) \in Nat /\ k \in Nat
  OBVIOUS
<1>5. CASE j < k
  <2>1. j \in 1..Len(q)
    BY <1>1, <1>4, <1>5
  <2> QED
    BY <1>2, <1>5, <2>1
<1>6. CASE j > k
  <2>1. j - 1 \in 1..Len(q) /\ ~(j - 1 < k) /\ (j - 1) + 1 = j
    BY <1>1, <1>4, <1>6
  <2>2. q[j - 1] = s[j]
    BY <1>3, <2>1
  <2> QED
    BY <2>1, <2>2
<1> QED
  BY <1>4, <1>5, <1>6

\* The places of the main thread.
Places ==
  {"start", "hello", "refused", "print", "menu", "sending", "opened", "asked",
   "waiting", "answered", "late", "pause", "badPause", "leaving", "joining", "done"}

\* The steps of the main thread that touch neither a socket nor an event.
Quiet ==
  \/ ConnectFails \/ NoAnswer \/ Menu \/ Accept \/ PollHit \/ TimeOut \/ Resume
  \/ BadChoice \/ Joined \/ \E to \in {"sending", "badPause", "leaving"} : Choose(to)

\* These steps leave the sockets, the events and the inbox alone.
LEMMA QuietSteps ==
  ASSUME TypeOK, Quiet
  PROVE  /\ UNCHANGED <<server, asked, listener, inbox, pending, shown>>
         /\ upc' \in Places \ {"start", "hello"} /\ timedOut' \in BOOLEAN /\ inCommand' \in BOOLEAN
         /\ last' = last \/ last' = "NONE"
<1> USE DEF TypeOK, Places, notices
<1>1. CASE ConnectFails \/ NoAnswer \/ TimeOut \/ BadChoice \/ Joined
  BY <1>1 DEF ConnectFails, NoAnswer, TimeOut, BadChoice, Joined, UGoto
<1>2. CASE Menu \/ Accept \/ Resume
  BY <1>2 DEF Menu, Accept, Resume, UGoto
<1>3. CASE PollHit
  BY <1>3 DEF PollHit, UGoto
<1>4. ASSUME NEW to \in {"sending", "badPause", "leaving"}, Choose(to)
      PROVE  /\ UNCHANGED <<server, asked, listener, inbox, pending, shown>>
             /\ upc' \in Places \ {"start", "hello"} /\ timedOut' \in BOOLEAN /\ inCommand' \in BOOLEAN
             /\ last' = last
  BY <1>4 DEF Choose, UGoto
<1> QED
  BY <1>1, <1>2, <1>3, <1>4 DEF Quiet

\* The steps by which the client loses its name or its connection.
Closing == SrvForget \/ SrvCut \/ SrvEnd

\* They leave everything else alone.
LEMMA ClosingSteps ==
  ASSUME Closing
  PROVE  /\ UNCHANGED <<toServer, toClient, pushed, client>>
         /\ srv' \in {srv, "cut", "closed"} /\ entry' \in {"none", "lost"}
BY DEF Closing, SrvForget, SrvCut, SrvEnd

\* The next step is one of these.
LEMMA StepCases ==
  Next => \/ SrvRegister \/ SrvWelcome \/ SrvRefuse \/ SrvAnswer \/ SrvPush \/ SrvPing
          \/ SrvWarn \/ SrvDrop \/ Closing \/ Connect \/ Negotiated \/ Quiet \/ Compose
          \/ (\E i \in 0..counter : OpenUnread(i)) \/ (\E cmd \in Asks : Ask(cmd))
          \/ DisplayPending \/ Leave \/ Hear \/ EndOfStream \/ Check \/ Queue \/ Show
          \/ Note
BY DEF Next, Server, User, Main, Connecting, Listener, Quiet, Closing

\* What the server sends is an event; the command it answers has a number.
LEMMA TypedTell ==
  ASSUME Typed, NEW m \in Event, toClient' = Append(toClient, m),
         UNCHANGED client, srv' \in {srv, "told", "refused"},
         entry' \in {entry, "warned"},
         pushed' \in [messages : 0..MaxMessages, pings : 0..MaxPings],
         toServer' = toServer \/ (toServer # <<>> /\ toServer' = Tail(toServer))
  PROVE  Typed'
<1>1. toClient' \in Seq(Event)
  BY AppendElements DEF Typed, TypeOK
<1>2. toServer' \in Seq(Command) /\ Numbered'
  <2>1. toServer \in Seq(Command) /\ asked' = asked
    BY DEF Typed, TypeOK, client
  <2>2. CASE toServer' = toServer
    BY <2>1, <2>2 DEF Typed, Numbered
  <2>3. CASE toServer # <<>> /\ toServer' = Tail(toServer)
    <3>1. PICK q : q = Tail(toServer)
      OBVIOUS
    <3>2. /\ q \in Seq(Command)
          /\ \A i \in 1..Len(q) : q[i] = toServer[i + 1] /\ i + 1 \in 1..Len(toServer)
      BY <2>1, <2>3, <3>1, TailElements
    <3> QED
      BY <2>1, <2>3, <3>1, <3>2 DEF Typed, Numbered
  <2> QED
    BY <2>2, <2>3
<1>3. TypeOK'
  BY <1>1, <1>2 DEF Typed, TypeOK, client, listener, notices, inbox
<1>4. ListenerTyped'
  BY DEF Typed, ListenerTyped, client, listener
<1> QED
  BY <1>2, <1>3, <1>4 DEF Typed

\* A thread of the client sends a frame.
LEMMA TypedSubmit ==
  ASSUME Typed, NEW c \in Command, toServer' = Append(toServer, c),
         asked' \in Command, asked.n <= asked'.n, asked'.n <= MaxCommands,
         c.cmd \in DOMAIN Answers => c.n \in 1..asked'.n
  PROVE  toServer' \in Seq(Command) /\ Numbered'
<1>1. toServer \in Seq(Command) /\ asked.n \in Nat /\ asked'.n \in Nat
  BY ClientAssumption DEF Typed, TypeOK, Command
<1>2. PICK q : q = Append(toServer, c)
  OBVIOUS
<1>3. /\ q \in Seq(Command) /\ q[Len(toServer) + 1] = c
      /\ \A i \in 1..Len(toServer) : q[i] = toServer[i]
      /\ \A i \in 1..Len(q) : i \in 1..Len(toServer) \/ i = Len(toServer) + 1
  BY <1>1, <1>2, AppendElements
<1>4. \A k : k \in 1..asked.n => k \in 1..asked'.n
  BY <1>1
<1>5. \A i \in 1..Len(q) : q[i].cmd \in DOMAIN Answers => q[i].n \in 1..asked'.n
  BY <1>3, <1>4 DEF Typed, Numbered
<1> QED
  BY <1>2, <1>3, <1>5 DEF Numbered

\* sendCommand numbers the command and sends it.
LEMMA TypedCommand ==
  ASSUME Typed, NEW cmd \in DOMAIN Answers, SendCommand(cmd)
  PROVE  /\ asked' \in Command /\ asked'.n = asked.n + 1 /\ asked'.cmd = cmd
         /\ toServer' = Append(toServer, asked') /\ UNCHANGED <<srv, entry, toClient, pushed>>
         /\ toServer' \in Seq(Command) /\ Numbered'
<1>0. {MaxMessages, MaxPings, MaxCommands} \subseteq Nat /\ asked.n \in Nat
  BY ClientAssumption DEF Typed, TypeOK, Command
<1>1. PICK c : c = [cmd |-> cmd, n |-> asked.n + 1]
  OBVIOUS
<1>2. /\ c = asked' /\ toServer' = Append(toServer, c) /\ c.n = asked.n + 1
      /\ c.cmd = cmd /\ asked.n < MaxCommands /\ UNCHANGED <<srv, entry, toClient, pushed>>
  BY <1>1 DEF SendCommand, Submit
<1>3. c \in Command /\ c.n <= MaxCommands /\ c.n \in 1..c.n /\ asked.n <= c.n
  BY <1>0, <1>1, <1>2 DEF Command
<1> QED
  BY <1>2, <1>3, TypedSubmit

\* Every step of the server, the user and the two threads keeps the types.
LEMMA TypedStep == Typed /\ [Next]_vars => Typed'
<1> SUFFICES ASSUME Typed, [Next]_vars PROVE Typed'
  OBVIOUS
<1>0. /\ {MaxMessages, MaxPings, MaxCommands} \subseteq Nat
      /\ toServer \in Seq(Command) /\ toClient \in Seq(Event) /\ asked \in Command
      /\ pushed \in [messages : 0..MaxMessages, pings : 0..MaxPings]
      /\ unread \in Seq(Entry) /\ read \in Seq(Entry) /\ counter \in Nat
  BY ClientAssumption DEF Typed, TypeOK
<1>1. CASE SrvRegister \/ SrvDrop
  <2>1. PICK q : q = Tail(toServer)
    OBVIOUS
  <2>2. /\ q \in Seq(Command)
        /\ \A i \in 1..Len(q) : q[i] = toServer[i + 1] /\ i + 1 \in 1..Len(toServer)
    BY <1>0, <1>1, <2>1, TailElements DEF SrvRegister, SrvDrop
  <2>3. toServer' = q /\ asked' = asked
    BY <1>1, <2>1 DEF SrvRegister, SrvDrop, client
  <2>4. Numbered'
    BY <2>2, <2>3 DEF Typed, Numbered
  <2>5. TypeOK' /\ ListenerTyped'
    BY <1>1, <2>2, <2>3
    DEF SrvRegister, SrvDrop, client, listener, notices, inbox, Typed, TypeOK,
        ListenerTyped
  <2> QED
    BY <2>4, <2>5 DEF Typed
<1>2. CASE SrvWelcome \/ SrvRefuse \/ SrvWarn
  <2>1. PICK type \in {"OK", "ERROR_MSG"} : Tell(type, 0)
    BY <1>2 DEF SrvWelcome, SrvRefuse, SrvWarn
  <2>2. PICK m : m = [type |-> type, n |-> 0]
    OBVIOUS
  <2>3. m \in Event /\ toClient' = Append(toClient, m)
    <3>1. 0 \in 0..MaxCommands
      BY <1>0
    <3> QED
      BY <2>1, <2>2, <3>1, MakeEvent DEF Tell
  <2> QED
    BY <1>0, <1>2, <2>3, TypedTell DEF SrvWelcome, SrvRefuse, SrvWarn
<1>20. CASE Closing
  BY <1>20, ClosingSteps
  DEF client, listener, notices, inbox, Typed, TypeOK, Numbered, ListenerTyped
<1>3. CASE SrvAnswer
  <2>1. PICK c : c = Head(toServer)
    OBVIOUS
  <2>2. c = toServer[1] /\ 1 \in 1..Len(toServer) /\ c \in Command
    BY <1>0, <1>3, <2>1, TailElements DEF SrvAnswer
  <2>3. ASSUME c.cmd \in DOMAIN Answers, UNCHANGED <<srv, entry>>,
               NEW type \in Answers[c.cmd], Tell(type, c.n)
        PROVE  Typed'
    <3>1. c.n \in 0..MaxCommands
      BY <1>0, <2>2, <2>3 DEF Typed, Numbered, Command
    <3>2. type \in {"OK", "ERROR_MSG", "USERS", "LOG"}
      BY <2>3, AnswerTypes
    <3>3. PICK m : m = [type |-> type, n |-> c.n]
      OBVIOUS
    <3>4. m \in Event /\ toClient' = Append(toClient, m)
      BY <2>3, <3>1, <3>2, <3>3, MakeEvent DEF Tell
    <3> QED
      BY <1>0, <1>3, <2>3, <3>4, TypedTell DEF SrvAnswer
  <2>4. CASE /\ toClient' = toClient /\ srv' \in {srv, "closed"}
             /\ entry' \in {entry, "none", "missed"}
    <3>1. PICK q : q = Tail(toServer)
      OBVIOUS
    <3>2. /\ q \in Seq(Command)
          /\ \A i \in 1..Len(q) : q[i] = toServer[i + 1] /\ i + 1 \in 1..Len(toServer)
      BY <1>0, <1>3, <3>1, TailElements DEF SrvAnswer
    <3>3. toServer' = q /\ asked' = asked /\ pushed' = pushed /\ UNCHANGED client
      BY <1>3, <3>1 DEF SrvAnswer, client
    <3>4. Numbered'
      BY <3>2, <3>3 DEF Typed, Numbered
    <3>5. TypeOK' /\ ListenerTyped'
      BY <2>4, <3>2, <3>3
      DEF client, listener, notices, inbox, Typed, TypeOK, ListenerTyped
    <3> QED
      BY <3>4, <3>5 DEF Typed
  <2> QED
    BY <1>3, <2>1, <2>3, <2>4 DEF SrvAnswer, SrvDisconnect
<1>4. CASE SrvPush
  <2>1. PICK k : k = pushed.messages + 1
    OBVIOUS
  <2>2. k \in 1..MaxMessages /\ pushed' = [pushed EXCEPT !.messages = k]
    BY <1>0, <1>4, <2>1 DEF SrvPush
  <2>3. /\ pushed' \in [messages : 0..MaxMessages, pings : 0..MaxPings]
        /\ pushed'.messages = k
    BY <1>0, <2>2
  <2>4. PICK m : m = [type |-> "MESSAGE", n |-> k]
    OBVIOUS
  <2>5. m \in Event /\ toClient' = Append(toClient, m)
    BY <1>4, <2>2, <2>3, <2>4, MakeEvent DEF SrvPush, Tell
  <2> QED
    BY <1>4, <2>3, <2>5, TypedTell DEF SrvPush
<1>5. CASE SrvPing
  <2>1. PICK k : k = pushed.pings + 1
    OBVIOUS
  <2>2. k \in 1..MaxPings /\ pushed' = [pushed EXCEPT !.pings = k]
    BY <1>0, <1>5, <2>1 DEF SrvPing
  <2>3. /\ pushed' \in [messages : 0..MaxMessages, pings : 0..MaxPings]
        /\ pushed'.pings = k
    BY <1>0, <2>2
  <2>4. PICK m : m = [type |-> "PING", n |-> k]
    OBVIOUS
  <2>5. m \in Event /\ toClient' = Append(toClient, m)
    BY <1>5, <2>2, <2>3, <2>4, MakeEvent DEF SrvPing, Tell
  <2> QED
    BY <1>5, <2>3, <2>5, TypedTell DEF SrvPing
<1>6. ASSUME NEW c, c \in {"CONNECT", "DISCONNECT"}, Submit(c, 0), upc' \in Places,
             UNCHANGED <<srv, entry, toClient, pushed, asked, timedOut, listener, notices, inbox>>
      PROVE  Typed'
  <2>1. PICK m : m = [cmd |-> c, n |-> 0]
    OBVIOUS
  <2>2. m \in Command /\ m.cmd \notin DOMAIN Answers /\ toServer' = Append(toServer, m)
    BY <1>0, <1>6, <2>1, AnswerTypes DEF Command, Submit
  <2>3. asked.n <= MaxCommands /\ asked.n \in Nat /\ asked' = asked
    BY <1>0, <1>6 DEF Typed, Numbered, Command
  <2>4. toServer' \in Seq(Command) /\ Numbered'
    BY <1>0, <2>2, <2>3, TypedSubmit
  <2>5. TypeOK' /\ ListenerTyped'
    BY <1>6, <2>4 DEF Places, listener, notices, inbox, Typed, TypeOK, ListenerTyped
  <2> QED
    BY <2>4, <2>5 DEF Typed
<1>7. CASE Connect \/ Leave
  BY <1>6, <1>7 DEF Connect, Leave, UGoto, Places
<1>8. CASE Negotiated
  <2>1. toClient' \in Seq(Event)
    BY <1>0, <1>8, TailElements DEF Negotiated
  <2>2. TypeOK' /\ Numbered' /\ ListenerTyped'
    BY <1>8, <2>1
    DEF Negotiated, UGoto, listener, notices, inbox, Typed, TypeOK, Numbered, ListenerTyped
  <2> QED
    BY <2>2 DEF Typed
<1>9. CASE Quiet
  BY <1>9, QuietSteps
  DEF Places, server, listener, inbox, Typed, TypeOK, Numbered, ListenerTyped
<1>10. ASSUME NEW cmd \in DOMAIN Answers, SendCommand(cmd) \/ UNCHANGED <<asked, server>>
       PROVE  /\ Numbered' /\ toServer' \in Seq(Command) /\ asked' \in Command
              /\ UNCHANGED <<srv, entry, toClient, pushed>>
  <2>1. CASE SendCommand(cmd)
    BY <2>1, TypedCommand
  <2>2. CASE UNCHANGED <<asked, server>>
    BY <1>0, <2>2 DEF server, Typed, Numbered
  <2> QED
    BY <1>10, <2>1, <2>2
<1>11. CASE Compose \/ \E cmd \in Asks : Ask(cmd)
  <2>1. PICK cmd \in DOMAIN Answers : SendCommand(cmd) \/ UNCHANGED <<asked, server>>
    BY <1>11, AnswerTypes DEF Compose, Ask, Asks
  <2>2. Numbered' /\ TypeOK' /\ ListenerTyped'
    BY <1>10, <1>11, <2>1
    DEF Compose, Ask, UGoto, listener, notices, inbox, Typed, TypeOK, ListenerTyped
  <2> QED
    BY <2>2 DEF Typed
<1>12. ASSUME NEW i \in 0..counter, OpenUnread(i) PROVE Typed'
  <2>1. PICK k \in 1..Len(unread) :
          read' = Append(read, unread[k]) /\ unread' = RemoveAt(unread, k)
    BY <1>12 DEF OpenUnread
  <2>2. unread[k] \in Entry
    BY <1>0, ElementOfSeq
  <2>3. read' \in Seq(Entry)
    BY <1>0, <2>1, <2>2
  <2>4. unread' \in Seq(Entry)
    BY <1>0, <2>1, RemoveElements
  <2>5. TypeOK' /\ Numbered' /\ ListenerTyped'
    BY <1>12, <2>3, <2>4
    DEF OpenUnread, UGoto, server, listener, notices, Typed, TypeOK, Numbered, ListenerTyped
  <2> QED
    BY <2>5 DEF Typed
<1>13. CASE DisplayPending
  <2>1. Len(pending) \in Nat
    BY DEF Typed, TypeOK
  <2>2. ASSUME NEW e \in Event
        PROVE  shown[e] + Cardinality({i \in 1..Len(pending) : pending[i] = e}) \in Nat
    <3>1. Cardinality({i \in 1..Len(pending) : pending[i] = e}) \in Nat
      BY <2>1, CountIsNat
    <3>2. shown[e] \in Nat
      BY DEF Typed, TypeOK
    <3> QED
      BY <3>1, <3>2
  <2>3. shown' \in [Event -> Nat]
    BY <1>13, <2>2 DEF DisplayPending
  <2>4. pending' \in Seq(Event)
    BY <1>13 DEF DisplayPending
  <2> QED
    BY <1>13, <2>3, <2>4
    DEF DisplayPending, UGoto, server, listener, inbox, Typed, TypeOK, Numbered,
        ListenerTyped
<1>14. CASE Hear
  <2>1. PICK e : e = Head(toClient)
    OBVIOUS
  <2>2. e \in Event /\ toClient' \in Seq(Event)
    BY <1>0, <1>14, <2>1, TailElements DEF Hear
  <2>3. heard' = heard \cup {e} /\ heard' \in SUBSET Event
    BY <1>14, <2>1, <2>2 DEF Hear, Typed, TypeOK
  <2>4. unread' \in Seq(Entry) /\ read' \in Seq(Entry) /\ counter' \in Nat
    <3>1. CASE e.type = "MESSAGE"
      <4>1. PICK x : x = [index |-> counter, n |-> e.n]
        OBVIOUS
      <4>2. x \in Entry
        BY <1>0, <2>2, <3>1, <4>1, EventTypes DEF Entry
      <4>3. unread' = Append(unread, x) /\ read' = read /\ counter' = counter + 1
        BY <1>14, <2>1, <3>1, <4>1 DEF Hear, Store
      <4> QED
        BY <1>0, <4>2, <4>3
    <3>2. CASE e.type # "MESSAGE"
      BY <1>0, <1>14, <2>1, <3>2 DEF Hear, inbox
    <3> QED
      BY <3>1, <3>2
  <2>5. CASE e.type = "PING"
    <3>1. PICK c : c = [cmd |-> "PONG", n |-> e.n]
      OBVIOUS
    <3>2. e.n \in 0..MaxCommands + MaxPings
      BY <1>0, <2>2, <2>5, EventTypes
    <3>3. c \in Command /\ c.cmd \notin DOMAIN Answers
      BY <3>1, <3>2, AnswerTypes DEF Command
    <3>4. toServer' = Append(toServer, c) /\ lpc' = lpc /\ ev' = ev /\ lpc = "recv"
      BY <1>14, <2>1, <2>5, <3>1 DEF Hear, Submit
    <3>5. asked.n <= MaxCommands /\ asked.n \in Nat /\ asked' = asked
      BY <1>0, <1>14 DEF Hear, Typed, Numbered, Command
    <3>6. toServer' \in Seq(Command) /\ Numbered'
      BY <1>0, <3>3, <3>4, <3>5, TypedSubmit
    <3>7. TypeOK' /\ ListenerTyped'
      BY <1>14, <2>2, <2>3, <2>4, <3>4, <3>6
      DEF Hear, notices, Typed, TypeOK, ListenerTyped
    <3> QED
      BY <3>6, <3>7 DEF Typed
  <2>6. CASE e.type # "PING"
    <3>1. lpc' = "check" /\ ev' = e /\ toServer' = toServer
      BY <1>14, <2>1, <2>6 DEF Hear
    <3>2. Numbered'
      BY <1>14, <3>1 DEF Hear, Typed, Numbered
    <3>3. TypeOK' /\ ListenerTyped'
      BY <1>14, <2>2, <2>3, <2>4, <2>6, <3>1
      DEF Hear, notices, Typed, TypeOK, ListenerTyped
    <3> QED
      BY <3>2, <3>3 DEF Typed
  <2> QED
    BY <2>5, <2>6
<1>15. CASE EndOfStream \/ Check
  <2>1. lpc' \in {"ended", "queue", "show"} /\ lpc \in {"recv", "check"}
        /\ (lpc' \in {"queue", "show"} => lpc = "check")
    BY <1>15 DEF EndOfStream, Check, LGoto
  <2>2. UNCHANGED <<server, upc, asked, timedOut, ev, heard, notices, inbox>>
    BY <1>15 DEF EndOfStream, Check
  <2>3. TypeOK' /\ Numbered' /\ ListenerTyped'
    BY <2>1, <2>2 DEF server, notices, inbox, Typed, TypeOK, Numbered, ListenerTyped
  <2> QED
    BY <2>3 DEF Typed
<1>16. CASE Queue
  <2>1. pending' \in Seq(Event)
    BY <1>16 DEF Queue, LGoto, Typed, TypeOK, ListenerTyped
  <2> QED
    BY <1>16, <2>1
    DEF Queue, LGoto, server, inbox, Typed, TypeOK, Numbered, ListenerTyped
<1>17. CASE Show
  <2>1. shown' \in [Event -> Nat]
    BY <1>17 DEF Show, LGoto, Typed, TypeOK, ListenerTyped
  <2> QED
    BY <1>17, <2>1
    DEF Show, LGoto, server, inbox, Typed, TypeOK, Numbered, ListenerTyped
<1>18. CASE Note
  <2>1. ev.type \in {"MESSAGE", "OK", "ERROR_MSG", "USERS", "LOG"}
    BY <1>18, EventTypes DEF Note, LGoto, Typed, ListenerTyped
  <2> QED
    BY <1>18, <2>1
    DEF Note, LGoto, server, inbox, Typed, TypeOK, Numbered, ListenerTyped
<1>19. CASE UNCHANGED vars
  BY <1>19
  DEF vars, server, listener, notices, inbox, Typed, TypeOK, Numbered, ListenerTyped
<1> QED
  BY <1>1, <1>2, <1>3, <1>4, <1>5, <1>7, <1>8, <1>9, <1>11, <1>12, <1>13, <1>14, <1>15,
     <1>16, <1>17, <1>18, <1>19, <1>20, StepCases

\* Before connect every variable has its type.
LEMMA TypedInit == Init => Typed
<1> SUFFICES ASSUME Init PROVE Typed
  OBVIOUS
<1>0. {MaxMessages, MaxPings, MaxCommands} \subseteq Nat
  BY ClientAssumption
<1>1. asked \in Command /\ asked.n <= MaxCommands /\ Len(toServer) = 0
  BY <1>0 DEF Init, Command
<1>2. pushed \in [messages : 0..MaxMessages, pings : 0..MaxPings]
  BY <1>0 DEF Init
<1>3. /\ toServer \in Seq(Command) /\ toClient \in Seq(Event) /\ pending \in Seq(Event)
      /\ unread \in Seq(Entry) /\ read \in Seq(Entry)
  BY DEF Init
<1>4. TypeOK
  BY <1>1, <1>2, <1>3 DEF Init, TypeOK
<1> QED
  BY <1>1, <1>4 DEF Init, Typed, Numbered, ListenerTyped

\* Every variable keeps its type: in particular the type of an event noted for
\* waitForResponse is never that of a PING, and what is shown is an event.
THEOREM TypeCorrect == Spec => []TypeOK
<1>1. Typed => TypeOK
  BY DEF Typed
<1> QED
  BY <1>1, TypedInit, TypedStep, PTL DEF Spec

-----------------------------------------------------------------------------
(***************************************************************************)
(* An event is sent once                                                   *)
(***************************************************************************)
\* onServerEvent announces e, in every case.
Announces(e) == e.type \notin {"OK", "PING"}

\* The server has not sent the reason of a refusal or of a kick.
Unwarned == srv = "fresh" \/ (srv \in {"registered", "told"} /\ entry = "ours")

\* The server has e still to send.
Future(e) ==
  \/ e.type = "MESSAGE" /\ e.n > pushed.messages
  \/ /\ e.type \in {"ERROR_MSG", "USERS", "LOG"}
     /\ \/ e.n > asked.n
        \/ \E i \in 1..Len(toServer) :
             toServer[i].cmd \in DOMAIN Answers /\ toServer[i].n = e.n
        \/ e.n = 0 /\ Unwarned

\* No number is used for two commands ...
CommandsDiffer ==
  \A i, j \in 1..Len(toServer) :
    /\ toServer[i].cmd \in DOMAIN Answers /\ toServer[j].cmd \in DOMAIN Answers
    /\ toServer[i].n = toServer[j].n
    => i = j

\* ... no event is sent twice ...
FramesDiffer ==
  \A i, j \in 1..Len(toClient) :
    Announces(toClient[i]) /\ toClient[i] = toClient[j] => i = j

\* ... and what has yet to be sent or taken was not heard.
OnTheWay(e) == \E i \in 1..Len(toClient) : toClient[i] = e
NotHeardYet ==
  \A e \in Event : Announces(e) =>
    /\ OnTheWay(e) => e \notin heard
    /\ Future(e) => e \notin heard /\ ~OnTheWay(e)

Fresh == CommandsDiffer /\ FramesDiffer /\ NotHeardYet

\* What a step does to the frames on their way to the server: nothing, one is
\* taken, one that asks for no answer is added, or a new command is.
LEMMA CommandCases ==
  ASSUME Typed, [Next]_vars
  PROVE  \/ UNCHANGED <<toServer, asked>>
         \/ toServer # <<>> /\ toServer' = Tail(toServer) /\ asked' = asked
         \/ \E c \in Command : /\ toServer' = Append(toServer, c) /\ asked' = asked
                               /\ c.cmd \notin DOMAIN Answers
         \/ \E c \in Command : /\ toServer' = Append(toServer, c) /\ asked' = c
                               /\ c.cmd \in DOMAIN Answers /\ c.n = asked.n + 1
<1> DEFINE Added ==
      \E c \in Command : /\ toServer' = Append(toServer, c) /\ asked' = asked
                         /\ c.cmd \notin DOMAIN Answers
<1> DEFINE New ==
      \E c \in Command : /\ toServer' = Append(toServer, c) /\ asked' = c
                         /\ c.cmd \in DOMAIN Answers /\ c.n = asked.n + 1
<1>0. {MaxMessages, MaxPings, MaxCommands} \subseteq Nat /\ toClient \in Seq(Event)
  BY ClientAssumption DEF Typed, TypeOK
<1>1. CASE SrvRegister \/ SrvRefuse \/ SrvAnswer \/ SrvDrop
  BY <1>1 DEF SrvRegister, SrvRefuse, SrvAnswer, SrvDrop, client
<1>2. CASE SrvWelcome \/ SrvPush \/ SrvPing \/ SrvWarn \/ Negotiated \/ DisplayPending
             \/ (\E i \in 0..counter : OpenUnread(i)) \/ EndOfStream \/ Check \/ Queue
             \/ Show \/ Note \/ UNCHANGED vars
  BY <1>2
  DEF SrvWelcome, SrvPush, SrvPing, SrvWarn, Negotiated, DisplayPending, OpenUnread,
      EndOfStream, Check, Queue, Show, Note, client, server, vars
<1>9. CASE Closing
  BY <1>9, ClosingSteps DEF client
<1>3. CASE Quiet
  BY <1>3, QuietSteps DEF server, Typed
<1>4. ASSUME NEW cmd \in {"CONNECT", "DISCONNECT"}, Submit(cmd, 0), asked' = asked
      PROVE  Added
  <2>1. PICK c : c = [cmd |-> cmd, n |-> 0]
    OBVIOUS
  <2>2. c \in Command /\ c.cmd \notin DOMAIN Answers /\ toServer' = Append(toServer, c)
    BY <1>0, <1>4, <2>1, AnswerTypes DEF Command, Submit
  <2> QED
    BY <1>4, <2>2
<1>5. CASE Connect \/ Leave
  BY <1>4, <1>5 DEF Connect, Leave
<1>6. ASSUME NEW cmd \in DOMAIN Answers, SendCommand(cmd) PROVE New
  <2>1. PICK c : c = asked'
    OBVIOUS
  <2> QED
    BY <1>6, <2>1, TypedCommand
<1>7. CASE Compose \/ \E cmd \in Asks : Ask(cmd)
  <2>1. PICK cmd \in DOMAIN Answers : SendCommand(cmd) \/ UNCHANGED <<asked, server>>
    BY <1>7, AnswerTypes DEF Compose, Ask, Asks
  <2> QED
    BY <1>6, <2>1 DEF server
<1>8. CASE Hear
  <2>1. PICK e : e = Head(toClient)
    OBVIOUS
  <2>2. e \in Event
    BY <1>0, <1>8, <2>1, TailElements DEF Hear
  <2>3. CASE e.type = "PING"
    <3>1. PICK c : c = [cmd |-> "PONG", n |-> e.n]
      OBVIOUS
    <3>2. e.n \in 0..MaxCommands + MaxPings
      BY <1>0, <2>2, <2>3, EventTypes
    <3>3. c \in Command /\ c.cmd \notin DOMAIN Answers
      BY <3>1, <3>2, AnswerTypes DEF Command
    <3>4. toServer' = Append(toServer, c) /\ asked' = asked
      BY <1>8, <2>1, <2>3, <3>1 DEF Hear, Submit
    <3> QED
      BY <3>3, <3>4
  <2>4. CASE e.type # "PING"
    BY <1>8, <2>1, <2>4 DEF Hear
  <2> QED
    BY <2>3, <2>4
<1> QED
  BY <1>1, <1>2, <1>3, <1>5, <1>7, <1>8, <1>9, StepCases

\* Numbers stay different: a new command has a number above all others.
LEMMA CommandsDifferStep ==
  ASSUME Typed, CommandsDiffer, [Next]_vars
  PROVE  CommandsDiffer'
<1>0. toServer \in Seq(Command) /\ asked.n \in Nat
  BY ClientAssumption DEF Typed, TypeOK, Command
<1>1. CASE UNCHANGED toServer
  BY <1>1 DEF CommandsDiffer
<1>2. CASE toServer # <<>> /\ toServer' = Tail(toServer)
  <2>1. PICK q : q = Tail(toServer)
    OBVIOUS
  <2>2. /\ Len(q) \in Nat
        /\ \A i \in 1..Len(q) : q[i] = toServer[i + 1] /\ i + 1 \in 1..Len(toServer)
    BY <1>0, <1>2, <2>1, TailElements
  <2>3. \A i, j \in 1..Len(q) : i + 1 = j + 1 => i = j
    BY <2>2
  <2>4. \A i, j \in 1..Len(q) :
          /\ q[i].cmd \in DOMAIN Answers /\ q[j].cmd \in DOMAIN Answers
          /\ q[i].n = q[j].n
          => i = j
    BY <2>2, <2>3 DEF CommandsDiffer
  <2> QED
    BY <1>2, <2>1, <2>4 DEF CommandsDiffer
<1>3. ASSUME NEW c \in Command, toServer' = Append(toServer, c),
             c.cmd \in DOMAIN Answers => c.n = asked.n + 1
      PROVE  CommandsDiffer'
  <2>1. PICK q : q = Append(toServer, c)
    OBVIOUS
  <2>2. /\ q[Len(toServer) + 1] = c /\ \A i \in 1..Len(toServer) : q[i] = toServer[i]
        /\ \A i \in 1..Len(q) : i \in 1..Len(toServer) \/ i = Len(toServer) + 1
    BY <1>0, <2>1, AppendElements
  <2>3. \A i \in 1..Len(toServer) :
          toServer[i].cmd \in DOMAIN Answers => toServer[i].n # asked.n + 1
    BY <1>0 DEF Typed, Numbered
  <2>4. \A i, j \in 1..Len(q) :
          /\ q[i].cmd \in DOMAIN Answers /\ q[j].cmd \in DOMAIN Answers
          /\ q[i].n = q[j].n
          => i = j
    BY <1>3, <2>2, <2>3 DEF CommandsDiffer
  <2> QED
    BY <1>3, <2>1, <2>4 DEF CommandsDiffer
<1> QED
  BY <1>1, <1>2, <1>3, CommandCases

\* What is not to be sent any more stays so.
LEMMA FutureStep ==
  ASSUME Typed, [Next]_vars, NEW e \in Event, Future(e)'
  PROVE  Future(e)
<1>0. /\ toServer \in Seq(Command) /\ asked.n \in Nat /\ e.n \in Nat
      /\ pushed.messages \in Nat
  BY ClientAssumption, EventTypes DEF Typed, TypeOK, Command
<1>1. e.type = "MESSAGE" => pushed'.messages >= pushed.messages
  <2>1. CASE pushed' = pushed
    BY <1>0, <2>1
  <2>2. CASE SrvPush \/ SrvPing
    BY <1>0, <2>2 DEF SrvPush, SrvPing, Typed, TypeOK
  <2>3. CASE Quiet
    BY <2>1, <2>3, QuietSteps DEF server, Typed
  <2>4. CASE Closing
    BY <2>1, <2>4, ClosingSteps
  <2> QED
    BY <2>1, <2>2, <2>3, <2>4, StepCases
    DEF SrvRegister, SrvWelcome, SrvRefuse, SrvAnswer, SrvWarn, SrvDrop, Connect, Negotiated,
        Compose, OpenUnread, Ask, SendCommand, DisplayPending, Leave, Hear, EndOfStream,
        Check, Queue, Show, Note, server, vars
<1>2. Unwarned' => Unwarned
  <2>1. CASE UNCHANGED <<srv, entry>>
    BY <2>1 DEF Unwarned
  <2>2. CASE Quiet
    BY <2>1, <2>2, QuietSteps DEF server, Typed
  <2>3. CASE Closing
    BY <2>3, ClosingSteps DEF Closing, SrvForget, SrvCut, SrvEnd, Unwarned
  <2>4. CASE SrvRegister \/ SrvWelcome \/ SrvRefuse \/ SrvAnswer \/ SrvWarn \/ SrvDrop
    BY <2>4
    DEF SrvRegister, SrvWelcome, SrvRefuse, SrvAnswer, SrvDisconnect, Named, SrvWarn,
        SrvDrop, Unwarned
  <2> QED
    BY <2>1, <2>2, <2>3, <2>4, StepCases
    DEF SrvPush, SrvPing, Connect, Negotiated, Compose, OpenUnread, Ask, SendCommand,
        DisplayPending, Leave, Hear, EndOfStream, Check, Queue, Show, Note, server, vars
<1>3. CASE e.type = "MESSAGE"
  <2>1. pushed'.messages \in Nat
    BY TypedStep, ClientAssumption DEF Typed, TypeOK
  <2> QED
    BY <1>0, <1>1, <1>3, <2>1 DEF Future
<1>4. CASE e.type \in {"ERROR_MSG", "USERS", "LOG"} /\ e.n > asked.n
  BY <1>4 DEF Future
<1>5. CASE e.type \in {"ERROR_MSG", "USERS", "LOG"} /\ ~(e.n > asked.n)
  <2>1. CASE e.n = 0 /\ Unwarned'
    BY <1>2, <1>5, <2>1 DEF Future
  <2>2. CASE e.n > asked'.n
    <3>1. PICK c : asked' = asked \/ (asked' = c /\ c.n = asked.n + 1)
      BY CommandCases
    <3> QED
      BY <1>0, <1>5, <2>2, <3>1
  <2>3. ASSUME NEW i \in 1..Len(toServer'), toServer'[i].cmd \in DOMAIN Answers,
               toServer'[i].n = e.n
        PROVE  Future(e)
    <3>1. CASE UNCHANGED toServer
      BY <1>5, <2>3, <3>1 DEF Future
    <3>2. CASE toServer # <<>> /\ toServer' = Tail(toServer)
      <4>1. PICK q : q = Tail(toServer)
        OBVIOUS
      <4>2. \A j \in 1..Len(q) : q[j] = toServer[j + 1] /\ j + 1 \in 1..Len(toServer)
        BY <1>0, <3>2, <4>1, TailElements
      <4> QED
        BY <1>5, <2>3, <3>2, <4>1, <4>2 DEF Future
    <3>3. ASSUME NEW c \in Command, toServer' = Append(toServer, c),
                 c.cmd \in DOMAIN Answers => c.n = asked.n + 1
          PROVE  Future(e)
      <4>1. PICK q : q = Append(toServer, c)
        OBVIOUS
      <4>2. /\ q[Len(toServer) + 1] = c /\ \A j \in 1..Len(toServer) : q[j] = toServer[j]
            /\ \A j \in 1..Len(q) : j \in 1..Len(toServer) \/ j = Len(toServer) + 1
        BY <1>0, <4>1, AppendElements
      <4>3. i \in 1..Len(toServer)
        BY <1>0, <1>5, <2>3, <3>3, <4>1, <4>2
      <4> QED
        BY <1>5, <2>3, <3>3, <4>1, <4>2, <4>3 DEF Future
    <3> QED
      BY <3>1, <3>2, <3>3, CommandCases
  <2> QED
    BY <1>5, <2>1, <2>2, <2>3 DEF Future
<1> QED
  BY <1>3, <1>4, <1>5 DEF Future

\* What a step does to the frames on their way to the client: nothing, the first
\* is taken, or one that was still to be sent is added.
LEMMA FrameCases ==
  ASSUME Typed, CommandsDiffer, [Next]_vars
  PROVE  \/ UNCHANGED <<toClient, heard>>
         \/ /\ toClient # <<>> /\ toClient' = Tail(toClient)
            /\ heard' = heard \/ heard' = heard \cup {toClient[1]}
         \/ \E m \in Event : /\ toClient' = Append(toClient, m) /\ heard' = heard
                             /\ Announces(m) => Future(m) /\ ~Future(m)'
<1> DEFINE Added ==
      \E m \in Event : /\ toClient' = Append(toClient, m) /\ heard' = heard
                       /\ Announces(m) => Future(m) /\ ~Future(m)'
<1>0. /\ {MaxMessages, MaxPings, MaxCommands} \subseteq Nat
      /\ toServer \in Seq(Command) /\ toClient \in Seq(Event)
      /\ pushed \in [messages : 0..MaxMessages, pings : 0..MaxPings] /\ asked.n \in Nat
  BY ClientAssumption DEF Typed, TypeOK, Command
<1>1. CASE Negotiated \/ Hear
  <2>1. toClient # <<>> => Head(toClient) = toClient[1]
    BY <1>0, TailElements
  <2> QED
    BY <1>1, <2>1 DEF Negotiated, Hear
<1>2. CASE SrvRegister \/ SrvDrop \/ Connect \/ Leave \/ DisplayPending \/ EndOfStream \/ Check
             \/ Queue \/ Show \/ Note \/ UNCHANGED vars
  BY <1>2
  DEF SrvRegister, SrvDrop, Connect, Leave, DisplayPending, EndOfStream, Check, Queue,
      Show, Note, client, listener, server, vars
<1>3. CASE Quiet
  BY <1>3, QuietSteps DEF server, listener, Typed
<1>4. CASE Compose \/ (\E i \in 0..counter : OpenUnread(i)) \/ \E cmd \in Asks : Ask(cmd)
  BY <1>4 DEF Compose, OpenUnread, Ask, SendCommand, listener, server
<1>5. CASE SrvPush
  <2>1. PICK k : k = pushed.messages + 1
    OBVIOUS
  <2>2. k \in 1..MaxMessages /\ pushed' = [pushed EXCEPT !.messages = k]
    BY <1>0, <1>5, <2>1 DEF SrvPush
  <2>3. pushed'.messages = k /\ k > pushed.messages /\ ~(k > k)
    BY <1>0, <2>1, <2>2
  <2>4. PICK m : m = [type |-> "MESSAGE", n |-> k]
    OBVIOUS
  <2>5. m \in Event /\ toClient' = Append(toClient, m)
    BY <1>5, <2>2, <2>3, <2>4, MakeEvent DEF SrvPush, Tell
  <2>6. Future(m) /\ ~Future(m)'
    BY <2>3, <2>4 DEF Future
  <2> QED
    BY <1>5, <2>5, <2>6 DEF SrvPush, client, listener
<1>6. CASE SrvPing
  <2>1. PICK k : k = pushed.pings + 1
    OBVIOUS
  <2>2. k \in 1..MaxPings /\ pushed' = [pushed EXCEPT !.pings = k]
    BY <1>0, <1>6, <2>1 DEF SrvPing
  <2>3. PICK m : m = [type |-> "PING", n |-> k]
    OBVIOUS
  <2>4. m \in Event /\ toClient' = Append(toClient, m)
    BY <1>0, <1>6, <2>2, <2>3, MakeEvent DEF SrvPing, Tell
  <2>5. ~Announces(m)
    BY <2>3 DEF Announces
  <2> QED
    BY <1>6, <2>4, <2>5 DEF SrvPing, client, listener
<1>7. CASE SrvWelcome
  <2>1. PICK m : m = [type |-> "OK", n |-> 0]
    OBVIOUS
  <2>2. m \in Event /\ toClient' = Append(toClient, m) /\ ~Announces(m)
    <3>1. 0 \in 0..MaxCommands
      BY <1>0
    <3> QED
      BY <1>7, <2>1, <3>1, MakeEvent DEF SrvWelcome, Tell, Announces
  <2> QED
    BY <1>7, <2>2 DEF SrvWelcome, client, listener
<1>8. CASE SrvRefuse \/ SrvWarn
  <2>1. PICK m : m = [type |-> "ERROR_MSG", n |-> 0]
    OBVIOUS
  <2>2. m \in Event /\ toClient' = Append(toClient, m) /\ heard' = heard
    <3>1. 0 \in 0..MaxCommands
      BY <1>0
    <3> QED
      BY <1>8, <2>1, <3>1, MakeEvent DEF SrvRefuse, SrvWarn, Tell, client, listener
  <2>3. Future(m)
    BY <1>8, <2>1 DEF SrvRefuse, SrvWarn, Future, Unwarned
  <2>4. ~Unwarned' /\ asked' = asked
    BY <1>8 DEF SrvRefuse, SrvWarn, Unwarned, client
  <2>5. ~(0 > asked'.n)
    BY <1>0, <2>4
  <2>6. \A i \in 1..Len(toServer') :
          toServer'[i].cmd \in DOMAIN Answers => toServer'[i].n # 0
    <3>1. Numbered'
      BY TypedStep DEF Typed
    <3>2. 0 \notin 1..asked'.n
      BY <1>0, <2>4
    <3> QED
      BY <3>1, <3>2 DEF Numbered
  <2>7. ~Future(m)'
    BY <2>1, <2>4, <2>5, <2>6 DEF Future
  <2> QED
    BY <2>2, <2>3, <2>7
<1>10. CASE Closing
  BY <1>10, ClosingSteps DEF client, listener
<1>9. CASE SrvAnswer
  <2>1. PICK c : c = Head(toServer)
    OBVIOUS
  <2>2. PICK q : q = Tail(toServer)
    OBVIOUS
  <2>3. /\ c = toServer[1] /\ 1 \in 1..Len(toServer)
        /\ \A i \in 1..Len(q) :
             q[i] = toServer[i + 1] /\ i + 1 \in 1..Len(toServer) /\ i + 1 # 1
    BY <1>0, <1>9, <2>1, <2>2, TailElements DEF SrvAnswer
  <2>4. toServer' = q /\ asked' = asked /\ heard' = heard
    BY <1>9, <2>2 DEF SrvAnswer, client, listener
  <2>5. ASSUME c.cmd \in DOMAIN Answers, NEW type \in Answers[c.cmd], Tell(type, c.n)
        PROVE  Added
    <3>1. c.n \in 1..asked.n /\ c.n \in 0..MaxCommands
      BY <1>0, <2>3, <2>5 DEF Typed, Numbered
    <3>2. type \in {"OK", "ERROR_MSG", "USERS", "LOG"}
      BY <2>5, AnswerTypes
    <3>3. PICK m : m = [type |-> type, n |-> c.n]
      OBVIOUS
    <3>4. m \in Event /\ toClient' = Append(toClient, m) /\ m.n = c.n /\ m.type = type
      BY <2>5, <3>1, <3>2, <3>3, MakeEvent DEF Tell
    <3>5. Announces(m) => Future(m)
      BY <2>3, <2>5, <3>2, <3>4 DEF Announces, Future
    <3>6. ~(m.n > asked.n) /\ m.n # 0
      BY <1>0, <3>1, <3>4
    <3>7. \A i \in 1..Len(q) : q[i].cmd \in DOMAIN Answers => q[i].n # m.n
      BY <2>3, <2>5, <3>4 DEF CommandsDiffer
    <3>8. ~Future(m)'
      BY <2>4, <3>2, <3>4, <3>6, <3>7 DEF Future
    <3> QED
      BY <2>4, <3>4, <3>5, <3>8
  <2>6. CASE toClient' = toClient
    BY <2>4, <2>6
  <2> QED
    BY <1>9, <2>1, <2>5, <2>6 DEF SrvAnswer
<1> QED
  BY <1>1, <1>2, <1>3, <1>4, <1>5, <1>6, <1>7, <1>8, <1>9, <1>10, StepCases

\* Events stay different.
LEMMA FreshStep == Typed /\ Fresh /\ [Next]_vars => Fresh'
<1> SUFFICES ASSUME Typed, Fresh, [Next]_vars PROVE Fresh'
  OBVIOUS
<1>0. toClient \in Seq(Event) /\ CommandsDiffer /\ FramesDiffer /\ NotHeardYet
  BY DEF Typed, TypeOK, Fresh
<1>1. CommandsDiffer'
  BY <1>0, CommandsDifferStep
<1>2. \A e \in Event : Future(e)' => Future(e)
  BY FutureStep
<1>3. CASE UNCHANGED <<toClient, heard>>
  <2>1. FramesDiffer'
    BY <1>0, <1>3 DEF FramesDiffer
  <2>2. \A e \in Event : OnTheWay(e)' <=> OnTheWay(e)
    BY <1>3 DEF OnTheWay
  <2>3. NotHeardYet'
    BY <1>0, <1>2, <1>3, <2>2 DEF NotHeardYet
  <2> QED
    BY <1>1, <2>1, <2>3 DEF Fresh
<1>4. CASE /\ toClient # <<>> /\ toClient' = Tail(toClient)
           /\ heard' = heard \/ heard' = heard \cup {toClient[1]}
  <2>1. PICK q : q = Tail(toClient)
    OBVIOUS
  <2>2. /\ Len(q) \in Nat /\ 1 \in 1..Len(toClient)
        /\ \A i \in 1..Len(q) :
             q[i] = toClient[i + 1] /\ i + 1 \in 1..Len(toClient) /\ i + 1 # 1
    BY <1>0, <1>4, <2>1, TailElements
  <2>3. \A i, j \in 1..Len(q) : i + 1 = j + 1 => i = j
    BY <2>2
  <2>4. \A i, j \in 1..Len(q) : Announces(q[i]) /\ q[i] = q[j] => i = j
    BY <1>0, <2>2, <2>3 DEF FramesDiffer
  <2>5. FramesDiffer'
    BY <1>4, <2>1, <2>4 DEF FramesDiffer
  <2>6. ASSUME NEW e \in Event, Announces(e)
        PROVE  /\ OnTheWay(e)' => OnTheWay(e) /\ e # toClient[1]
               /\ OnTheWay(toClient[1])
    <3>1. ASSUME NEW i \in 1..Len(q), q[i] = e
          PROVE  OnTheWay(e) /\ e # toClient[1]
      BY <1>0, <2>2, <2>6, <3>1 DEF OnTheWay, FramesDiffer
    <3>2. OnTheWay(toClient[1])
      BY <2>2 DEF OnTheWay
    <3>3. OnTheWay(e)' <=> \E i \in 1..Len(q) : q[i] = e
      BY <1>4, <2>1 DEF OnTheWay
    <3> QED
      BY <3>1, <3>2, <3>3
  <2>7. NotHeardYet'
    BY <1>0, <1>2, <1>4, <2>6 DEF NotHeardYet
  <2> QED
    BY <1>1, <2>5, <2>7 DEF Fresh
<1>5. ASSUME NEW m \in Event, toClient' = Append(toClient, m), heard' = heard,
             Announces(m) => Future(m) /\ ~Future(m)'
      PROVE  Fresh'
  <2>1. PICK q : q = Append(toClient, m)
    OBVIOUS
  <2>2. /\ q[Len(toClient) + 1] = m
        /\ \A i \in 1..Len(toClient) : q[i] = toClient[i] /\ i \in 1..Len(q)
        /\ \A i \in 1..Len(q) : i \in 1..Len(toClient) \/ i = Len(toClient) + 1
    BY <1>0, <2>1, AppendElements
  <2>3. Announces(m) => m \notin heard /\ \A i \in 1..Len(toClient) : toClient[i] # m
    BY <1>0, <1>5 DEF NotHeardYet, OnTheWay
  <2>4. \A i, j \in 1..Len(q) : Announces(q[i]) /\ q[i] = q[j] => i = j
    BY <1>0, <2>2, <2>3 DEF FramesDiffer
  <2>5. FramesDiffer'
    BY <1>5, <2>1, <2>4 DEF FramesDiffer
  <2>6. \A e \in Event : OnTheWay(e)' => OnTheWay(e) \/ e = m
    BY <1>5, <2>1, <2>2 DEF OnTheWay
  <2>7. NotHeardYet'
    BY <1>0, <1>2, <1>5, <2>3, <2>6 DEF NotHeardYet
  <2> QED
    BY <1>1, <2>5, <2>7 DEF Fresh
<1> QED
  BY <1>0, <1>3, <1>4, <1>5, FrameCases

-----------------------------------------------------------------------------
(***************************************************************************)
(* An event is announced once                                              *)
(***************************************************************************)
\* An event that was taken is in one place, and any other in none.
InOnePlace ==
  \A e \in Event : Announces(e) =>
    shown[e] + Count(pending, e) + InHand(e) = IF e \in heard THEN 1 ELSE 0

\* The listener runs only after connect has read its answer.
Unstarted == upc \in {"start", "hello"} => lpc = "off"

\* Only connect starts the listener.
LEMMA UnstartedStep == Typed /\ Unstarted /\ [Next]_vars => Unstarted'
<1> SUFFICES ASSUME Typed, Unstarted, [Next]_vars PROVE Unstarted'
  OBVIOUS
<1>1. CASE Quiet
  BY <1>1, QuietSteps DEF Unstarted, Typed
<1>2. CASE Hear \/ EndOfStream \/ Check \/ Queue \/ Show \/ Note
  BY <1>2 DEF Hear, EndOfStream, Check, Queue, Show, Note, LGoto, Unstarted
<1>3. CASE SrvRegister \/ SrvWelcome \/ SrvRefuse \/ SrvAnswer \/ SrvPush \/ SrvPing
             \/ SrvWarn \/ SrvDrop \/ Closing \/ UNCHANGED vars
  BY <1>3
  DEF SrvRegister, SrvWelcome, SrvRefuse, SrvAnswer, SrvPush, SrvPing, SrvWarn, SrvDrop,
      Closing, SrvForget, SrvCut, SrvEnd, client,
      listener, vars, Unstarted
<1>4. CASE Connect \/ Negotiated \/ Leave \/ DisplayPending \/ Compose
             \/ (\E i \in 0..counter : OpenUnread(i)) \/ \E cmd \in Asks : Ask(cmd)
  BY <1>4
  DEF Connect, Negotiated, Leave, DisplayPending, Compose, OpenUnread, Ask, UGoto,
      listener, Unstarted
<1> QED
  BY <1>1, <1>2, <1>3, <1>4, StepCases

\* Each step moves an event from one place to another, if it moves one at all.
LEMMA PlacesStep ==
  ASSUME Typed, Fresh, Unstarted, InOnePlace, [Next]_vars
  PROVE  InOnePlace'
<1>0. /\ pending \in Seq(Event) /\ shown \in [Event -> Nat] /\ toClient \in Seq(Event)
      /\ heard \in SUBSET Event /\ Len(pending) \in Nat
  BY DEF Typed, TypeOK
<1>1. \A e \in Event : shown[e] \in Nat /\ Count(pending, e) \in Nat
  BY <1>0, CountIsNat
<1>2. ASSUME UNCHANGED <<shown, pending, heard>>,
             \A e \in Event : InHand(e)' = InHand(e)
      PROVE  InOnePlace'
  <2>1. \A e \in Event : Count(pending, e)' = Count(pending, e)
    BY <1>2 DEF Count
  <2> QED
    BY <1>2, <2>1 DEF InOnePlace
<1>3. CASE UNCHANGED <<shown, pending, heard, lpc, ev>>
  BY <1>2, <1>3 DEF InHand
<1>4. CASE Quiet
  BY <1>3, <1>4, QuietSteps DEF listener, Typed
<1>5. CASE SrvRegister \/ SrvWelcome \/ SrvRefuse \/ SrvAnswer \/ SrvPush \/ SrvPing
             \/ SrvWarn \/ SrvDrop \/ Closing \/ UNCHANGED vars
  BY <1>3, <1>5
  DEF SrvRegister, SrvWelcome, SrvRefuse, SrvAnswer, SrvPush, SrvPing, SrvWarn, SrvDrop,
      Closing, SrvForget, SrvCut, SrvEnd, client,
      listener, notices, vars
<1>6. CASE Connect \/ Leave \/ Compose
             \/ (\E i \in 0..counter : OpenUnread(i)) \/ \E cmd \in Asks : Ask(cmd)
  BY <1>3, <1>6 DEF Connect, Leave, Compose, OpenUnread, Ask, listener, notices
<1>7. CASE Negotiated \/ EndOfStream \/ Check \/ Note
  <2>1. UNCHANGED <<shown, pending, heard>>
    BY <1>7 DEF Negotiated, EndOfStream, Check, Note, notices
  <2>2. CASE Negotiated
    <3>1. lpc = "off" /\ lpc' \in {"off", "recv"}
      BY <2>2 DEF Negotiated, UGoto, Unstarted
    <3> QED
      BY <1>2, <2>1, <3>1 DEF InHand
  <2>3. CASE EndOfStream \/ Note
    <3>1. lpc \in {"recv", "note"} /\ lpc' \in {"recv", "ended"}
      BY <2>3 DEF EndOfStream, Note, LGoto
    <3> QED
      BY <1>2, <2>1, <3>1 DEF InHand
  <2>4. CASE Check
    <3>1. lpc = "check" /\ lpc' \in {"queue", "show"} /\ ev' = ev
      BY <2>4 DEF Check, LGoto
    <3> QED
      BY <1>2, <2>1, <3>1 DEF InHand
  <2> QED
    BY <1>7, <2>2, <2>3, <2>4
<1>8. CASE DisplayPending
  <2>1. UNCHANGED <<heard, lpc, ev>> /\ pending' = <<>>
    BY <1>8 DEF DisplayPending, listener
  <2>2. ASSUME NEW e \in Event
        PROVE  /\ shown'[e] = shown[e] + Count(pending, e) /\ Count(pending, e)' = 0
               /\ InHand(e)' = InHand(e) /\ InHand(e) \in Nat
    <3>1. shown'[e] = shown[e] + Count(pending, e)
      BY <1>8 DEF DisplayPending, Count
    <3>2. Count(pending', e) = 0
      BY <2>1, CountEmpty
    <3>3. Count(pending, e)' = Count(pending', e)
      BY DEF Count
    <3> QED
      BY <2>1, <3>1, <3>2, <3>3 DEF InHand
  <2>3. ASSUME NEW e \in Event, Announces(e)
        PROVE  shown'[e] + Count(pending, e)' + InHand(e)' = IF e \in heard' THEN 1 ELSE 0
    BY <1>1, <2>1, <2>2, <2>3 DEF InOnePlace
  <2> QED
    BY <2>3 DEF InOnePlace
<1>9. CASE Hear
  <2>1. PICK m : m = Head(toClient)
    OBVIOUS
  <2>2. m \in Event /\ OnTheWay(m)
    BY <1>0, <1>9, <2>1, TailElements DEF Hear, OnTheWay
  <2>3. /\ heard' = heard \cup {m} /\ UNCHANGED <<shown, pending>> /\ lpc = "recv"
        /\ IF m.type = "PING" THEN UNCHANGED <<lpc, ev>> ELSE lpc' = "check" /\ ev' = m
    BY <1>9, <2>1 DEF Hear, notices
  <2>4. Announces(m) => m \notin heard /\ m.type # "PING"
    BY <2>2 DEF Fresh, NotHeardYet, Announces
  <2>5. ASSUME NEW e \in Event, Announces(e)
        PROVE  shown'[e] + Count(pending, e)' + InHand(e)' = IF e \in heard' THEN 1 ELSE 0
    <3>1. shown'[e] = shown[e] /\ Count(pending, e)' = Count(pending, e) /\ InHand(e) = 0
      BY <2>3 DEF Count, InHand
    <3>2. CASE e = m
      <4>1. InHand(e)' = 1 /\ e \notin heard /\ e \in heard'
        BY <2>3, <2>4, <2>5, <3>2 DEF InHand
      <4> QED
        BY <1>1, <2>5, <3>1, <4>1 DEF InOnePlace
    <3>3. CASE e # m
      <4>1. InHand(e)' = 0 /\ (e \in heard' <=> e \in heard)
        BY <2>3, <3>3 DEF InHand
      <4> QED
        BY <1>1, <2>5, <3>1, <4>1 DEF InOnePlace
    <3> QED
      BY <3>2, <3>3
  <2> QED
    BY <2>5 DEF InOnePlace
<1>10. CASE Queue
  <2>1. /\ ev \in Event /\ lpc = "queue" /\ lpc' = "recv" /\ UNCHANGED <<shown, heard>>
        /\ pending' = IF ev.type = "OK" THEN pending ELSE Append(pending, ev)
    BY <1>10 DEF Queue, LGoto, Typed, ListenerTyped
  <2>2. ASSUME NEW e \in Event, Announces(e)
        PROVE  shown'[e] + Count(pending, e)' + InHand(e)' = IF e \in heard' THEN 1 ELSE 0
    <3>1. InHand(e)' = 0 /\ InHand(e) = IF ev = e THEN 1 ELSE 0
      BY <2>1 DEF InHand
    <3>2. Count(pending, e)' = Count(pending', e)
      BY DEF Count
    <3>3. CASE ev.type = "OK"
      BY <2>1, <2>2, <3>1, <3>2, <3>3 DEF InOnePlace, Announces
    <3>4. CASE ev.type # "OK"
      <4>1. PICK x : x = ev
        OBVIOUS
      <4>2. Count(pending', e) = Count(pending, e) + (IF x = e THEN 1 ELSE 0)
        BY <1>0, <2>1, <3>4, <4>1, CountAppend
      <4> QED
        BY <1>1, <2>1, <2>2, <3>1, <3>2, <4>1, <4>2 DEF InOnePlace
    <3> QED
      BY <3>3, <3>4
  <2> QED
    BY <2>2 DEF InOnePlace
<1>11. CASE Show
  <2>1. /\ ev \in Event /\ lpc = "show" /\ lpc' = "note" /\ UNCHANGED <<pending, heard>>
        /\ shown' = [shown EXCEPT ![ev] = @ + 1]
    BY <1>11 DEF Show, LGoto, Typed, ListenerTyped
  <2>2. ASSUME NEW e \in Event, Announces(e)
        PROVE  shown'[e] + Count(pending, e)' + InHand(e)' = IF e \in heard' THEN 1 ELSE 0
    <3>1. InHand(e)' = 0 /\ InHand(e) = IF ev = e THEN 1 ELSE 0
      BY <2>1 DEF InHand
    <3>2. Count(pending, e)' = Count(pending, e)
      BY <2>1 DEF Count
    <3>3. shown'[e] = shown[e] + (IF ev = e THEN 1 ELSE 0)
      BY <1>0, <1>1, <2>1
    <3> QED
      BY <1>1, <2>1, <2>2, <3>1, <3>2, <3>3 DEF InOnePlace
  <2> QED
    BY <2>2 DEF InOnePlace
<1> QED
  BY <1>4, <1>5, <1>6, <1>7, <1>8, <1>9, <1>10, <1>11, StepCases

\* Nothing is sent, heard or shown at first.
LEMMA PlacesInit == Init => Fresh /\ Unstarted /\ InOnePlace
<1> SUFFICES ASSUME Init PROVE Fresh /\ Unstarted /\ InOnePlace
  OBVIOUS
<1>1. Len(toServer) = 0 /\ Len(toClient) = 0 /\ heard = {}
  BY DEF Init
<1>2. Fresh /\ Unstarted
  BY <1>1 DEF Init, Unstarted, Fresh, CommandsDiffer, FramesDiffer, NotHeardYet, OnTheWay
<1>3. \A e \in Event : shown[e] = 0 /\ Count(pending, e) = 0 /\ InHand(e) = 0
  BY CountEmpty DEF Init, InHand
<1> QED
  BY <1>1, <1>2, <1>3 DEF InOnePlace

\* Every event the listener takes, but OK and PING, is announced once: whatever
\* the main thread does with inCommand between the listener's steps, it is on the
\* screen, pending or in the listener's hands, and nowhere twice.
THEOREM EventsAnnouncedOnce == Spec => []AnnouncedOnce
<1>1. Typed /\ InOnePlace => AnnouncedOnce
  BY DEF Typed, TypeOK, InOnePlace, Announces, AnnouncedOnce
<1>2. Typed /\ Fresh /\ Unstarted /\ InOnePlace /\ [Next]_vars => InOnePlace'
  BY PlacesStep
<1> QED
  BY <1>1, <1>2, TypedInit, TypedStep, FreshStep, UnstartedStep, PlacesInit, PTL DEF Spec

-----------------------------------------------------------------------------
(***************************************************************************)
(* The inbox                                                               *)
(***************************************************************************)
\* Two entries of the inbox have neither the index nor the message in common.
Differ(a, b) == a.index # b.index /\ a.n # b.n

Kept ==
  /\ \A i \in 1..Len(unread) : unread[i].index < counter
  /\ \A i \in 1..Len(read) : read[i].index < counter
  /\ \A i, j \in 1..Len(unread) : i # j => Differ(unread[i], unread[j])
  /\ \A i, j \in 1..Len(read) : i # j => Differ(read[i], read[j])
  /\ \A i \in 1..Len(unread), j \in 1..Len(read) : Differ(unread[i], read[j])

\* It holds the messages that were heard.
HoldsHeard ==
  \A k \in 1..MaxMessages :
    [type |-> "MESSAGE", n |-> k] \in heard <=>
      \/ \E i \in 1..Len(unread) : unread[i].n = k
      \/ \E i \in 1..Len(read) : read[i].n = k

\* Entries have numbers.
LEMMA Entries ==
  ASSUME Typed
  PROVE  /\ unread \in Seq(Entry) /\ read \in Seq(Entry) /\ counter \in Nat
         /\ Len(unread) \in Nat /\ Len(read) \in Nat
         /\ \A i \in 1..Len(unread) :
              unread[i] \in Entry /\ unread[i].index \in Nat /\ unread[i].n \in 1..MaxMessages
         /\ \A i \in 1..Len(read) :
              read[i] \in Entry /\ read[i].index \in Nat /\ read[i].n \in 1..MaxMessages
<1>1. /\ unread \in Seq(Entry) /\ read \in Seq(Entry) /\ counter \in Nat
      /\ Len(unread) \in Nat /\ Len(read) \in Nat
  BY DEF Typed, TypeOK
<1>2. ASSUME NEW x \in Entry PROVE x.index \in Nat /\ x.n \in 1..MaxMessages
  BY DEF Entry
<1>3. ASSUME NEW i \in 1..Len(unread) PROVE unread[i] \in Entry
  BY <1>1, ElementOfSeq
<1>4. ASSUME NEW i \in 1..Len(read) PROVE read[i] \in Entry
  BY <1>1, ElementOfSeq
<1> QED
  BY <1>1, <1>2, <1>3, <1>4

\* storeMessage gives a message nobody has an index nobody has.
LEMMA StoreKeeps ==
  ASSUME Typed, Kept, HoldsHeard, NEW k \in 1..MaxMessages,
         [type |-> "MESSAGE", n |-> k] \notin heard,
         heard' = heard \cup {[type |-> "MESSAGE", n |-> k]}, Store(k)
  PROVE  Kept' /\ HoldsHeard'
<1>0. /\ unread \in Seq(Entry) /\ counter \in Nat
      /\ \A i \in 1..Len(unread) : unread[i].index \in Nat
      /\ \A i \in 1..Len(read) : read[i].index \in Nat
  BY Entries
<1>1. PICK x : x = [index |-> counter, n |-> k]
  OBVIOUS
<1>2. PICK q : q = Append(unread, x)
  OBVIOUS
<1>3. x \in Entry /\ x.index = counter /\ x.n = k
  BY <1>0, <1>1 DEF Entry
<1>4. unread' = q /\ read' = read /\ counter' = counter + 1
  BY <1>1, <1>2 DEF Store
<1>5. /\ q[Len(unread) + 1] = x /\ Len(unread) + 1 \in 1..Len(q)
      /\ \A i \in 1..Len(unread) : q[i] = unread[i] /\ i \in 1..Len(q)
      /\ \A i \in 1..Len(q) : i \in 1..Len(unread) \/ i = Len(unread) + 1
  BY <1>0, <1>2, <1>3, AppendElements
<1>6. \A i \in 1..Len(unread) : Differ(unread[i], x) /\ Differ(x, unread[i])
  BY <1>0, <1>3 DEF Kept, HoldsHeard, Differ
<1>7. \A i \in 1..Len(read) : Differ(x, read[i])
  BY <1>0, <1>3 DEF Kept, HoldsHeard, Differ
<1>8. /\ \A i \in 1..Len(q) : q[i].index < counter + 1
      /\ \A i \in 1..Len(read) : read[i].index < counter + 1
  BY <1>0, <1>3, <1>5 DEF Kept
<1>9. \A i, j \in 1..Len(q) : i # j => Differ(q[i], q[j])
  BY <1>5, <1>6 DEF Kept
<1>10. \A i \in 1..Len(q), j \in 1..Len(read) : Differ(q[i], read[j])
  BY <1>5, <1>7 DEF Kept
<1>11. Kept'
  BY <1>4, <1>8, <1>9, <1>10 DEF Kept
<1>12. ASSUME NEW h \in 1..MaxMessages
       PROVE  [type |-> "MESSAGE", n |-> h] \in heard' <=>
                \/ \E i \in 1..Len(q) : q[i].n = h
                \/ \E i \in 1..Len(read) : read[i].n = h
  <2>1. CASE h = k
    BY <1>3, <1>5, <2>1
  <2>2. CASE h # k
    <3>1. [type |-> "MESSAGE", n |-> h] # [type |-> "MESSAGE", n |-> k]
      BY <2>2
    <3>2. (\E i \in 1..Len(q) : q[i].n = h) <=> (\E i \in 1..Len(unread) : unread[i].n = h)
      BY <1>3, <1>5, <2>2
    <3> QED
      BY <3>1, <3>2 DEF HoldsHeard
  <2> QED
    BY <2>1, <2>2
<1>13. HoldsHeard'
  BY <1>4, <1>12 DEF HoldsHeard
<1> QED
  BY <1>11, <1>13

\* Opening a message moves its entry.
LEMMA OpenKeeps ==
  ASSUME Typed, Kept, HoldsHeard, NEW k \in 1..Len(unread), heard' = heard,
         read' = Append(read, unread[k]), unread' = RemoveAt(unread, k), counter' = counter
  PROVE  Kept' /\ HoldsHeard'
<1>0. /\ unread \in Seq(Entry) /\ read \in Seq(Entry) /\ unread[k] \in Entry
      /\ Len(unread) \in Nat /\ k \in Nat
  BY Entries
<1>1. PICK x : x = unread[k]
  OBVIOUS
<1>2. PICK q : q = RemoveAt(unread, k)
  OBVIOUS
<1>3. PICK o : o = Append(read, x)
  OBVIOUS
<1>4. /\ o[Len(read) + 1] = x /\ Len(read) + 1 \in 1..Len(o)
      /\ \A i \in 1..Len(read) : o[i] = read[i] /\ i \in 1..Len(o)
      /\ \A i \in 1..Len(o) : i \in 1..Len(read) \/ i = Len(read) + 1
  BY <1>0, <1>1, <1>3, AppendElements
<1>5. /\ q \in Seq(Entry) /\ Len(q) = Len(unread) - 1
      /\ \A i \in 1..Len(q) : i < k => q[i] = unread[i] /\ i \in 1..Len(unread)
      /\ \A i \in 1..Len(q) : ~(i < k) => q[i] = unread[i + 1] /\ i + 1 \in 1..Len(unread)
      /\ \A j \in 1..Len(unread) : j # k => \E i \in 1..Len(q) : q[i] = unread[j]
  <2>1. PICK s : s = unread
    OBVIOUS
  <2>2. s \in Seq(Entry) /\ k \in 1..Len(s) /\ q = RemoveAt(s, k)
    BY <1>0, <1>2, <2>1
  <2>3. /\ q \in Seq(Entry) /\ Len(q) = Len(s) - 1
        /\ \A i \in 1..Len(q) : i < k => q[i] = s[i] /\ i \in 1..Len(s)
        /\ \A i \in 1..Len(q) : ~(i < k) => q[i] = s[i + 1] /\ i + 1 \in 1..Len(s)
        /\ \A j \in 1..Len(s) : j # k => \E i \in 1..Len(q) : q[i] = s[j]
    <3>1. q \in Seq(Entry) /\ Len(q) = Len(s) - 1
      BY <2>2, RemoveElements
    <3>2. \A i \in 1..Len(q) : i < k => q[i] = s[i] /\ i \in 1..Len(s)
      BY <2>2, RemoveElements
    <3>3. \A i \in 1..Len(q) : ~(i < k) => q[i] = s[i + 1] /\ i + 1 \in 1..Len(s)
      BY <2>2, RemoveElements
    <3>4. \A j \in 1..Len(s) : j # k => \E i \in 1..Len(q) : q[i] = s[j]
      BY <2>2, RemoveLeaves
    <3> QED
      BY <3>1, <3>2, <3>3, <3>4
  <2> QED
    BY <2>1, <2>3
<1> DEFINE From(i) == IF i < k THEN i ELSE i + 1
<1>6. \A i \in 1..Len(q) : From(i) # k /\ \A j \in 1..Len(q) : From(i) = From(j) => i = j
  <2>1. Len(q) \in Nat /\ k \in Nat
    BY <1>0, <1>5
  <2> QED
    BY <2>1
<1>7. \A i \in 1..Len(q) : q[i] = unread[From(i)] /\ From(i) \in 1..Len(unread)
  BY <1>5
<1> HIDE DEF From
<1>8. unread' = q /\ read' = o
  BY <1>1, <1>2, <1>3
<1>9. /\ \A i \in 1..Len(q) : q[i].index < counter
      /\ \A i \in 1..Len(o) : o[i].index < counter
  BY <1>1, <1>4, <1>7 DEF Kept
<1>10. \A i, j \in 1..Len(q) : i # j => Differ(q[i], q[j])
  BY <1>6, <1>7 DEF Kept
<1>11. \A i, j \in 1..Len(o) : i # j => Differ(o[i], o[j])
  BY <1>1, <1>4 DEF Kept, Differ
<1>12. \A i \in 1..Len(q), j \in 1..Len(o) : Differ(q[i], o[j])
  BY <1>1, <1>4, <1>6, <1>7 DEF Kept
<1>13. Kept'
  BY <1>8, <1>9, <1>10, <1>11, <1>12 DEF Kept
<1>14. ASSUME NEW h
       PROVE  (\/ \E i \in 1..Len(q) : q[i].n = h
               \/ \E i \in 1..Len(o) : o[i].n = h)
              <=> (\/ \E i \in 1..Len(unread) : unread[i].n = h
                   \/ \E i \in 1..Len(read) : read[i].n = h)
  <2>1. ASSUME NEW i \in 1..Len(unread), unread[i].n = h
        PROVE  (\E j \in 1..Len(q) : q[j].n = h) \/ (\E j \in 1..Len(o) : o[j].n = h)
    <3>1. CASE i = k
      BY <1>1, <1>4, <2>1, <3>1
    <3>2. CASE i # k
      BY <1>5, <2>1, <3>2
    <3> QED
      BY <3>1, <3>2
  <2> QED
    BY <1>1, <1>4, <1>7, <2>1
<1>15. HoldsHeard'
  BY <1>8, <1>14 DEF HoldsHeard
<1> QED
  BY <1>13, <1>15

\* Every step keeps the inbox in order.
LEMMA InboxStep ==
  ASSUME Typed, Fresh, Kept, HoldsHeard, [Next]_vars
  PROVE  Kept' /\ HoldsHeard'
<1>0. toClient \in Seq(Event)
  BY DEF Typed, TypeOK
<1>1. CASE UNCHANGED <<unread, read, counter, heard>>
  BY <1>1 DEF Kept, HoldsHeard
<1>2. CASE Quiet
  BY <1>1, <1>2, QuietSteps DEF listener, inbox, Typed
<1>3. CASE SrvRegister \/ SrvWelcome \/ SrvRefuse \/ SrvAnswer \/ SrvPush \/ SrvPing
             \/ SrvWarn \/ SrvDrop \/ Closing \/ UNCHANGED vars
  BY <1>1, <1>3
  DEF SrvRegister, SrvWelcome, SrvRefuse, SrvAnswer, SrvPush, SrvPing, SrvWarn, SrvDrop,
      Closing, SrvForget, SrvCut, SrvEnd, client,
      listener, inbox, vars
<1>4. CASE Connect \/ Negotiated \/ Leave \/ Compose \/ DisplayPending \/ EndOfStream
             \/ Check \/ Queue \/ Show \/ Note \/ \E cmd \in Asks : Ask(cmd)
  BY <1>1, <1>4
  DEF Connect, Negotiated, Leave, Compose, DisplayPending, EndOfStream, Check, Queue,
      Show, Note, Ask, listener, inbox
<1>5. ASSUME NEW i \in 0..counter, OpenUnread(i) PROVE Kept' /\ HoldsHeard'
  <2>1. PICK k \in 1..Len(unread) :
          read' = Append(read, unread[k]) /\ unread' = RemoveAt(unread, k)
    BY <1>5 DEF OpenUnread
  <2>2. heard' = heard /\ counter' = counter
    BY <1>5 DEF OpenUnread, listener
  <2> QED
    BY <2>1, <2>2, OpenKeeps
<1>6. CASE Hear
  <2>1. PICK m : m = Head(toClient)
    OBVIOUS
  <2>2. m \in Event /\ OnTheWay(m) /\ heard' = heard \cup {m}
    BY <1>0, <1>6, <2>1, TailElements DEF Hear, OnTheWay
  <2>3. CASE m.type = "MESSAGE"
    <3>1. PICK k : k = m.n
      OBVIOUS
    <3>2. k \in 1..MaxMessages /\ m = [type |-> "MESSAGE", n |-> k]
      BY <2>2, <2>3, <3>1, EventTypes
    <3>3. m \notin heard
      BY <2>2, <2>3 DEF Fresh, NotHeardYet, Announces
    <3>4. Store(k)
      BY <1>6, <2>1, <2>3, <3>1 DEF Hear
    <3> QED
      BY <2>2, <3>2, <3>3, <3>4, StoreKeeps
  <2>4. CASE m.type # "MESSAGE"
    <3>1. UNCHANGED <<unread, read, counter>>
      BY <1>6, <2>1, <2>4 DEF Hear, inbox
    <3>2. \A k \in 1..MaxMessages : m # [type |-> "MESSAGE", n |-> k]
      BY <2>4
    <3>3. \A k \in 1..MaxMessages : [type |-> "MESSAGE", n |-> k] \in heard' <=>
                                     [type |-> "MESSAGE", n |-> k] \in heard
      BY <2>2, <3>2
    <3> QED
      BY <3>1, <3>3 DEF Kept, HoldsHeard
  <2> QED
    BY <2>3, <2>4
<1> QED
  BY <1>2, <1>3, <1>4, <1>5, <1>6, StepCases

\* The inbox as the property has it: unread and read messages in one sequence.
LEMMA InboxMeans ==
  ASSUME Typed, Kept, HoldsHeard
  PROVE  InboxKeepsAll
<1> DEFINE all == unread \o read
<1>0. /\ unread \in Seq(Entry) /\ read \in Seq(Entry)
      /\ Len(unread) \in Nat /\ Len(read) \in Nat
  BY Entries
<1>1. /\ all \in Seq(Entry) /\ Len(all) = Len(unread) + Len(read)
      /\ \A i \in 1..Len(unread) + Len(read) :
           all[i] = IF i <= Len(unread) THEN unread[i] ELSE read[i - Len(unread)]
  BY <1>0, ConcatProperties
<1> HIDE DEF all
<1>2. ASSUME NEW i \in 1..Len(all)
      PROVE  \/ i \in 1..Len(unread) /\ all[i] = unread[i]
             \/ i - Len(unread) \in 1..Len(read) /\ all[i] = read[i - Len(unread)]
  BY <1>0, <1>1
<1>3. ASSUME NEW i \in 1..Len(all), NEW j \in 1..Len(all), i # j
      PROVE  all[i].index # all[j].index /\ all[i].n # all[j].n
  <2>1. i - Len(unread) # j - Len(unread)
    BY <1>0, <1>1, <1>3
  <2> QED
    BY <1>2, <1>3, <2>1 DEF Kept, Differ
<1>4. ASSUME NEW e \in heard, e.type = "MESSAGE"
      PROVE  Cardinality({i \in 1..Len(all) : all[i].n = e.n}) = 1
  <2>1. PICK k \in 1..MaxMessages : k = e.n /\ [type |-> "MESSAGE", n |-> k] \in heard
    BY <1>4, EventTypes DEF Typed, TypeOK
  <2>2. PICK i \in 1..Len(all) : all[i].n = k
    <3>1. CASE \E j \in 1..Len(unread) : unread[j].n = k
      <4>1. PICK j \in 1..Len(unread) : unread[j].n = k
        BY <3>1
      <4>2. j \in 1..Len(all) /\ all[j] = unread[j]
        BY <1>0, <1>1
      <4> QED
        BY <4>1, <4>2
    <3>2. CASE \E j \in 1..Len(read) : read[j].n = k
      <4>1. PICK j \in 1..Len(read) : read[j].n = k
        BY <3>2
      <4>2. /\ Len(unread) + j \in 1..Len(all) /\ ~(Len(unread) + j <= Len(unread))
            /\ (Len(unread) + j) - Len(unread) = j
        BY <1>0, <1>1
      <4>3. all[Len(unread) + j] = read[j]
        BY <1>1, <4>2
      <4> QED
        BY <4>1, <4>2, <4>3
    <3> QED
      BY <2>1, <3>1, <3>2 DEF HoldsHeard
  <2>3. {j \in 1..Len(all) : all[j].n = e.n} = {i}
    BY <1>3, <2>1, <2>2
  <2> QED
    BY <2>3, FS_Singleton
<1>5. \A i, j \in 1..Len(all) : all[i].index = all[j].index => i = j
  BY <1>3
<1> QED
  BY <1>4, <1>5 DEF InboxKeepsAll, all

\* Every message the listener has taken is in the inbox once, unread or read, and
\* no index names two messages, however reading and storing interleave.
THEOREM InboxKeepsEveryMessage == Spec => []InboxKeepsAll
<1>1. Init => Kept /\ HoldsHeard
  <2>1. Init => Len(unread) = 0 /\ Len(read) = 0 /\ heard = {}
    BY DEF Init
  <2> QED
    BY <2>1 DEF Kept, HoldsHeard
<1>2. Typed /\ Fresh /\ Kept /\ HoldsHeard /\ [Next]_vars => Kept' /\ HoldsHeard'
  BY InboxStep
<1>3. Typed /\ Kept /\ HoldsHeard => InboxKeepsAll
  BY InboxMeans
<1> QED
  BY <1>1, <1>2, <1>3, TypedInit, TypedStep, FreshStep, PlacesInit, PTL DEF Spec

\* The entries of the inbox, as the property has them, one by one.
LEMMA InboxRange ==
  ASSUME NEW u \in Seq(Entry), NEW r \in Seq(Entry)
  PROVE  \A x : x \in Range(u \o r) <=>
           (\E i \in 1..Len(u) : u[i] = x) \/ (\E i \in 1..Len(r) : r[i] = x)
<1> DEFINE all == u \o r
<1>0. Len(u) \in Nat /\ Len(r) \in Nat
  OBVIOUS
<1>1. /\ all \in Seq(Entry) /\ Len(all) = Len(u) + Len(r)
      /\ \A i \in 1..Len(u) + Len(r) :
           all[i] = IF i <= Len(u) THEN u[i] ELSE r[i - Len(u)]
  BY ConcatProperties
<1>2. DOMAIN all = 1..Len(all)
  BY <1>1
<1>3. \A x : x \in Range(all) <=> \E i \in 1..Len(all) : all[i] = x
  BY <1>2 DEF Range
<1> HIDE DEF all
<1>4. ASSUME NEW i \in 1..Len(all)
      PROVE  (\E j \in 1..Len(u) : u[j] = all[i]) \/ (\E j \in 1..Len(r) : r[j] = all[i])
  <2>1. CASE i <= Len(u)
    <3>1. i \in 1..Len(u) /\ all[i] = u[i]
      BY <1>0, <1>1, <2>1
    <3> QED
      BY <3>1
  <2>2. CASE ~(i <= Len(u))
    <3>1. i - Len(u) \in 1..Len(r) /\ all[i] = r[i - Len(u)]
      BY <1>0, <1>1, <2>2
    <3> QED
      BY <3>1
  <2> QED
    BY <2>1, <2>2
<1>5. ASSUME NEW j \in 1..Len(u) PROVE \E i \in 1..Len(all) : all[i] = u[j]
  <2>1. j \in 1..Len(all) /\ all[j] = u[j]
    BY <1>0, <1>1
  <2> QED
    BY <2>1
<1>6. ASSUME NEW j \in 1..Len(r) PROVE \E i \in 1..Len(all) : all[i] = r[j]
  <2>1. /\ Len(u) + j \in 1..Len(all) /\ ~(Len(u) + j <= Len(u))
        /\ (Len(u) + j) - Len(u) = j
    BY <1>0, <1>1
  <2>2. all[Len(u) + j] = r[j]
    BY <1>1, <2>1
  <2> QED
    BY <2>1, <2>2
<1>7. ASSUME NEW x, x \in Range(all)
      PROVE  (\E i \in 1..Len(u) : u[i] = x) \/ (\E i \in 1..Len(r) : r[i] = x)
  <2>1. PICK i \in 1..Len(all) : all[i] = x
    BY <1>3, <1>7
  <2> QED
    BY <1>4, <2>1
<1>8. ASSUME NEW x, (\E i \in 1..Len(u) : u[i] = x) \/ (\E i \in 1..Len(r) : r[i] = x)
      PROVE  x \in Range(all)
  <2>1. \E i \in 1..Len(all) : all[i] = x
    BY <1>5, <1>6, <1>8
  <2> QED
    BY <1>3, <2>1
<1> QED
  BY <1>7, <1>8 DEF all

\* The entries of the inbox after a step are those from before, and read ones stay
\* read: the listener appends, and opening moves an entry.
LEMMA EntriesStay ==
  ASSUME Typed, [Next]_vars
  PROVE  /\ \A i \in 1..Len(unread) :
              \/ \E j \in 1..Len(unread') : unread'[j] = unread[i]
              \/ \E j \in 1..Len(read') : read'[j] = unread[i]
         /\ \A i \in 1..Len(read) : \E j \in 1..Len(read') : read'[j] = read[i]
<1> DEFINE Stay ==
      /\ \A i \in 1..Len(unread) :
           \/ \E j \in 1..Len(unread') : unread'[j] = unread[i]
           \/ \E j \in 1..Len(read') : read'[j] = unread[i]
      /\ \A i \in 1..Len(read) : \E j \in 1..Len(read') : read'[j] = read[i]
<1>0. /\ unread \in Seq(Entry) /\ read \in Seq(Entry) /\ counter \in Nat
      /\ toClient \in Seq(Event)
      /\ \A i \in 1..Len(unread) : unread[i] \in Entry
  BY Entries DEF Typed, TypeOK
<1>1. ASSUME unread' = unread, read' = read PROVE Stay
  BY <1>1
<1>2. CASE Quiet
  BY <1>1, <1>2, QuietSteps DEF inbox, Typed
<1>3. CASE SrvRegister \/ SrvWelcome \/ SrvRefuse \/ SrvAnswer \/ SrvPush \/ SrvPing
             \/ SrvWarn \/ SrvDrop \/ Closing \/ UNCHANGED vars
  BY <1>1, <1>3
  DEF SrvRegister, SrvWelcome, SrvRefuse, SrvAnswer, SrvPush, SrvPing, SrvWarn, SrvDrop,
      Closing, SrvForget, SrvCut, SrvEnd, client,
      inbox, vars
<1>4. CASE Connect \/ Negotiated \/ Leave \/ Compose \/ DisplayPending \/ EndOfStream
             \/ Check \/ Queue \/ Show \/ Note \/ \E cmd \in Asks : Ask(cmd)
  BY <1>1, <1>4
  DEF Connect, Negotiated, Leave, Compose, DisplayPending, EndOfStream, Check, Queue,
      Show, Note, Ask, inbox
<1>5. ASSUME NEW m \in 0..counter, OpenUnread(m) PROVE Stay
  <2>1. PICK k \in 1..Len(unread) :
          read' = Append(read, unread[k]) /\ unread' = RemoveAt(unread, k)
    BY <1>5 DEF OpenUnread
  <2>2. PICK o : o = Append(read, unread[k])
    OBVIOUS
  <2>3. PICK x : x = unread[k]
    OBVIOUS
  <2>4. /\ o[Len(read) + 1] = x /\ Len(read) + 1 \in 1..Len(o)
        /\ \A i \in 1..Len(read) : o[i] = read[i] /\ i \in 1..Len(o)
    BY <1>0, <2>2, <2>3, AppendElements
  <2>5. PICK q : q = RemoveAt(unread, k)
    OBVIOUS
  <2>6. \A j \in 1..Len(unread) : j # k => \E i \in 1..Len(q) : q[i] = unread[j]
    BY <1>0, <2>5, RemoveLeaves
  <2> QED
    BY <2>1, <2>2, <2>3, <2>4, <2>5, <2>6
<1>6. CASE Hear
  <2>1. ASSUME NEW n \in 1..MaxMessages, Store(n) PROVE Stay
    <3>1. PICK x : x = [index |-> counter, n |-> n]
      OBVIOUS
    <3>2. PICK q : q = Append(unread, x)
      OBVIOUS
    <3>3. x \in Entry
      BY <1>0, <3>1 DEF Entry
    <3>4. \A i \in 1..Len(unread) : q[i] = unread[i] /\ i \in 1..Len(q)
      BY <1>0, <3>2, <3>3, AppendElements
    <3>5. unread' = q /\ read' = read
      BY <2>1, <3>1, <3>2 DEF Store
    <3> QED
      BY <3>4, <3>5
  <2>2. PICK e : e = Head(toClient)
    OBVIOUS
  <2>3. e \in Event
    BY <1>0, <1>6, <2>2, TailElements DEF Hear
  <2>4. CASE e.type = "MESSAGE"
    BY <1>6, <2>1, <2>2, <2>3, <2>4, EventTypes DEF Hear
  <2>5. CASE e.type # "MESSAGE"
    BY <1>1, <1>6, <2>2, <2>5 DEF Hear, inbox
  <2> QED
    BY <2>4, <2>5
<1> QED
  BY <1>2, <1>3, <1>4, <1>5, <1>6, StepCases

\* An index goes on naming the same message, and a read message stays read, in
\* every step of either thread.
THEOREM IndexesStay == Spec => IndexesLast
<1>1. ASSUME Typed, Typed', [Next]_vars
      PROVE  /\ Range(unread \o read) \subseteq Range(unread' \o read')
             /\ Range(read) \subseteq Range(read')
  <2>1. PICK u, r, v, s : u = unread /\ r = read /\ v = unread' /\ s = read'
    OBVIOUS
  <2>2. u \in Seq(Entry) /\ r \in Seq(Entry) /\ v \in Seq(Entry) /\ s \in Seq(Entry)
    BY <1>1, <2>1 DEF Typed, TypeOK
  <2>3. /\ \A i \in 1..Len(u) :
             (\E j \in 1..Len(v) : v[j] = u[i]) \/ (\E j \in 1..Len(s) : s[j] = u[i])
        /\ \A i \in 1..Len(r) : \E j \in 1..Len(s) : s[j] = r[i]
    BY <1>1, <2>1, EntriesStay
  <2>4. Range(u \o r) \subseteq Range(v \o s)
    <3>1. /\ \A x : x \in Range(u \o r) <=>
               (\E i \in 1..Len(u) : u[i] = x) \/ (\E i \in 1..Len(r) : r[i] = x)
          /\ \A x : x \in Range(v \o s) <=>
               (\E i \in 1..Len(v) : v[i] = x) \/ (\E i \in 1..Len(s) : s[i] = x)
      BY <2>2, InboxRange
    <3> QED
      BY <2>3, <3>1
  <2>5. Range(r) \subseteq Range(s)
    <3>1. DOMAIN r = 1..Len(r) /\ DOMAIN s = 1..Len(s)
      BY <2>2
    <3> QED
      BY <2>3, <3>1 DEF Range
  <2> QED
    BY <2>1, <2>4, <2>5
<1>2. Typed /\ Typed' /\ [Next]_vars =>
        [ /\ Range(unread \o read) \subseteq Range(unread' \o read')
          /\ Range(read) \subseteq Range(read') ]_inbox
  BY <1>1
<1> QED
  BY <1>2, TypedInit, TypedStep, PTL DEF Spec, IndexesLast

-----------------------------------------------------------------------------
(***************************************************************************)
(* The answer to a wait.  What waitForResponse looks for is one thing on   *)
(* its way round: a command sent, an answer sent, an event in the hands of *)
(* the listener, or its type in lastReceivedEvent.                         *)
(***************************************************************************)
Replies == {"USERS", "LOG"}
AskOut == \E i \in 1..Len(toServer) : toServer[i].cmd \in Asks
ReplyOut == \E i \in 1..Len(toClient) : toClient[i].type \in Replies
ReplyInHand == ev.type \in Replies
ReplyNoted == last \in Replies

\* e is a reply to the last command.
Ours(e) == e.n = asked.n /\ e.type = Expected /\ e.type \in Answers[asked.cmd]
ReplyHeard == \E e \in heard : Ours(e) /\ ev # e

OneAtATime ==
  /\ AskOut => ~ReplyOut /\ ~ReplyInHand /\ ~ReplyNoted
  /\ ReplyOut => ~ReplyInHand /\ ~ReplyNoted
  /\ ReplyInHand => ~ReplyNoted

\* It is there only during the wait, and belongs to the last command.
OnlyOurs ==
  /\ upc \notin {"asked", "waiting"} =>
       ~AskOut /\ ~ReplyOut /\ ~ReplyInHand /\ ~ReplyNoted
  /\ \A i \in 1..Len(toServer) : toServer[i].cmd \in Asks => toServer[i] = asked
  /\ \A i \in 1..Len(toClient) : toClient[i].type \in Replies => Ours(toClient[i])
  /\ ReplyInHand => Ours(ev)
  /\ ReplyNoted \/ upc = "answered" => ReplyHeard

Awaited == ~timedOut => OneAtATime /\ OnlyOurs

\* A command that is waited for is one that is answered.
LEMMA ReplyKinds == Asks \subseteq DOMAIN Answers /\ "SEND" \notin Asks
BY AnswerTypes DEF Replies, Asks

\* Nothing starts a wait, moves its answer on or takes it: at most frames that no
\* wait is for are sent, or the answer is dropped on its way.
LEMMA Harmless ==
  ASSUME OneAtATime, OnlyOurs, asked' = asked, heard \subseteq heard',
         ev' = ev \/ ev'.type \notin Replies, last' = last \/ last' \notin Replies,
         upc' = "answered" => upc = "answered",
         upc' \notin {"asked", "waiting"} => upc \notin {"asked", "waiting"},
         \A i \in 1..Len(toServer') : toServer'[i].cmd \in Asks =>
           \E j \in 1..Len(toServer) : toServer[j] = toServer'[i],
         \A i \in 1..Len(toClient') : toClient'[i].type \in Replies =>
           \E j \in 1..Len(toClient) : toClient[j] = toClient'[i]
  PROVE  OneAtATime' /\ OnlyOurs'
<1>1. AskOut' => AskOut
  BY DEF AskOut
<1>2. ReplyOut' => ReplyOut
  BY DEF ReplyOut
<1>3. (ReplyInHand' => ReplyInHand /\ ev' = ev) /\ (ReplyNoted' => ReplyNoted)
  BY DEF ReplyInHand, ReplyNoted
<1>4. \A e : Ours(e)' <=> Ours(e)
  BY DEF Ours, Expected
<1>5. ReplyHeard => ReplyHeard'
  BY <1>4 DEF ReplyHeard, Ours, Expected, Replies
<1>6. OneAtATime'
  BY <1>1, <1>2, <1>3 DEF OneAtATime
<1>7. \A i \in 1..Len(toServer') : toServer'[i].cmd \in Asks => toServer'[i] = asked'
  BY DEF OnlyOurs
<1>8. \A i \in 1..Len(toClient') : toClient'[i].type \in Replies => Ours(toClient'[i])
  BY DEF OnlyOurs
<1>9. \A i \in 1..Len(toClient') : toClient'[i].type \in Replies => Ours(toClient[i])'
  BY <1>8 DEF Ours, Expected
<1>10. ReplyInHand' => Ours(ev)'
  BY <1>3 DEF OnlyOurs, Ours, Expected
<1> QED
  BY <1>1, <1>2, <1>3, <1>5, <1>6, <1>7, <1>9, <1>10 DEF OnlyOurs

\* Taking a command away, or adding one that is not waited for, adds no command
\* that is.
LEMMA FewerCommands ==
  ASSUME Typed, \/ toServer' = toServer
                \/ toServer # <<>> /\ toServer' = Tail(toServer)
                \/ \E c \in Command : toServer' = Append(toServer, c) /\ c.cmd \notin Asks
  PROVE  \A i \in 1..Len(toServer') : toServer'[i].cmd \in Asks =>
           \E j \in 1..Len(toServer) : toServer[j] = toServer'[i]
<1>0. toServer \in Seq(Command)
  BY DEF Typed, TypeOK
<1>1. PICK q : q = toServer'
  OBVIOUS
<1>2. CASE toServer # <<>> /\ q = Tail(toServer)
  <2>1. \A i \in 1..Len(q) : q[i] = toServer[i + 1] /\ i + 1 \in 1..Len(toServer)
    BY <1>0, <1>2, TailElements
  <2> QED
    BY <1>1, <2>1
<1>3. ASSUME NEW c \in Command, q = Append(toServer, c), c.cmd \notin Asks
      PROVE  \A i \in 1..Len(q) : q[i].cmd \in Asks =>
               \E j \in 1..Len(toServer) : toServer[j] = q[i]
  <2>1. /\ q[Len(toServer) + 1] = c /\ \A i \in 1..Len(toServer) : q[i] = toServer[i]
        /\ \A i \in 1..Len(q) : i \in 1..Len(toServer) \/ i = Len(toServer) + 1
    BY <1>0, <1>3, AppendElements
  <2> QED
    BY <1>3, <2>1
<1>4. CASE toServer' = toServer
  BY <1>4
<1> QED
  BY <1>1, <1>2, <1>3, <1>4

\* The same for the frames on their way to the client.
LEMMA FewerReplies ==
  ASSUME Typed, \/ toClient' = toClient
                \/ toClient # <<>> /\ toClient' = Tail(toClient)
                \/ \E m \in Event : toClient' = Append(toClient, m) /\ m.type \notin Replies
  PROVE  \A i \in 1..Len(toClient') : toClient'[i].type \in Replies =>
           \E j \in 1..Len(toClient) : toClient[j] = toClient'[i]
<1>0. toClient \in Seq(Event)
  BY DEF Typed, TypeOK
<1>1. PICK q : q = toClient'
  OBVIOUS
<1>2. CASE toClient # <<>> /\ q = Tail(toClient)
  <2>1. \A i \in 1..Len(q) : q[i] = toClient[i + 1] /\ i + 1 \in 1..Len(toClient)
    BY <1>0, <1>2, TailElements
  <2> QED
    BY <1>1, <2>1
<1>3. ASSUME NEW m \in Event, q = Append(toClient, m), m.type \notin Replies
      PROVE  \A i \in 1..Len(q) : q[i].type \in Replies =>
               \E j \in 1..Len(toClient) : toClient[j] = q[i]
  <2>1. /\ q[Len(toClient) + 1] = m /\ \A i \in 1..Len(toClient) : q[i] = toClient[i]
        /\ \A i \in 1..Len(q) : i \in 1..Len(toClient) \/ i = Len(toClient) + 1
    BY <1>0, <1>3, AppendElements
  <2> QED
    BY <1>3, <2>1
<1>4. CASE toClient' = toClient
  BY <1>4
<1> QED
  BY <1>1, <1>2, <1>3, <1>4

\* No command that is waited for is on its way twice, and no reply is.
LEMMA OneReply ==
  ASSUME Typed, Fresh, OnlyOurs
  PROVE  /\ \A i, j \in 1..Len(toServer) :
              toServer[i].cmd \in Asks /\ toServer[j].cmd \in Asks => i = j
         /\ \A i, j \in 1..Len(toClient) :
              toClient[i].type \in Replies /\ toClient[j].type \in Replies => i = j
<1>1. ASSUME NEW i \in 1..Len(toServer), NEW j \in 1..Len(toServer),
             toServer[i].cmd \in Asks, toServer[j].cmd \in Asks
      PROVE  i = j
  <2>1. toServer[i] = asked /\ toServer[j] = asked
    BY <1>1 DEF OnlyOurs
  <2> QED
    BY <1>1, <2>1, ReplyKinds DEF Fresh, CommandsDiffer
<1>2. ASSUME NEW i \in 1..Len(toClient), NEW j \in 1..Len(toClient),
             toClient[i].type \in Replies, toClient[j].type \in Replies
      PROVE  i = j
  <2>0. toClient[i] \in Event /\ toClient[j] \in Event
    BY ElementOfSeq DEF Typed, TypeOK
  <2>1. Ours(toClient[i]) /\ Ours(toClient[j])
    BY <1>2 DEF OnlyOurs
  <2>2. toClient[i].n = toClient[j].n
    BY <2>1 DEF Ours
  <2>3. toClient[i].type = toClient[j].type
    BY <2>1 DEF Ours
  <2>4. toClient[i] = toClient[j]
    BY <2>0, <2>2, <2>3, EventTypes
  <2>5. Announces(toClient[i])
    BY <1>2 DEF Announces, Replies
  <2> QED
    BY <2>4, <2>5 DEF Fresh, FramesDiffer
<1> QED
  BY <1>1, <1>2

\* The steps of the main thread that neither send nor listen.
LEMMA QuietWaits ==
  ASSUME Typed, OneAtATime, OnlyOurs, Quiet, ~timedOut'
  PROVE  OneAtATime' /\ OnlyOurs'
<1>1. UNCHANGED <<toServer, toClient, asked, ev, heard>> /\ (last' = last \/ last' = "NONE")
  BY QuietSteps DEF Typed, server, listener
<1>2. CASE PollHit
  <2>1. ReplyNoted /\ last' = "NONE" /\ upc' = "answered"
    BY <1>2 DEF PollHit, UGoto, Expected, ReplyNoted, Replies
  <2>2. ~AskOut /\ ~ReplyOut /\ ~ReplyInHand /\ ReplyHeard
    BY <2>1 DEF OneAtATime, OnlyOurs
  <2>3. ~AskOut' /\ ~ReplyOut' /\ ~ReplyInHand' /\ ~ReplyNoted'
    BY <1>1, <2>1, <2>2 DEF AskOut, ReplyOut, ReplyInHand, ReplyNoted, Replies
  <2>4. ReplyHeard'
    BY <1>1, <2>2 DEF ReplyHeard, Ours, Expected
  <2> QED
    BY <2>3, <2>4 DEF OneAtATime, OnlyOurs, AskOut, ReplyOut
<1>3. CASE ~PollHit
  <2>1. /\ upc' # "answered"
        /\ upc' \notin {"asked", "waiting"} => upc \notin {"asked", "waiting"}
    BY <1>3
    DEF Quiet, ConnectFails, NoAnswer, Menu, Accept, TimeOut, Resume, BadChoice, Joined,
        Choose, UGoto
  <2>2. "NONE" \notin Replies
    BY DEF Replies
  <2> QED
    BY <1>1, <2>1, <2>2, Harmless
<1> QED
  BY <1>2, <1>3

\* The server answers: a reply takes the place of its command.
LEMMA AnswerWaits ==
  ASSUME Typed, Fresh, OneAtATime, OnlyOurs, SrvAnswer
  PROVE  OneAtATime' /\ OnlyOurs'
<1>0. toServer \in Seq(Command) /\ toClient \in Seq(Event)
  BY DEF Typed, TypeOK
<1>1. PICK c : c = Head(toServer)
  OBVIOUS
<1>2. PICK q : q = Tail(toServer)
  OBVIOUS
<1>3. /\ c = toServer[1] /\ 1 \in 1..Len(toServer)
      /\ \A i \in 1..Len(q) :
           q[i] = toServer[i + 1] /\ i + 1 \in 1..Len(toServer) /\ i + 1 # 1
  BY <1>0, <1>1, <1>2, TailElements DEF SrvAnswer
<1>4. /\ UNCHANGED <<asked, heard, ev, last, upc>>
      /\ toServer # <<>> /\ toServer' = Tail(toServer) /\ toServer' = q
  BY <1>2 DEF SrvAnswer, client, listener, notices
<1>5. ASSUME toClient' = toClient \/
               \E m \in Event : toClient' = Append(toClient, m) /\ m.type \notin Replies
      PROVE  OneAtATime' /\ OnlyOurs'
  <2>1. \A i \in 1..Len(toServer') : toServer'[i].cmd \in Asks =>
          \E j \in 1..Len(toServer) : toServer[j] = toServer'[i]
    BY <1>4, FewerCommands
  <2>2. \A i \in 1..Len(toClient') : toClient'[i].type \in Replies =>
          \E j \in 1..Len(toClient) : toClient[j] = toClient'[i]
    BY <1>5, FewerReplies
  <2> QED
    BY <1>4, <2>1, <2>2, Harmless
<1>6. ASSUME c.cmd \in DOMAIN Answers, NEW type \in Answers[c.cmd], Tell(type, c.n)
      PROVE  OneAtATime' /\ OnlyOurs'
  <2>1. PICK m : m = [type |-> type, n |-> c.n]
    OBVIOUS
  <2>2. toClient' = Append(toClient, m) /\ m.type = type /\ m.n = c.n
    BY <1>6, <2>1 DEF Tell
  <2>3. m \in Event
    <3>1. c.n \in 0..MaxCommands
      BY <1>3, <1>6, ClientAssumption DEF Typed, TypeOK, Command, Numbered
    <3>2. type \in {"OK", "ERROR_MSG", "USERS", "LOG"}
      BY <1>6, AnswerTypes
    <3> QED
      BY <2>1, <3>1, <3>2, MakeEvent
  <2>4. CASE type \notin Replies
    BY <1>5, <2>2, <2>3, <2>4
  <2>5. CASE type \in Replies
    <3>1. c.cmd \in Asks
      BY <1>6, <2>5, AnswerTypes DEF Asks, Replies
    <3>2. c = asked /\ AskOut
      BY <1>3, <3>1 DEF OnlyOurs, AskOut
    <3>3. ~ReplyOut /\ ~ReplyInHand /\ ~ReplyNoted /\ upc \in {"asked", "waiting"}
      BY <3>2 DEF OneAtATime, OnlyOurs
    <3>4. \A i \in 1..Len(q) : q[i].cmd \notin Asks
      BY <1>3, <3>1, OneReply
    <3>5. ~AskOut'
      BY <1>4, <3>4 DEF AskOut
    <3>6. ~ReplyInHand' /\ ~ReplyNoted'
      BY <1>4, <3>3 DEF ReplyInHand, ReplyNoted
    <3>7. OneAtATime'
      BY <3>5, <3>6 DEF OneAtATime
    <3>8. PICK t : t = Append(toClient, m)
      OBVIOUS
    <3>9. /\ t[Len(toClient) + 1] = m /\ \A i \in 1..Len(toClient) : t[i] = toClient[i]
          /\ \A i \in 1..Len(t) : i \in 1..Len(toClient) \/ i = Len(toClient) + 1
      BY <1>0, <2>3, <3>8, AppendElements
    <3>10. \A i \in 1..Len(t) : t[i].type \in Replies => t[i] = m
      BY <3>3, <3>9 DEF ReplyOut
    <3>11. Ours(m)'
      BY <1>4, <1>6, <2>2, <2>5, <3>1, <3>2, AnswerTypes DEF Ours, Expected, Asks, Replies
    <3>12. \A i \in 1..Len(t) : t[i].type \in Replies => Ours(t[i])'
      BY <3>10, <3>11
    <3>13. \A i \in 1..Len(toClient') : toClient'[i].type \in Replies => Ours(toClient[i])'
      BY <2>2, <3>8, <3>12
    <3>14. \A i \in 1..Len(toServer') : toServer'[i].cmd \in Asks => toServer'[i] = asked'
      BY <1>4, <3>4
    <3> QED
      BY <1>4, <3>3, <3>6, <3>7, <3>13, <3>14 DEF OnlyOurs
  <2> QED
    BY <2>4, <2>5
<1>7. CASE toClient' = toClient
  BY <1>5, <1>7
<1> QED
  BY <1>1, <1>6, <1>7 DEF SrvAnswer

\* A command is sent when nothing is waited for; only LIST_USERS and GET_LOG start
\* a wait.
LEMMA SendWaits ==
  ASSUME Typed, OneAtATime, OnlyOurs, upc \in {"sending", "opened"},
         NEW cmd \in DOMAIN Answers,
         SendCommand(cmd), UNCHANGED <<heard, ev, last>>,
         upc' = IF cmd \in Asks THEN "asked" ELSE "pause"
  PROVE  OneAtATime' /\ OnlyOurs'
<1>0. toServer \in Seq(Command)
  BY DEF Typed, TypeOK
<1>1. ~AskOut /\ ~ReplyOut /\ ~ReplyInHand /\ ~ReplyNoted
  BY DEF OnlyOurs
<1>2. PICK c : c = asked'
  OBVIOUS
<1>3. c \in Command /\ c.cmd = cmd /\ toServer' = Append(toServer, c) /\ toClient' = toClient
  BY <1>2, TypedCommand
<1>4. PICK q : q = Append(toServer, c)
  OBVIOUS
<1>5. /\ q[Len(toServer) + 1] = c /\ \A i \in 1..Len(toServer) : q[i] = toServer[i]
      /\ \A i \in 1..Len(q) : i \in 1..Len(toServer) \/ i = Len(toServer) + 1
  BY <1>0, <1>3, <1>4, AppendElements
<1>6. \A i \in 1..Len(q) : q[i].cmd \in Asks => q[i] = c /\ cmd \in Asks
  BY <1>1, <1>3, <1>5 DEF AskOut
<1>7. ~ReplyOut' /\ ~ReplyInHand' /\ ~ReplyNoted'
  BY <1>1, <1>3 DEF ReplyOut, ReplyInHand, ReplyNoted
<1>8. AskOut' => cmd \in Asks
  BY <1>3, <1>4, <1>6 DEF AskOut
<1>9. \A i \in 1..Len(toServer') : toServer'[i].cmd \in Asks => toServer'[i] = asked'
  BY <1>2, <1>3, <1>4, <1>6
<1>10. \A i \in 1..Len(toClient') : toClient'[i].type \notin Replies
  BY <1>7 DEF ReplyOut
<1>11. OneAtATime'
  BY <1>7 DEF OneAtATime
<1> QED
  BY <1>7, <1>8, <1>9, <1>10, <1>11 DEF OnlyOurs

\* The listener takes a frame: the reply is now in its hands.
LEMMA HearWaits ==
  ASSUME Typed, Fresh, OneAtATime, OnlyOurs, Hear
  PROVE  OneAtATime' /\ OnlyOurs'
<1>0. toClient \in Seq(Event)
  BY DEF Typed, TypeOK
<1>1. PICK e : e = Head(toClient)
  OBVIOUS
<1>2. PICK q : q = Tail(toClient)
  OBVIOUS
<1>3. /\ e = toClient[1] /\ 1 \in 1..Len(toClient) /\ e \in Event
      /\ \A i \in 1..Len(q) :
           q[i] = toClient[i + 1] /\ i + 1 \in 1..Len(toClient) /\ i + 1 # 1
  BY <1>0, <1>1, <1>2, TailElements DEF Hear
<1>4. /\ UNCHANGED <<asked, last, upc>> /\ heard \subseteq heard'
      /\ toClient # <<>> /\ toClient' = Tail(toClient) /\ toClient' = q
      /\ e.type = "PING" => ev' = ev
      /\ e.type # "PING" => ev' = e /\ toServer' = toServer
  BY <1>1, <1>2 DEF Hear, notices
<1>5. CASE e.type \notin Replies
  <2>1. \/ UNCHANGED <<toServer, asked>>
        \/ \E c \in Command : /\ toServer' = Append(toServer, c) /\ asked' = asked
                              /\ c.cmd \notin Asks
    <3>1. CASE e.type # "PING"
      BY <1>4, <3>1
    <3>2. CASE e.type = "PING"
      <4>1. PICK c : c = [cmd |-> "PONG", n |-> e.n]
        OBVIOUS
      <4>2. toServer' = Append(toServer, c)
        BY <1>1, <3>2, <4>1 DEF Hear, Submit
      <4>3. e.n \in 0..(MaxCommands + MaxPings)
        BY <1>3, <3>2, EventTypes, ClientAssumption
      <4>4. c \in Command /\ c.cmd \notin Asks
        BY <4>1, <4>3 DEF Command, Asks
      <4> QED
        BY <1>4, <4>2, <4>4
    <3> QED
      BY <3>1, <3>2
  <2>2. \A i \in 1..Len(toServer') : toServer'[i].cmd \in Asks =>
          \E j \in 1..Len(toServer) : toServer[j] = toServer'[i]
    BY <2>1, FewerCommands
  <2>3. \A i \in 1..Len(toClient') : toClient'[i].type \in Replies =>
          \E j \in 1..Len(toClient) : toClient[j] = toClient'[i]
    BY <1>4, FewerReplies
  <2> QED
    BY <1>4, <1>5, <2>2, <2>3, Harmless
<1>6. CASE e.type \in Replies
  <2>1. ReplyOut /\ Ours(e)
    BY <1>3, <1>6 DEF ReplyOut, OnlyOurs
  <2>2. ~AskOut /\ ~ReplyNoted /\ upc \in {"asked", "waiting"}
    BY <2>1 DEF OneAtATime, OnlyOurs
  <2>3. ev' = e /\ toServer' = toServer
    BY <1>4, <1>6 DEF Replies
  <2>4. \A i \in 1..Len(q) : q[i].type \notin Replies
    BY <1>3, <1>6, OneReply
  <2>5. ~AskOut' /\ ~ReplyOut' /\ ~ReplyNoted'
    BY <1>4, <2>2, <2>3, <2>4 DEF AskOut, ReplyOut, ReplyNoted
  <2>6. Ours(ev)'
    BY <1>4, <2>1, <2>3 DEF Ours, Expected
  <2>7. OneAtATime'
    BY <2>5 DEF OneAtATime
  <2>8. \A i \in 1..Len(toServer') : toServer'[i].cmd \notin Asks
    BY <2>2, <2>3 DEF AskOut
  <2>9. \A i \in 1..Len(toClient') : toClient'[i].type \notin Replies
    BY <1>4, <2>4
  <2> QED
    BY <1>4, <2>2, <2>5, <2>6, <2>7, <2>8, <2>9 DEF OnlyOurs
<1> QED
  BY <1>5, <1>6

\* The listener records the type of the reply.
LEMMA NoteWaits ==
  ASSUME Typed, OneAtATime, OnlyOurs, Note
  PROVE  OneAtATime' /\ OnlyOurs'
<1>1. /\ UNCHANGED <<toServer, toClient, asked, heard, upc>>
      /\ last' = ev.type /\ ev' = None /\ ev \in heard
  BY DEF Note, server, Typed, ListenerTyped, LGoto
<1>2. None.type \notin Replies
  BY DEF None, Replies
<1>3. CASE ev.type \notin Replies
  BY <1>1, <1>2, <1>3, Harmless
<1>4. CASE ev.type \in Replies
  <2>1. ~AskOut /\ ~ReplyOut /\ Ours(ev) /\ upc \in {"asked", "waiting"}
    BY <1>4 DEF OneAtATime, OnlyOurs, ReplyInHand
  <2>2. ~AskOut' /\ ~ReplyOut' /\ ~ReplyInHand'
    BY <1>1, <1>2, <2>1 DEF AskOut, ReplyOut, ReplyInHand
  <2>3. PICK e \in heard : e = ev
    BY <1>1
  <2>4. Ours(e)' /\ ev' # e
    BY <1>1, <1>2, <1>4, <2>1, <2>3 DEF Ours, Expected
  <2>5. ReplyHeard'
    BY <1>1, <2>3, <2>4 DEF ReplyHeard
  <2> QED
    BY <1>1, <2>1, <2>2, <2>5 DEF OneAtATime, OnlyOurs, AskOut, ReplyOut
<1> QED
  BY <1>3, <1>4

\* Every step keeps what is awaited in one place, until a wait times out.
LEMMA AwaitedStep == Typed /\ Fresh /\ Awaited /\ [Next]_vars => Awaited'
<1> SUFFICES ASSUME Typed, Fresh, Awaited, [Next]_vars, ~timedOut'
             PROVE  OneAtATime' /\ OnlyOurs'
  BY DEF Awaited
<1>0. ~timedOut
  <2>1. CASE SrvRegister \/ SrvWelcome \/ SrvRefuse \/ SrvAnswer \/ SrvPush \/ SrvPing
               \/ SrvWarn \/ SrvDrop \/ Closing \/ UNCHANGED vars
    BY <2>1
    DEF SrvRegister, SrvWelcome, SrvRefuse, SrvAnswer, SrvPush, SrvPing, SrvWarn, SrvDrop,
      Closing, SrvForget, SrvCut, SrvEnd, client,
        vars
  <2>2. CASE Connect \/ Negotiated \/ Compose \/ (\E i \in 0..counter : OpenUnread(i))
               \/ (\E cmd \in Asks : Ask(cmd)) \/ DisplayPending \/ Leave
    BY <2>2 DEF Connect, Negotiated, Compose, OpenUnread, Ask, DisplayPending, Leave, UGoto
  <2>3. CASE Hear \/ EndOfStream \/ Check \/ Queue \/ Show \/ Note
    BY <2>3 DEF Hear, EndOfStream, Check, Queue, Show, Note
  <2>4. CASE Quiet
    BY <2>4
    DEF Quiet, ConnectFails, NoAnswer, Menu, Accept, PollHit, TimeOut, Resume, BadChoice,
        Joined, Choose, UGoto
  <2> QED
    BY <2>1, <2>2, <2>3, <2>4, StepCases
<1>1. OneAtATime /\ OnlyOurs
  BY <1>0 DEF Awaited
<1>2. {MaxMessages, MaxPings, MaxCommands} \subseteq Nat /\ 0 \in 0..MaxCommands
  BY ClientAssumption
<1>3. ASSUME UNCHANGED <<asked, heard, last>>, ev' = ev \/ ev' = None,
             upc' = "answered" => upc = "answered",
             upc' \notin {"asked", "waiting"} => upc \notin {"asked", "waiting"},
             \/ toServer' = toServer
             \/ toServer # <<>> /\ toServer' = Tail(toServer)
             \/ \E c \in Command : toServer' = Append(toServer, c) /\ c.cmd \notin Asks,
             \/ toClient' = toClient
             \/ toClient # <<>> /\ toClient' = Tail(toClient)
             \/ \E m \in Event : toClient' = Append(toClient, m) /\ m.type \notin Replies
      PROVE  OneAtATime' /\ OnlyOurs'
  <2>1. \A i \in 1..Len(toServer') : toServer'[i].cmd \in Asks =>
          \E j \in 1..Len(toServer) : toServer[j] = toServer'[i]
    BY <1>3, FewerCommands
  <2>2. \A i \in 1..Len(toClient') : toClient'[i].type \in Replies =>
          \E j \in 1..Len(toClient) : toClient[j] = toClient'[i]
    BY <1>3, FewerReplies
  <2>3. None.type \notin Replies
    BY DEF None, Replies
  <2> QED
    BY <1>1, <1>3, <2>1, <2>2, <2>3, Harmless
<1>4. ASSUME NEW type \in {"MESSAGE", "PING", "OK", "ERROR_MSG"}, NEW n, Tell(type, n),
             Typed'
      PROVE  \E m \in Event : toClient' = Append(toClient, m) /\ m.type \notin Replies
  <2>1. PICK m : m = [type |-> type, n |-> n]
    OBVIOUS
  <2>2. toClient' = Append(toClient, m) /\ m.type \notin Replies
    BY <1>4, <2>1 DEF Tell, Replies
  <2>3. PICK q : q = toClient'
    OBVIOUS
  <2>4. q \in Seq(Event) /\ q = Append(toClient, m) /\ toClient \in Seq(Event)
    BY <1>4, <2>2, <2>3 DEF Typed, TypeOK
  <2>5. Len(toClient) + 1 \in 1..Len(q) /\ q[Len(toClient) + 1] = m
    BY <2>4
  <2>6. m \in Event
    BY <2>4, <2>5, ElementOfSeq
  <2> QED
    BY <2>2, <2>6
<1>5. Typed'
  BY TypedStep
<1>6. CASE SrvWelcome \/ SrvPush \/ SrvPing \/ SrvWarn \/ Closing
  <2>1. \/ toClient' = toClient
        \/ \E m \in Event : toClient' = Append(toClient, m) /\ m.type \notin Replies
    BY <1>4, <1>5, <1>6, ClosingSteps DEF SrvWelcome, SrvPush, SrvPing, SrvWarn
  <2>2. UNCHANGED <<asked, heard, last, ev, upc, toServer>>
    BY <1>6, ClosingSteps
    DEF SrvWelcome, SrvPush, SrvPing, SrvWarn, client, listener, notices
  <2> QED
    BY <1>3, <2>1, <2>2
<1>7. CASE SrvRegister \/ SrvRefuse \/ SrvDrop
  <2>1. \/ toClient' = toClient
        \/ \E m \in Event : toClient' = Append(toClient, m) /\ m.type \notin Replies
    BY <1>4, <1>5, <1>7 DEF SrvRegister, SrvRefuse, SrvDrop
  <2>2. /\ UNCHANGED <<asked, heard, last, ev, upc>>
        /\ toServer # <<>> /\ toServer' = Tail(toServer)
    BY <1>7 DEF SrvRegister, SrvRefuse, SrvDrop, client, listener, notices
  <2> QED
    BY <1>3, <2>1, <2>2
<1>8. ASSUME NEW cmd \in {"CONNECT", "DISCONNECT"}, Submit(cmd, 0)
      PROVE  \E c \in Command : toServer' = Append(toServer, c) /\ c.cmd \notin Asks
  <2>1. PICK c : c = [cmd |-> cmd, n |-> 0]
    OBVIOUS
  <2>2. c \in Command /\ c.cmd \notin Asks /\ toServer' = Append(toServer, c)
    BY <1>2, <1>8, <2>1 DEF Command, Asks, Submit
  <2> QED
    BY <2>2
<1>9. CASE Connect \/ Leave
  <2>1. \E c \in Command : toServer' = Append(toServer, c) /\ c.cmd \notin Asks
    BY <1>8, <1>9 DEF Connect, Leave
  <2>2. /\ UNCHANGED <<asked, heard, last, ev, toClient>>
        /\ upc \notin {"asked", "waiting"} /\ upc' # "answered"
    BY <1>9 DEF Connect, Leave, UGoto, listener, notices
  <2> QED
    BY <1>3, <2>1, <2>2
<1>10. CASE Negotiated \/ DisplayPending \/ EndOfStream \/ Check \/ Queue \/ Show
              \/ UNCHANGED vars
  <2>1. /\ UNCHANGED <<asked, heard, last, toServer>> /\ (ev' = ev \/ ev' = None)
        /\ toClient' = toClient \/ (toClient # <<>> /\ toClient' = Tail(toClient))
    BY <1>10
    DEF Negotiated, DisplayPending, EndOfStream, Check, Queue, Show, server, listener,
        notices, vars
  <2>2. /\ upc' = "answered" => upc = "answered"
        /\ upc' \notin {"asked", "waiting"} => upc \notin {"asked", "waiting"}
    BY <1>10
    DEF Negotiated, DisplayPending, EndOfStream, Check, Queue, Show, UGoto, vars
  <2> QED
    BY <1>3, <2>1, <2>2
<1>13. CASE \E i \in 0..counter : OpenUnread(i)
  <2>1. /\ UNCHANGED <<asked, server, heard, ev, last>>
        /\ upc = "sending" /\ upc' = "opened"
    BY <1>13 DEF OpenUnread, UGoto, listener, notices
  <2> QED
    BY <1>3, <2>1 DEF server
<1>11. CASE Compose
  <2>1. /\ SendCommand("SEND") \/ UNCHANGED <<asked, server>>
        /\ UNCHANGED <<heard, ev, last>> /\ upc \in {"sending", "opened"} /\ upc' = "pause"
    BY <1>11 DEF Compose, UGoto, listener, notices
  <2>2. CASE SendCommand("SEND")
    <3>1. "SEND" \in DOMAIN Answers /\ "SEND" \notin Asks
      BY AnswerTypes, ReplyKinds
    <3> QED
      BY <1>1, <2>1, <2>2, <3>1, SendWaits
  <2>3. CASE UNCHANGED <<asked, server>>
    BY <1>3, <2>1, <2>3 DEF server
  <2> QED
    BY <2>1, <2>2, <2>3
<1>12. ASSUME NEW cmd \in Asks, Ask(cmd) PROVE OneAtATime' /\ OnlyOurs'
  <2>1. /\ SendCommand(cmd) /\ UNCHANGED <<heard, ev, last>>
        /\ upc = "sending" /\ upc' = "asked"
    BY <1>12 DEF Ask, UGoto, listener, notices
  <2> QED
    BY <1>1, <2>1, ReplyKinds, SendWaits
<1> QED
  BY <1>1, <1>6, <1>7, <1>9, <1>10, <1>11, <1>12, <1>13, StepCases, QuietWaits, AnswerWaits,
     HearWaits, NoteWaits

\* As long as no wait has timed out, a wait that ends with an event ends with the
\* answer to its own command, although waitForResponse compares types only: a
\* reply is under way only during the wait for it, so none can be left over.
THEOREM WaitsEndWithTheirAnswer == Spec => []AnswerIsOurs
<1>1. Init => Awaited
  <2>1. Init => Len(toServer) = 0 /\ Len(toClient) = 0 /\ ev.type = "NONE"
                  /\ last = "NONE" /\ upc = "start"
    BY DEF Init, None
  <2> QED
    BY <2>1
    DEF Awaited, OneAtATime, OnlyOurs, AskOut, ReplyOut, ReplyInHand, ReplyNoted, Replies
<1>2. Awaited => AnswerIsOurs
  BY DEF Awaited, OnlyOurs, ReplyHeard, Ours, AnswerIsOurs, Answered
<1> QED
  BY <1>1, <1>2, TypedInit, TypedStep, PlacesInit, FreshStep, AwaitedStep, PTL DEF Spec

=============================================================================
