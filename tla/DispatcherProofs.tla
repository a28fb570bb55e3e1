-------------------------- MODULE DispatcherProofs --------------------------
(***************************************************************************)
(* What is proved of Dispatcher for any users, connections, queue length   *)
(* and number of frames: the types, that messages of one connection to one *)
(* recipient are settled in order, that a message whose sender was told OK *)
(* is kept, and that queue and thread implement Delivery.                  *)
(***************************************************************************)
EXTENDS Dispatcher, SequenceTheorems, TLAPS

-----------------------------------------------------------------------------
(***************************************************************************)
(* Types: a thread has to hold what its next statement uses                *)
(***************************************************************************)
\* A worker in handleSendMessage has the frame it read last ...
RequestTyped ==
  \A l \in Links : wpc[l] # "idle" =>
    req[l] \in Frame /\ req[l].via = l /\ req[l].n = sends[l]

\* ... and, once it has looked it up, the name of its sender ...
SenderTyped ==
  \A l \in Links : wpc[l] \in {"load", "store", "route", "queue", "spread"} =>
    from[l] \in Users

\* ... and where a single message goes is the name of a user.
RecipientTyped == \A l \in Links : wpc[l] = "queue" => req[l].to \in Users

\* The dispatcher thread has a message exactly while it is busy with one.
CurrentTyped == (cur # NoMsg) <=> (dpc \in {"look", "send", "lookBack", "bounce"})

Typed == TypeOK /\ RequestTyped /\ SenderTyped /\ RecipientTyped /\ CurrentTyped

-----------------------------------------------------------------------------
\* Before the first frame every variable has its type.
LEMMA TypedInit == Init => Typed
<1> SUFFICES ASSUME Init PROVE Typed
  OBVIOUS
<1>1. /\ messages \in Seq(Message)
      /\ settled \in Seq([msg : Message, how : Outcomes])
  BY DEF Init
<1>2. sends \in [Links -> 0..MaxSends]
  BY DispatcherAssumption DEF Init
<1>3. TypeOK
  BY <1>1, <1>2 DEF Init, TypeOK
<1> QED
  BY <1>3 DEF Init, Typed, RequestTyped, SenderTyped, RecipientTyped, CurrentTyped

\* The message made of a frame is a message.
LEMMA CopyTyped ==
  ASSUME Typed, NEW l \in Links, NEW u \in Users, wpc[l] \in {"queue", "spread"}
  PROVE  /\ Copy(l, u) \in Message
         /\ Copy(l, u).via = l /\ Copy(l, u).to = u /\ Copy(l, u).n = sends[l]
<1>1. req[l].n \in 1..MaxSends /\ req[l].n = sends[l] /\ from[l] \in Users
  BY DEF Typed, RequestTyped, SenderTyped, Frame
<1> QED
  BY <1>1 DEF Copy, Message

\* What queueMessage does to the queue, in both of its outcomes.
LEMMA QueuedTyped ==
  ASSUME Typed, NEW m \in Message, Queued(m) \/ Refused
  PROVE  /\ messages' \in Seq(Message)
         /\ dpc' = dpc \/ (dpc = "asleep" /\ dpc' = "check")
<1>1. Full => messages # <<>>
  BY DispatcherAssumption DEF Full, Typed, TypeOK
<1>2. messages \in Seq(Message)
  BY DEF Typed, TypeOK
<1>3. CASE ~Full /\ Push(messages, m)
  BY <1>2, <1>3 DEF Push
<1>4. CASE Full /\ Push(Tail(messages), m)
  <2>1. Tail(messages) \in Seq(Message)
    BY <1>1, <1>2, <1>4
  <2> QED
    BY <1>4, <2>1 DEF Push
<1>5. CASE Refused
  BY <1>2, <1>5 DEF Refused
<1> QED
  BY <1>3, <1>4, <1>5 DEF Queued

\* Every step of every thread keeps the types, one step per action.
LEMMA TypedStep == Typed /\ [Next]_vars => Typed'
<1> SUFFICES ASSUME Typed, [Next]_vars PROVE Typed'
  OBVIOUS
<1> USE DispatcherAssumption, NoMsgAssumption
    DEF Typed, TypeOK, RequestTyped, SenderTyped, RecipientTyped, CurrentTyped
<1>1. CASE Registry
  <2>1. ASSUME NEW u \in Users, NEW l \in Links, Join(l, u) PROVE Typed'
    BY <2>1 DEF Join, handler, thread
  <2>2. ASSUME NEW u \in Users, Leave(u) PROVE Typed'
    BY <2>2 DEF Leave, handler, thread
  <2>3. CASE Hold \/ Release
    BY <2>3 DEF Hold, Release, handler, thread
  <2> QED
    BY <1>1, <2>1, <2>2, <2>3 DEF Registry
<1>2. ASSUME NEW l \in Links, NEW to \in Users \cup {All}, GetSend(l, to) PROVE Typed'
  <2>1. sends'[l] \in 1..MaxSends /\ sends' \in [Links -> 0..MaxSends]
    BY <1>2 DEF GetSend
  <2>2. [via |-> l, n |-> sends'[l], to |-> to] \in Frame
    BY <2>1 DEF Frame
  <2> QED
    BY <1>2, <2>1, <2>2 DEF GetSend, Goto, registry, thread
<1>3. ASSUME NEW l \in Links, Name(l) PROVE Typed'
  <2>1. CASE Return(l, "name")
    BY <1>3, <2>1 DEF Name, Return, Goto, registry, thread
  <2>2. ASSUME NEW u \in Users, Goto(l, "name", "load"),
               from' = [from EXCEPT ![l] = u], UNCHANGED req
        PROVE  Typed'
    BY <1>3, <2>2 DEF Name, Goto, registry, thread
  <2> QED
    BY <1>3, <2>1, <2>2 DEF Name
<1>4. ASSUME NEW l \in Links, Load(l) \/ Store(l) PROVE Typed'
  <2>1. CASE Load(l)
    BY <2>1 DEF Load, Goto, registry, thread
  <2>2. CASE Store(l)
    <3>1. received' \in Nat /\ seen' \in [Links -> Nat]
      BY <2>2 DEF Store
    <3> QED
      BY <2>2, <3>1 DEF Store, Goto, registry, thread
  <2> QED
    BY <1>4, <2>1, <2>2
<1>5. ASSUME NEW l \in Links, Route(l) PROVE Typed'
  <2>1. CASE Invalid(l)
    BY <1>5, <2>1 DEF Route, Invalid, Return, Goto, registry, thread
  <2>2. CASE ToAll(l)
    BY <1>5, <2>2 DEF Route, ToAll, Goto, Online, registry, thread
  <2>3. CASE ToOne(l)
    <3>1. CASE Return(l, "route")
      BY <1>5, <2>3, <3>1 DEF Route, ToOne, Return, Goto, registry, thread
    <3>2. CASE Goto(l, "route", "queue") /\ UNCHANGED <<req, from>> /\ req[l].to \in Users
      BY <1>5, <2>3, <3>2 DEF Route, ToOne, Goto, registry, thread
    <3> QED
      BY <2>3, <3>1, <3>2 DEF ToOne, Online
  <2> QED
    BY <1>5, <2>1, <2>2, <2>3 DEF Route
<1>6. ASSUME NEW l \in Links, Submit(l) PROVE Typed'
  <2>1. Copy(l, req[l].to) \in Message
    BY <1>6, CopyTyped DEF Submit, Return, Goto
  <2>2. /\ messages' \in Seq(Message)
        /\ dpc' = dpc \/ (dpc = "asleep" /\ dpc' = "check")
    BY <1>6, <2>1, QueuedTyped DEF Submit
  <2>3. oks' \in SUBSET Message
    BY <1>6, <2>1 DEF Submit
  <2> QED
    BY <1>6, <2>2, <2>3 DEF Submit, Return, Goto, registry
<1>7. ASSUME NEW l \in Links, NEW u \in Users, Spread(l, u) PROVE Typed'
  <2>1. Copy(l, u) \in Message
    BY <1>7, CopyTyped DEF Spread, Goto
  <2>2. /\ messages' \in Seq(Message)
        /\ dpc' = dpc \/ (dpc = "asleep" /\ dpc' = "check")
    BY <1>7, <2>1, QueuedTyped DEF Spread
  <2> QED
    BY <1>7, <2>2 DEF Spread, Goto, registry
<1>8. ASSUME NEW l \in Links, SpreadDone(l) PROVE Typed'
  BY <1>8 DEF SpreadDone, Return, Goto, registry, thread
<1>9. CASE Sleep \/ WakeUp \/ Look
  BY <1>9 DEF Sleep, WakeUp, Look, DGoto, registry, handler
<1>10. CASE Take
  BY <1>10 DEF Take, DGoto, registry, handler
<1>11. ASSUME NEW how \in Outcomes, Settle(how), dpc \in {"send", "lookBack", "bounce"},
              dpc' = "check"
       PROVE  Typed'
  <2>1. [msg |-> cur, how |-> how] \in [msg : Message, how : Outcomes]
    BY <1>11
  <2> QED
    BY <1>11, <2>1 DEF Settle, registry, handler
<1>12. CASE Transmit
  BY <1>12, <1>11 DEF Transmit, Send, Bounce, DGoto, Outcomes
<1>14. CASE LookBack
  <2>1. CASE dpc' = "check"
    BY <1>11, <1>14, <2>1 DEF LookBack, DGoto, Outcomes
  <2>2. CASE dpc' # "check"
    BY <1>14, <2>2 DEF LookBack, DGoto, registry, handler
  <2> QED
    BY <2>1, <2>2
<1>13. CASE UNCHANGED vars
  BY <1>13 DEF vars, registry, handler, thread
<1> QED
  BY <1>1, <1>2, <1>3, <1>4, <1>5, <1>6, <1>7, <1>8, <1>9, <1>10, <1>12, <1>13, <1>14
  DEF Next, HandlerStep, Thread, Lookups

\* Every variable keeps its type: in particular queueMessage never evicts from an
\* empty queue, and a message always has the name of its sender.
THEOREM TypeCorrect == Spec => []TypeOK
<1>1. Typed => TypeOK
  BY DEF Typed
<1> QED
  BY <1>1, TypedInit, TypedStep, PTL DEF Spec

-----------------------------------------------------------------------------
(***************************************************************************)
(* Order.  The messages the dispatcher has had are those it has settled,   *)
(* the one in its hands and those in the queue; in this order, what one    *)
(* connection sends to one recipient has increasing frame numbers.         *)
(***************************************************************************)
Ahead(a, b) == a.via = b.via /\ a.to = b.to => a.n < b.n

Ordered ==
  /\ \A i, j \in 1..Len(settled) : i < j => Ahead(settled[i].msg, settled[j].msg)
  /\ \A i \in 1..Len(settled) : cur # NoMsg => Ahead(settled[i].msg, cur)
  /\ \A i \in 1..Len(settled), j \in 1..Len(messages) :
       Ahead(settled[i].msg, messages[j])
  /\ \A j \in 1..Len(messages) : cur # NoMsg => Ahead(cur, messages[j])
  /\ \A i, j \in 1..Len(messages) : i < j => Ahead(messages[i], messages[j])

\* The worker of l has still to queue what it read last for u.
Unsent(l, u) ==
  \/ wpc[l] \in {"name", "load", "store", "route", "queue"}
  \/ wpc[l] = "spread" /\ u \in rest[l]

\* m was made of a frame that has been read, and not of one still to be queued.
Old(m) ==
  /\ m.n <= sends[m.via]
  /\ Unsent(m.via, m.to) => m.n < sends[m.via]

AllOld ==
  /\ \A i \in 1..Len(settled) : Old(settled[i].msg)
  /\ cur # NoMsg => Old(cur)
  /\ \A j \in 1..Len(messages) : Old(messages[j])

\* A message that is old stays so, whatever any worker reads, routes or queues.
LEMMA OldStep ==
  ASSUME Typed, [Next]_vars, NEW m \in Message, Old(m)
  PROVE  Old(m)'
<1> USE DEF Old, Unsent, Typed, TypeOK
<1>1. m.via \in Links /\ m.to \in Users /\ m.n \in Nat
  BY DispatcherAssumption DEF Message
<1>2. CASE UNCHANGED <<sends, wpc, rest>>
  BY <1>1, <1>2
<1>3. ASSUME NEW l \in Links, NEW to \in Users \cup {All}, GetSend(l, to) PROVE Old(m)'
  BY <1>1, <1>3, DispatcherAssumption DEF GetSend, Goto
<1>4. ASSUME NEW l \in Links, Name(l) PROVE Old(m)'
  BY <1>1, <1>4 DEF Name, Return, Goto
<1>5. ASSUME NEW l \in Links, Load(l) \/ Store(l) PROVE Old(m)'
  BY <1>1, <1>5 DEF Load, Store, Goto
<1>6. ASSUME NEW l \in Links, Route(l) PROVE Old(m)'
  BY <1>1, <1>6 DEF Route, Invalid, ToAll, ToOne, Return, Goto
<1>7. ASSUME NEW l \in Links, Submit(l) PROVE Old(m)'
  BY <1>1, <1>7 DEF Submit, Return, Goto
<1>8. ASSUME NEW l \in Links, NEW u \in Users, Spread(l, u) PROVE Old(m)'
  BY <1>1, <1>8 DEF Spread, Goto
<1>9. ASSUME NEW l \in Links, SpreadDone(l) PROVE Old(m)'
  BY <1>1, <1>9 DEF SpreadDone, Return, Goto
<1>10. CASE Registry \/ Thread \/ Transmit \/ WakeUp \/ UNCHANGED vars
  BY <1>2, <1>10
  DEF Registry, Join, Leave, Hold, Release, Thread, Sleep, Take, Lookups, Look, LookBack,
      Transmit, Send, Bounce, Settle, WakeUp, handler, vars
<1> QED
  BY <1>3, <1>4, <1>5, <1>6, <1>7, <1>8, <1>9, <1>10 DEF Next, HandlerStep

\* The message a worker hands to queueMessage comes after every old one, is not
\* one of them, and is old from then on.
LEMMA NewIsLast ==
  ASSUME Typed, NEW l \in Links, NEW u \in Users, NEW m, m = Copy(l, u),
         (Submit(l) /\ u = req[l].to) \/ Spread(l, u)
  PROVE  /\ m \in Message /\ Old(m)'
         /\ \A k \in Message : Old(k) => Ahead(k, m) /\ k # m
<1>1. wpc[l] \in {"queue", "spread"} /\ Unsent(l, u) /\ sends' = sends
  BY DEF Submit, Spread, Return, Goto, Unsent
<1>2. m \in Message /\ m.via = l /\ m.to = u /\ m.n = sends[l]
  BY <1>1, CopyTyped
<1>3. sends[l] \in Nat
  BY DispatcherAssumption DEF Typed, TypeOK
<1>4. ~Unsent(l, u)'
  BY DEF Submit, Spread, Return, Goto, Unsent, Typed, TypeOK
<1>5. ASSUME NEW k \in Message, Old(k) PROVE Ahead(k, m) /\ k # m
  BY <1>1, <1>2, <1>3, <1>5, DispatcherAssumption DEF Ahead, Old, Message
<1> QED
  BY <1>1, <1>2, <1>3, <1>4, <1>5 DEF Old

\* What the dispatcher has is messages.
LEMMA Elements ==
  ASSUME Typed
  PROVE  /\ Len(messages) \in Nat /\ Len(settled) \in Nat
         /\ \A i \in 1..Len(settled) : settled[i].msg \in Message
         /\ \A j \in 1..Len(messages) : messages[j] \in Message
         /\ cur # NoMsg => cur \in Message
<1>1. /\ messages \in Seq(Message)
      /\ settled \in Seq([msg : Message, how : Outcomes])
      /\ cur \in Message \cup {NoMsg}
  BY DEF Typed, TypeOK
<1>2. ASSUME NEW i \in 1..Len(settled) PROVE settled[i].msg \in Message
  <2>1. settled[i] \in [msg : Message, how : Outcomes]
    BY <1>1, ElementOfSeq
  <2> QED
    BY <2>1
<1>3. ASSUME NEW j \in 1..Len(messages) PROVE messages[j] \in Message
  BY <1>1, ElementOfSeq
<1> QED
  BY <1>1, <1>2, <1>3

\* A message that comes after all the others is queued, or refused; under
\* DROP_OLDEST the oldest may go.
LEMMA QueuedInOrder ==
  ASSUME Typed, Ordered, AllOld, NEW m \in Message, Old(m)',
         \A k \in Message : Old(k) => Old(k)' /\ Ahead(k, m),
         Queued(m) \/ Refused, UNCHANGED <<cur, settled>>
  PROVE  Ordered' /\ AllOld'
<1>0. messages \in Seq(Message)
  BY DEF Typed, TypeOK
<1>1. /\ Len(messages) \in Nat /\ Len(settled) \in Nat
      /\ \A i \in 1..Len(settled) : settled[i].msg \in Message
      /\ \A j \in 1..Len(messages) : messages[j] \in Message
      /\ cur # NoMsg => cur \in Message
  BY Elements
<1>2. CASE Push(messages, m)
  <2>1. /\ Len(messages') = Len(messages) + 1 /\ messages'[Len(messages) + 1] = m
        /\ \A j \in 1..Len(messages) : messages'[j] = messages[j]
    BY <1>0, <1>2 DEF Push
  <2>2. \A j \in 1..Len(messages') : j \in 1..Len(messages) \/ j = Len(messages) + 1
    BY <1>0, <2>1
  <2>3. Ordered'
    BY <1>1, <2>1, <2>2 DEF Ordered, AllOld
  <2>4. AllOld'
    BY <1>1, <2>1, <2>2 DEF AllOld
  <2> QED
    BY <2>3, <2>4
<1>3. CASE Full /\ Push(Tail(messages), m)
  <2>0. messages # <<>>
    BY <1>0, <1>3, DispatcherAssumption DEF Full
  <2>1. /\ Len(messages') = Len(messages) /\ messages'[Len(messages)] = m
        /\ \A j \in 1..Len(messages) - 1 : messages'[j] = messages[j + 1]
    BY <1>0, <1>3, <2>0 DEF Push
  <2>3. \A j \in 1..Len(messages') :
          j = Len(messages) \/ (j \in 1..Len(messages) - 1 /\ j + 1 \in 1..Len(messages))
    BY <1>1, <2>1
  <2>4. Ordered'
    BY <1>1, <2>1, <2>3 DEF Ordered, AllOld
  <2>5. AllOld'
    BY <1>1, <2>1, <2>3 DEF AllOld
  <2> QED
    BY <2>4, <2>5
<1>4. CASE Refused
  <2>1. UNCHANGED messages
    BY <1>4 DEF Refused
  <2>2. Ordered'
    BY <2>1 DEF Ordered
  <2>3. AllOld'
    BY <1>1, <2>1 DEF AllOld
  <2> QED
    BY <2>2, <2>3
<1> QED
  BY <1>2, <1>3, <1>4 DEF Queued

\* The dispatcher thread settles the message it holds.
Settles ==
  /\ dpc \in {"send", "lookBack", "bounce"}
  /\ \E how \in Outcomes : Settle(how)

\* A send settles the message, and the lookup of the sender settles it or leaves it.
LEMMA MessageMoves ==
  ASSUME Transmit \/ LookBack
  PROVE  UNCHANGED <<messages, cur, settled>> \/ Settles
BY DEF Transmit, Send, Bounce, LookBack, Settles, DGoto, Outcomes

\* What a step does to the order, one step per action that touches a message.
LEMMA OrderStep == Typed /\ Ordered /\ AllOld /\ [Next]_vars => Ordered' /\ AllOld'
<1> SUFFICES ASSUME Typed, Ordered, AllOld, [Next]_vars PROVE Ordered' /\ AllOld'
  OBVIOUS
<1>0. /\ messages \in Seq(Message)
      /\ settled \in Seq([msg : Message, how : Outcomes])
      /\ cur \in Message \cup {NoMsg}
  BY DEF Typed, TypeOK
<1>1. /\ Len(messages) \in Nat /\ Len(settled) \in Nat
      /\ \A i \in 1..Len(settled) : settled[i].msg \in Message
      /\ \A j \in 1..Len(messages) : messages[j] \in Message
      /\ cur # NoMsg => cur \in Message
  BY Elements
<1>2. \A k \in Message : Old(k) => Old(k)'
  BY OldStep
<1>3. CASE UNCHANGED <<messages, cur, settled>>
  BY <1>1, <1>2, <1>3 DEF Ordered, AllOld
<1>4. ASSUME NEW l \in Links, Submit(l) PROVE Ordered' /\ AllOld'
  <2> DEFINE m == Copy(l, req[l].to)
  <2>1. req[l].to \in Users
    BY <1>4 DEF Submit, Return, Goto, Typed, RecipientTyped
  <2>2. PICK k : k = m
    OBVIOUS
  <2>3. k \in Message /\ Old(k)' /\ \A h \in Message : Old(h) => Ahead(h, k)
    BY <1>4, <2>1, <2>2, NewIsLast
  <2>4. (Queued(k) \/ Refused) /\ UNCHANGED <<cur, settled>>
    BY <1>4, <2>2 DEF Submit
  <2> QED
    BY <1>2, <2>3, <2>4, QueuedInOrder
<1>5. ASSUME NEW l \in Links, NEW u \in Users, Spread(l, u) PROVE Ordered' /\ AllOld'
  <2>1. PICK k : k = Copy(l, u)
    OBVIOUS
  <2>2. k \in Message /\ Old(k)' /\ \A h \in Message : Old(h) => Ahead(h, k)
    BY <1>5, <2>1, NewIsLast
  <2>3. (Queued(k) \/ Refused) /\ UNCHANGED <<cur, settled>>
    BY <1>5, <2>1 DEF Spread
  <2> QED
    BY <1>2, <2>2, <2>3, QueuedInOrder
<1>6. CASE Take
  <2>1. /\ cur' = messages[1] /\ cur' \in Message /\ messages # <<>>
        /\ Len(messages') = Len(messages) - 1 /\ settled' = settled
        /\ \A j \in 1..Len(messages') : messages'[j] = messages[j + 1]
    BY <1>0, <1>6 DEF Take, handler
  <2>2. /\ 1 \in 1..Len(messages)
        /\ \A j \in 1..Len(messages') : j + 1 \in 1..Len(messages) /\ 1 < j + 1
    BY <1>0, <2>1
  <2>3. Ordered'
    <3>1. \A i \in 1..Len(settled) : Ahead(settled[i].msg, cur')
      BY <2>1, <2>2 DEF Ordered
    <3>2. \A i \in 1..Len(settled), j \in 1..Len(messages') :
            Ahead(settled[i].msg, messages'[j])
      BY <2>1, <2>2 DEF Ordered
    <3>3. \A j \in 1..Len(messages') : Ahead(cur', messages'[j])
      BY <1>1, <2>1, <2>2 DEF Ordered
    <3>4. \A i, j \in 1..Len(messages') : i < j => i + 1 < j + 1
      BY <1>1, <2>1
    <3>5. \A i, j \in 1..Len(messages') : i < j => Ahead(messages'[i], messages'[j])
      BY <2>1, <2>2, <3>4 DEF Ordered
    <3> QED
      BY <2>1, <3>1, <3>2, <3>3, <3>5 DEF Ordered, Ahead
  <2>4. AllOld'
    BY <1>1, <1>2, <2>1, <2>2 DEF AllOld
  <2> QED
    BY <2>3, <2>4
<1>7. CASE Settles
  <2>1. PICK how \in Outcomes : Settle(how)
    BY <1>7 DEF Settles
  <2>2. cur # NoMsg /\ cur \in Message
    BY <1>0, <1>7 DEF Settles, Typed, CurrentTyped
  <2>3. /\ Len(settled') = Len(settled) + 1 /\ settled'[Len(settled) + 1].msg = cur
        /\ \A i \in 1..Len(settled) : settled'[i] = settled[i]
        /\ cur' = NoMsg /\ messages' = messages
    BY <1>0, <2>1, <2>2 DEF Settle
  <2>4. \A i \in 1..Len(settled') : i \in 1..Len(settled) \/ i = Len(settled) + 1
    BY <1>0, <2>3
  <2>5. Ordered'
    BY <1>1, <2>2, <2>3, <2>4 DEF Ordered
  <2>6. AllOld'
    BY <1>1, <1>2, <2>2, <2>3, <2>4 DEF AllOld
  <2> QED
    BY <2>5, <2>6
<1> QED
  BY <1>3, <1>4, <1>5, <1>6, <1>7, MessageMoves
  DEF Next, Registry, Join, Leave, Hold, Release, GetSend, HandlerStep, Name, Load,
      Store, Route, SpreadDone, Thread, Sleep, Lookups, Look, WakeUp, vars, thread

\* Messages from one connection to one recipient are settled in the order of
\* their frames, under each of the three policies.
THEOREM SettledInOrder == Spec => []PairwiseFifo
<1>1. Init => Ordered /\ AllOld
  BY DEF Init, Ordered, AllOld
<1>2. Ordered => PairwiseFifo
  BY DEF Ordered, Ahead, PairwiseFifo
<1> QED
  BY <1>1, <1>2, TypedInit, TypedStep, OrderStep, PTL DEF Spec

-----------------------------------------------------------------------------
(***************************************************************************)
(* What the sender was told                                                *)
(***************************************************************************)
\* The dispatcher has m, or is done with it.
Has(m) ==
  \/ \E j \in 1..Len(messages) : messages[j] = m
  \/ cur # NoMsg /\ cur = m
  \/ \E i \in 1..Len(settled) : settled[i].msg = m

\* Without DROP_OLDEST nothing leaves the queue but at its front, to the thread.
Keeps == Policy # "DROP_OLDEST" => \A m \in oks : Has(m)

\* The elements of the pending messages.
LEMMA PendingElements ==
  ASSUME Typed
  PROVE  Range(Pending) = {messages[j] : j \in 1..Len(messages)}
                            \cup (IF cur = NoMsg THEN {} ELSE {cur})
<1>1. messages \in Seq(Message) /\ InHand \in Seq(Message)
  BY DEF InHand, Typed, TypeOK
<1>2. Range(Pending) = Range(InHand) \cup Range(messages)
  BY <1>1, RangeConcatenation DEF Pending
<1>3. Range(messages) = {messages[j] : j \in 1..Len(messages)}
  BY <1>1, RangeEquality
<1>4. Range(InHand) = IF cur = NoMsg THEN {} ELSE {cur}
  <2>1. Range(InHand) = {InHand[j] : j \in 1..Len(InHand)}
    BY <1>1, RangeEquality
  <2>2. CASE cur = NoMsg
    BY <2>1, <2>2 DEF InHand
  <2>3. CASE cur # NoMsg
    <3>1. InHand[1] = cur /\ Len(InHand) = 1
      BY <2>3 DEF InHand
    <3> QED
      BY <2>1, <2>3, <3>1
  <2> QED
    BY <2>2, <2>3
<1> QED
  BY <1>2, <1>3, <1>4

\* Has is the same as being pending or settled.
LEMMA HasMeans ==
  ASSUME Typed, NEW m
  PROVE  Has(m) <=> m \in Range(Pending) \cup {settled[i].msg : i \in 1..Len(settled)}
<1>1. m \in Range(Pending)
        <=> (\E j \in 1..Len(messages) : messages[j] = m) \/ (cur # NoMsg /\ cur = m)
  BY PendingElements
<1> QED
  BY <1>1 DEF Has

\* Without DROP_OLDEST no step takes a message from the dispatcher.
LEMMA HasStep ==
  ASSUME Typed, [Next]_vars, Policy # "DROP_OLDEST", NEW m, Has(m)
  PROVE  Has(m)'
<1>0. messages \in Seq(Message) /\ settled \in Seq([msg : Message, how : Outcomes])
  BY DEF Typed, TypeOK
<1>1. CASE UNCHANGED <<messages, cur, settled>>
  BY <1>1 DEF Has
<1>2. ASSUME NEW k, Queued(k) \/ Refused, UNCHANGED <<cur, settled>> PROVE Has(m)'
  <2>1. CASE Push(messages, k)
    <3>1. /\ \A j \in 1..Len(messages) : messages'[j] = messages[j]
          /\ 1..Len(messages) \subseteq 1..Len(messages')
      BY <1>0, <2>1 DEF Push
    <3> QED
      BY <1>2, <3>1 DEF Has
  <2>2. CASE Refused
    BY <1>1, <1>2, <2>2 DEF Refused
  <2> QED
    BY <1>2, <2>1, <2>2 DEF Queued
<1>3. ASSUME NEW l \in Links, Submit(l) \/ \E u \in Users : Spread(l, u) PROVE Has(m)'
  BY <1>2, <1>3 DEF Submit, Spread
<1>4. CASE Take
  <2>1. /\ cur = NoMsg /\ cur' = messages[1] /\ messages # <<>> /\ settled' = settled
        /\ Len(messages') = Len(messages) - 1
        /\ \A j \in 1..Len(messages') : messages'[j] = messages[j + 1]
    BY <1>0, <1>4 DEF Take, DGoto, handler, Typed, CurrentTyped
  <2>2. cur' # NoMsg
    BY <1>0, <2>1, NoMsgAssumption, ElementOfSeq
  <2>3. ASSUME NEW j \in 1..Len(messages), messages[j] = m PROVE Has(m)'
    <3>1. CASE j = 1
      BY <2>1, <2>2, <2>3, <3>1 DEF Has
    <3>2. CASE j # 1
      <4>1. j - 1 \in 1..Len(messages') /\ (j - 1) + 1 = j
        BY <1>0, <2>1, <3>2
      <4>2. messages'[j - 1] = m
        BY <2>1, <2>3, <4>1
      <4> QED
        BY <4>1, <4>2 DEF Has
    <3> QED
      BY <3>1, <3>2
  <2> QED
    BY <2>1, <2>3 DEF Has
<1>5. CASE Settles
  <2>1. PICK how \in Outcomes : Settle(how)
    BY <1>5 DEF Settles
  <2>2. /\ Len(settled') = Len(settled) + 1 /\ settled'[Len(settled) + 1].msg = cur
        /\ \A i \in 1..Len(settled) : settled'[i] = settled[i]
        /\ messages' = messages
    <3>1. cur \in Message
      BY <1>5, Elements DEF Settles, Typed, CurrentTyped
    <3> QED
      BY <1>0, <2>1, <3>1 DEF Settle
  <2>3. /\ Len(settled) + 1 \in 1..Len(settled')
        /\ \A i \in 1..Len(settled) : i \in 1..Len(settled')
    BY <1>0, <2>2
  <2> QED
    BY <2>2, <2>3 DEF Has
<1> QED
  BY <1>1, <1>3, <1>4, <1>5, MessageMoves
  DEF Next, Registry, Join, Leave, Hold, Release, GetSend, HandlerStep, Name, Load,
      Store, Route, SpreadDone, Thread, Sleep, Lookups, Look, WakeUp, vars, thread

\* An OK is given only for a message that was queued, and stays true.
LEMMA KeepsStep == Typed /\ Keeps /\ [Next]_vars => Keeps'
<1> SUFFICES ASSUME Typed, Keeps, [Next]_vars, Policy # "DROP_OLDEST", NEW m \in oks'
             PROVE  Has(m)'
  BY DEF Keeps
<1>1. CASE m \in oks
  BY <1>1, HasStep DEF Keeps
<1>2. CASE m \notin oks
  <2>1. PICK l \in Links : Submit(l) /\ Queued(m) /\ m = Copy(l, req[l].to)
    BY <1>2
    DEF Next, Registry, Join, Leave, Hold, Release, GetSend, HandlerStep, Name, Load,
        Store, Route, Submit, Spread, SpreadDone, Thread, Sleep, Take, Lookups, Look,
        LookBack, Transmit, Send, Bounce, Settle, WakeUp, vars, handler
  <2>2. messages \in Seq(Message) /\ m \in Message
    BY <2>1, CopyTyped DEF Submit, Return, Goto, Typed, TypeOK, RecipientTyped
  <2>3. messages' = Append(messages, m)
    BY <2>1 DEF Queued, Push
  <2>4. Len(messages') \in 1..Len(messages') /\ messages'[Len(messages')] = m
    BY <2>2, <2>3
  <2> QED
    BY <2>4 DEF Has
<1> QED
  BY <1>1, <1>2

\* Under REJECT a sender told "OK" for a message to one recipient was told the
\* truth: the message is in the queue, in the dispatcher's hands or settled.
THEOREM OkIsTrue == Spec => []OkIsKept
<1>1. Init => Keeps
  BY DEF Init, Keeps
<1>2. Typed /\ Keeps => OkIsKept
  BY HasMeans DEF Keeps, OkIsKept
<1> QED
  BY <1>1, <1>2, TypedInit, TypedStep, KeepsStep, PTL DEF Spec

-----------------------------------------------------------------------------
(***************************************************************************)
(* The refinement: what a step does to the pending messages                *)
(***************************************************************************)
\* The message in hand is the oldest of the pending ones.
LEMMA PendingShape ==
  ASSUME Typed
  PROVE  /\ messages \in Seq(Message) /\ Len(messages) \in Nat
         /\ cur = NoMsg => Pending = messages
         /\ cur # NoMsg => /\ Pending = <<cur>> \o messages /\ Pending # <<>>
                          /\ Head(Pending) = cur /\ Tail(Pending) = messages
         /\ Pending \in Seq(Message) /\ Len(Pending) <= Len(messages) + 1
<1>1. messages \in Seq(Message) /\ Len(messages) \in Nat
  BY DEF Typed, TypeOK
<1>2. CASE cur = NoMsg
  BY <1>1, <1>2 DEF Pending, InHand
<1>3. CASE cur # NoMsg
  <2>1. cur \in Message
    BY <1>3 DEF Typed, TypeOK
  <2>2. Pending = <<cur>> \o messages
    BY <1>3 DEF Pending, InHand
  <2> QED
    BY <1>1, <1>3, <2>1, <2>2
<1> QED
  BY <1>1, <1>2, <1>3

\* A message that is not old is queued: the promise takes it.
LEMMA QueuedIsTaken ==
  ASSUME Typed, AllOld, Policy # "DROP_OLDEST", NEW m \in Message, Queued(m),
         \A k \in Message : Old(k) => k # m, UNCHANGED <<cur, settled>>
  PROVE  Promise!Take(m)
<1>1. messages' = Append(messages, m) /\ Len(messages) < MaxStored
  BY DispatcherAssumption, PendingShape DEF Queued, Push, Full
<1>2. Pending' = Append(Pending, m)
  <2>1. CASE cur = NoMsg
    BY <1>1, <2>1, PendingShape DEF Pending, InHand
  <2>2. CASE cur # NoMsg
    <3>1. Pending' = <<cur>> \o Append(messages, m)
      BY <1>1, <2>2 DEF Pending, InHand
    <3>2. Pending = <<cur>> \o messages /\ messages \in Seq(Message) /\ cur \in Message
      BY <2>2, PendingShape, Elements
    <3> QED
      BY <3>1, <3>2
  <2> QED
    BY <2>1, <2>2
<1>3. Len(Pending) < MaxStored + 1
  BY <1>1, PendingShape, DispatcherAssumption
<1>4. ~Has(m)
  BY Elements DEF Has, AllOld
<1>5. ~Promise!Known(m)
  <2>1. Promise!Range(Pending) = Range(Pending)
    BY DEF Promise!Range, Range
  <2> QED
    BY <1>4, <2>1, HasMeans DEF Promise!Known
<1> QED
  BY <1>2, <1>3, <1>5 DEF Promise!Take

\* Every step is a step of Delivery or leaves what it shows as it is.
LEMMA PromiseStep ==
  ASSUME Typed, AllOld, [Next]_vars, Policy # "DROP_OLDEST"
  PROVE  [Promise!Next]_(Promise!vars)
<1>1. CASE UNCHANGED <<messages, cur, settled>>
  BY <1>1 DEF Promise!vars, Pending, InHand
<1>2. ASSUME NEW l \in Links, NEW u \in Users, NEW m, m = Copy(l, u),
             (Submit(l) /\ u = req[l].to) \/ Spread(l, u)
      PROVE  [Promise!Next]_(Promise!vars)
  <2>1. m \in Message /\ \A k \in Message : Old(k) => k # m
    BY <1>2, NewIsLast
  <2>2. (Queued(m) \/ Refused) /\ UNCHANGED <<cur, settled>>
    BY <1>2 DEF Submit, Spread
  <2>3. CASE Queued(m)
    BY <2>1, <2>2, <2>3, QueuedIsTaken DEF Promise!Next
  <2>4. CASE Refused
    BY <1>1, <2>2, <2>4 DEF Refused
  <2> QED
    BY <2>2, <2>3, <2>4
<1>3. ASSUME NEW l \in Links, Submit(l) PROVE [Promise!Next]_(Promise!vars)
  <2>1. req[l].to \in Users
    BY <1>3 DEF Submit, Return, Goto, Typed, RecipientTyped
  <2> QED
    BY <1>2, <1>3, <2>1
<1>4. CASE Take
  <2>1. /\ cur = NoMsg /\ messages # <<>> /\ settled' = settled
        /\ cur' = Head(messages) /\ messages' = Tail(messages)
    BY <1>4 DEF Take, DGoto, Typed, CurrentTyped
  <2>2. Head(messages) \in Message /\ messages = <<Head(messages)>> \o Tail(messages)
    BY <2>1, PendingShape
  <2>3. Pending' = messages
    BY <2>1, <2>2, NoMsgAssumption DEF Pending, InHand
  <2> QED
    BY <2>1, <2>3, PendingShape DEF Promise!vars
<1>5. CASE Settles
  <2>1. PICK how \in Outcomes : Settle(how)
    BY <1>5 DEF Settles
  <2>2. cur # NoMsg
    BY <1>5 DEF Settles, Typed, CurrentTyped
  <2>3. Pending' = messages
    BY <2>1, PendingShape DEF Settle, Pending, InHand
  <2>4. Promise!Settle(how)
    BY <2>1, <2>2, <2>3, PendingShape DEF Settle, Promise!Settle
  <2> QED
    BY <2>4 DEF Promise!Next
<1> QED
  BY <1>1, <1>2, <1>3, <1>4, <1>5, MessageMoves
  DEF Next, Registry, Join, Leave, Hold, Release, GetSend, HandlerStep, Name, Load,
      Store, Route, SpreadDone, Thread, Sleep, Lookups, Look, WakeUp, vars, thread

\* Unless the policy evicts, queue, mutex and dispatcher thread implement
\* Delivery: no message queueMessage took is lost, taken twice or overtaken, and
\* at most one more than maxStoredMessages is held.
THEOREM QueueDelivers == Policy # "DROP_OLDEST" => (Spec => Delivers)
<1> SUFFICES ASSUME Policy # "DROP_OLDEST" PROVE Spec => Delivers
  OBVIOUS
<1>1. Init => Promise!Init
  BY DEF Init, Promise!Init, Pending, InHand
<1>2. Init => Ordered /\ AllOld
  BY DEF Init, Ordered, AllOld
<1>3. Typed /\ AllOld /\ [Next]_vars => [Promise!Next]_(Promise!vars)
  BY PromiseStep
<1> QED
  BY <1>1, <1>2, <1>3, TypedInit, TypedStep, OrderStep, PTL
  DEF Spec, Delivers, Promise!Spec

=============================================================================
