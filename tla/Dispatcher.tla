----------------------------- MODULE Dispatcher -----------------------------
(***************************************************************************)
(* The message pipeline: workers that run handleSendMessage, the queue of  *)
(* the Dispatcher with its mutex and condition variable, and the           *)
(* dispatcher thread that takes one message at a time to its recipient.    *)
(*                                                                         *)
(* A link is a connection with the worker that reads it.  Who is           *)
(* registered (Server::clients) may change between any two steps; Sessions *)
(* has the details.  A step is one region under a mutex or one system      *)
(* call; a region under clientsMutex waits while the heartbeat thread      *)
(* sends its PINGs, which it does with the mutex held.  The frames of a    *)
(* link are numbered, and at most MaxSends of them are SEND.               *)
(***************************************************************************)
EXTENDS Naturals, Sequences, FiniteSets, SequencesExt

CONSTANTS
  Users,      \* valid usernames
  Links,      \* connections
  MaxStored,  \* DispatcherConfig::maxStoredMessages
  Policy,     \* DispatcherConfig::queuePolicy
  MaxSends,   \* bound: SEND frames of one link
  All,        \* the recipient "all" (which is also a valid username)
  NoLink, NoMsg, NoUser

ASSUME DispatcherAssumption ==
  /\ MaxStored \in Nat \ {0} /\ MaxSends \in Nat
  /\ Policy \in {"REJECT", "DROP_OLDEST", "DROP_NEWEST"}
  /\ NoLink \notin Links /\ NoUser \notin Users

\* from is filled in when the handler has found the name of the link.
Message == [via : Links, n : 1..MaxSends, from : Users, to : Users]
Frame == [via : Links, n : 1..MaxSends, to : Users \cup {All}]
Outcomes == {"sent", "failed", "returned", "senderGone"}
ASSUME NoMsgAssumption == NoMsg \notin Message \cup Frame

VARIABLES
  clients,   \* Server::clients, by name
  held,      \* does the heartbeat thread hold clientsMutex over a PING?
  sends,     \* SEND frames read from each link
  wpc,       \* where the worker of each link is
  req,       \* the frame it handles
  from,      \* its local variable from
  rest,      \* recipients its broadcast loop has still to visit
  seen,      \* its loaded value of totalMessagesReceived
  received,  \* Server::totalMessagesReceived
  oks,       \* history: messages to one recipient whose sender was told "OK"
  messages,  \* Dispatcher::messages
  dpc,       \* where the dispatcher thread is
  cur,       \* its local variable msg
  settled    \* history: messages it is done with, and how

registry == <<clients, held>>
handler == <<sends, wpc, req, from, rest, seen, received, oks>>
thread == <<dpc, cur, settled>>
vars == <<registry, handler, messages, thread>>

\* Types, and where each thread can be.
TypeOK ==
  /\ clients \in [Users -> Links \cup {NoLink}]
  /\ held \in BOOLEAN
  /\ sends \in [Links -> 0..MaxSends]
  /\ wpc \in [Links -> {"idle", "name", "load", "store", "route", "queue", "spread"}]
  /\ req \in [Links -> Frame \cup {NoMsg}]
  /\ from \in [Links -> Users \cup {NoUser}]
  /\ rest \in [Links -> SUBSET Users]
  /\ seen \in [Links -> Nat]
  /\ received \in Nat
  /\ oks \in SUBSET Message
  /\ messages \in Seq(Message)
  /\ dpc \in {"check", "asleep", "look", "send", "lookBack", "bounce"}
  /\ cur \in Message \cup {NoMsg}
  /\ settled \in Seq([msg : Message, how : Outcomes])

Init ==
  /\ clients = [u \in Users |-> NoLink]
  /\ held = FALSE
  /\ sends = [l \in Links |-> 0]
  /\ wpc = [l \in Links |-> "idle"]
  /\ req = [l \in Links |-> NoMsg]
  /\ from = [l \in Links |-> NoUser]
  /\ rest = [l \in Links |-> {}]
  /\ seen = [l \in Links |-> 0]
  /\ received = 0 /\ oks = {}
  /\ messages = <<>>
  /\ dpc = "check" /\ cur = NoMsg /\ settled = <<>>

Online == {u \in Users : clients[u] # NoLink}

(***************************************************************************)
(* The registry                                                            *)
(***************************************************************************)
\* registerClient overwrites an entry that appeared since the name was checked, and
\* a link may take several names.  Its worker calls it between two other frames.
Join(l, u) ==
  /\ ~held /\ wpc[l] = "idle" /\ clients' = [clients EXCEPT ![u] = l]
  /\ UNCHANGED <<held, handler, messages, thread>>

Leave(u) ==
  /\ ~held /\ u \in Online
  /\ clients' = [clients EXCEPT ![u] = NoLink]
  /\ UNCHANGED <<held, handler, messages, thread>>

\* heartbeatLoop takes clientsMutex for its PINGs, and keeps it while one of them
\* waits for room in the socket buffer of its client, perhaps for ever.
Hold ==
  /\ ~held /\ held' = TRUE
  /\ UNCHANGED <<clients, handler, messages, thread>>

Release ==
  /\ held /\ held' = FALSE
  /\ UNCHANGED <<clients, handler, messages, thread>>

(***************************************************************************)
(* queueMessage                                                            *)
(***************************************************************************)
Full == Len(messages) >= MaxStored

\* Mutated form of Push: nobody is notified.
PushSilently(q, m) ==
  messages' = Append(q, m) /\ UNCHANGED dpc
\* push and notify_one: a dispatcher asleep in cv.wait runs again.
Push(q, m) ==
  /\ messages' = Append(q, m)
  /\ dpc' = IF dpc = "asleep" THEN "check" ELSE dpc

\* Mutated form of Queued: a full queue makes room under every policy.
QueuedEvicting(m) ==
  Push(IF Full THEN Tail(messages) ELSE messages, m)
\* The body of queueMessage, when it returns true ...
Queued(m) ==
  \/ ~Full /\ Push(messages, m)
  \/ Full /\ Policy = "DROP_OLDEST" /\ Push(Tail(messages), m)

\* ... and when it returns false.
Refused == Full /\ Policy # "DROP_OLDEST" /\ UNCHANGED <<messages, dpc>>

(***************************************************************************)
(* A worker runs handleSendMessage                                         *)
(***************************************************************************)
Goto(l, a, b) == wpc[l] = a /\ wpc' = [wpc EXCEPT ![l] = b]

\* The handler returns: its local variables are gone.
Return(l, a) ==
  /\ Goto(l, a, "idle")
  /\ req' = [req EXCEPT ![l] = NoMsg]
  /\ from' = [from EXCEPT ![l] = NoUser]

\* The message made of the frame, for the recipient u.
Copy(l, u) == [via |-> l, n |-> req[l].n, from |-> from[l], to |-> u]

\* The receive loop returns a SEND frame.
GetSend(l, to) ==
  /\ Goto(l, "idle", "name") /\ sends[l] < MaxSends
  /\ sends' = [sends EXCEPT ![l] = @ + 1]
  /\ req' = [req EXCEPT ![l] = [via |-> l, n |-> sends'[l], to |-> to]]
  /\ UNCHANGED <<registry, from, rest, seen, received, oks, messages, thread>>

\* getUsernameBySocket; an unregistered sender is refused.
Name(l) ==
  /\ ~held
  /\ \/ (\A u \in Users : clients[u] # l) /\ Return(l, "name")
     \/ \E u \in Users :
          /\ clients[u] = l /\ Goto(l, "name", "load")
          /\ from' = [from EXCEPT ![l] = u] /\ UNCHANGED req
  /\ UNCHANGED <<registry, sends, rest, seen, received, oks, messages, thread>>

\* ++totalMessagesReceived without a lock: a load and a store.
Load(l) ==
  /\ Goto(l, "load", "store")
  /\ seen' = [seen EXCEPT ![l] = received]
  /\ UNCHANGED <<registry, sends, req, from, rest, received, oks, messages, thread>>

Store(l) ==
  /\ Goto(l, "store", "route")
  /\ received' = seen[l] + 1
  /\ seen' = [seen EXCEPT ![l] = 0]
  /\ UNCHANGED <<registry, sends, req, from, rest, oks, messages, thread>>

\* Validation, then getAllClients for "all" and getUserSocket for a name.
Invalid(l) == Return(l, "route") /\ UNCHANGED rest

\* Mutated form of ToAll: "all" is taken for a name.
ToAllAsName(l) ==
  /\ ~held /\ Goto(l, "route", "queue") /\ req[l].to = All
  /\ UNCHANGED <<rest, req, from>>
ToAll(l) ==
  /\ ~held /\ Goto(l, "route", "spread") /\ req[l].to = All
  /\ rest' = [rest EXCEPT ![l] = Online \ {from[l]}]
  /\ UNCHANGED <<req, from>>

ToOne(l) ==
  /\ ~held
  /\ \/ /\ Return(l, "route")
        /\ req[l].to # All /\ req[l].to \notin Online
     \/ /\ Goto(l, "route", "queue") /\ UNCHANGED <<req, from>>
        /\ req[l].to # All /\ req[l].to \in Online
  /\ UNCHANGED rest

Route(l) ==
  /\ Invalid(l) \/ ToAll(l) \/ ToOne(l)
  /\ UNCHANGED <<registry, sends, seen, received, oks, messages, thread>>

\* Mutated form of Submit: the result of queueMessage is not looked at.
SubmitUnchecked(l) ==
  /\ Return(l, "queue")
  /\ Queued(Copy(l, req[l].to)) \/ Refused
  /\ oks' = oks \cup {Copy(l, req[l].to)}
  /\ UNCHANGED <<registry, sends, rest, seen, received, cur, settled>>
\* queueMessage for a named recipient: "OK" or "ERROR" to the sender.
Submit(l) ==
  /\ Return(l, "queue")
  /\ \/ Queued(Copy(l, req[l].to)) /\ oks' = oks \cup {Copy(l, req[l].to)}
     \/ Refused /\ UNCHANGED oks
  /\ UNCHANGED <<registry, sends, rest, seen, received, cur, settled>>

\* One turn of the broadcast loop; the result of queueMessage is not looked at.
Spread(l, u) ==
  /\ Goto(l, "spread", "spread") /\ u \in rest[l]
  /\ rest' = [rest EXCEPT ![l] = @ \ {u}]
  /\ Queued(Copy(l, u)) \/ Refused
  /\ UNCHANGED <<registry, sends, req, from, seen, received, oks, cur, settled>>

SpreadDone(l) ==
  /\ Return(l, "spread") /\ rest[l] = {}
  /\ UNCHANGED <<registry, sends, rest, seen, received, oks, messages, thread>>

(***************************************************************************)
(* The dispatcher thread: Dispatcher::run                                  *)
(***************************************************************************)
DGoto(a, b) == dpc = a /\ dpc' = b

\* The predicate of cv.wait is evaluated under the mutex: sleep ...
Sleep ==
  /\ DGoto("check", "asleep") /\ messages = <<>>
  /\ UNCHANGED <<registry, handler, messages, cur, settled>>

\* Mutated form of Take: the newest message is taken.
TakeNewest ==
  /\ DGoto("check", "look") /\ messages # <<>>
  /\ cur' = Last(messages) /\ messages' = Front(messages)
  /\ UNCHANGED <<registry, handler, settled>>
\* ... or take the oldest message and release the mutex.
Take ==
  /\ DGoto("check", "look") /\ messages # <<>>
  /\ cur' = Head(messages) /\ messages' = Tail(messages)
  /\ UNCHANGED <<registry, handler, settled>>

\* cv.wait may wake for no reason.
WakeUp ==
  /\ DGoto("asleep", "check")
  /\ UNCHANGED <<registry, handler, messages, cur, settled>>

\* After the configured delay, getUserSocket of the recipient.
Look ==
  /\ ~held /\ DGoto("look", IF cur.to \in Online THEN "send" ELSE "lookBack")
  /\ UNCHANGED <<registry, handler, messages, cur, settled>>

\* The thread is done with a message; totalMessagesSent, which it alone writes, is
\* the number of messages settled as sent.
Settle(how) ==
  /\ settled' = Append(settled, [msg |-> cur, how |-> how])
  /\ cur' = NoMsg
  /\ UNCHANGED <<registry, handler, messages>>

\* stream.send to the recipient, which may have gone since: a failure is logged.
Send == DGoto("send", "check") /\ (Settle("sent") \/ Settle("failed"))

\* The recipient is gone: getUserSocket of the sender ...
LookBack ==
  /\ ~held
  /\ \/ /\ DGoto("lookBack", "bounce") /\ cur.from \in Online
        /\ UNCHANGED <<registry, handler, messages, cur, settled>>
     \/ /\ DGoto("lookBack", "check") /\ cur.from \notin Online
        /\ Settle("senderGone")

\* ... and stream.send of the error to it, if the name is registered.
Bounce == DGoto("bounce", "check") /\ Settle("returned")

-----------------------------------------------------------------------------
Registry ==
  \/ \E u \in Users : Leave(u) \/ \E l \in Links : Join(l, u)
  \/ Hold \/ Release

HandlerStep(l) ==
  \/ Name(l) \/ Load(l) \/ Store(l) \/ Route(l) \/ Submit(l)
  \/ (\E u \in Users : Spread(l, u)) \/ SpreadDone(l)

Transmit == Send \/ Bounce
Lookups == Look \/ LookBack
Thread == Sleep \/ Take \/ Lookups

Next ==
  \/ Registry
  \/ \E l \in Links, to \in Users \cup {All} : GetSend(l, to)
  \/ \E l \in Links : HandlerStep(l)
  \/ Thread \/ Transmit \/ WakeUp

Spec == Init /\ [][Next]_vars

\* The dispatcher thread runs up to its blocking send, which returns only if the
\* other side reads or its connection fails, and gets clientsMutex if it is free
\* again and again: the heartbeat thread sleeps for seconds between two rounds of
\* PINGs.  Nothing ends such a round, and nothing wakes a thread for no reason.
FairSpec == Spec /\ WF_vars(Sleep \/ Take) /\ SF_vars(Lookups)

-----------------------------------------------------------------------------
(***************************************************************************)
(* Properties                                                              *)
(***************************************************************************)
InHand == IF cur = NoMsg THEN <<>> ELSE <<cur>>
Pending == InHand \o messages

\* Under REJECT the messages, its mutex and the thread's local variable implement
\* Delivery: no accepted message is lost, taken twice or overtaken, and a bounded
\* number of them is held.
Promise == INSTANCE Delivery WITH pending <- Pending, Capacity <- MaxStored + 1
Delivers == Promise!Spec

\* Messages from one connection to one recipient are settled in the order in which
\* their SEND frames were read, broadcast or not, and no frame twice: from the
\* worker through the queue to the dispatcher thread nothing overtakes.
PairwiseFifo ==
  \A i, j \in 1..Len(settled) :
    /\ i < j
    /\ settled[i].msg.via = settled[j].msg.via
    /\ settled[i].msg.to = settled[j].msg.to
    => settled[i].msg.n < settled[j].msg.n

\* A sender that was told "OK" for a message to one recipient was told the
\* truth: under REJECT the message is in the queue, in the dispatcher's hands or
\* settled, however full the queue was when it came.
OkIsKept ==
  Policy = "REJECT" =>
    oks \subseteq Range(Pending) \cup {settled[i].msg : i \in 1..Len(settled)}

IsQueued(l, k) == \E i \in 1..Len(messages) : messages[i].via = l /\ messages[i].n = k

\* Unless one send of the only dispatcher thread blocks for ever, or the heartbeat
\* keeps clientsMutex for ever over a PING nobody reads, no message stays in the
\* queue: it is taken, or evicted under DROP_OLDEST.  The notification of
\* queueMessage is not lost between the predicate of cv.wait and the sleep.
NothingStuck ==
  \/ <>[]held
  \/ <>[](dpc \in {"send", "bounce"})
  \/ \A l \in Links, k \in 1..MaxSends : IsQueued(l, k) ~> ~IsQueued(l, k)

=============================================================================
