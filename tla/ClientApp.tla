----------------------------- MODULE ClientApp -----------------------------
(***************************************************************************)
(* The client program: Client::connect and disconnect, the menu loop of    *)
(* ClientUI in the main thread, and the listener thread that runs          *)
(* MessageHandler::listen and calls ClientUI::onServerEvent.  The two      *)
(* threads share the atomic inCommand, the event queue with                *)
(* lastReceivedEvent (eventQueueMutex) and the inbox (messagesMutex).      *)
(*                                                                         *)
(* The server is the environment.  The worker of the connection answers    *)
(* commands in order; other threads push messages and PINGs in between,    *)
(* take the client's name away and close its socket, which does not wake a *)
(* worker that is blocked in recv.  A step is an access to an atomic, a    *)
(* region under a mutex, or a system call with what no other thread can    *)
(* see.  Time is left open: a wait may time out whenever it has not been   *)
(* answered.                                                               *)
(***************************************************************************)
EXTENDS Naturals, Sequences, FiniteSets, SequencesExt

CONSTANTS
  MaxMessages,  \* bound: MESSAGE frames the server sends
  MaxPings,     \* bound: PING frames the server sends
  MaxCommands,  \* bound: commands the user sends
  MaxFrames     \* bound: all of these, and the loss of the name, together

ASSUME ClientAssumption ==
  {MaxMessages, MaxPings, MaxCommands, MaxFrames} \subseteq Nat

\* What the server may answer to a command: one frame, numbered as the command.
Answers ==
  [LIST_USERS |-> {"USERS"}, GET_LOG |-> {"LOG", "ERROR_MSG"},
   SEND |-> {"OK", "ERROR_MSG"}]
Asks == {"LIST_USERS", "GET_LOG"}

\* Command 0 is CONNECT; its answer, or the reason of a kick, has number 0.
Event ==
  [type : {"MESSAGE"}, n : 1..MaxMessages] \cup [type : {"PING"}, n : 1..MaxPings]
    \cup [type : {"OK", "ERROR_MSG", "USERS", "LOG"}, n : 0..MaxCommands]
Command ==
  [cmd : DOMAIN Answers \cup {"CONNECT", "DISCONNECT", "PONG"},
   n : 0..(MaxCommands + MaxPings)]
None == [type |-> "NONE", n |-> 0]

VARIABLES
  srv,        \* the connection at the server, and where its worker is
  entry,      \* the client's entry in Server::clients
  toServer,   \* frames sent and not read by the server
  toClient,   \* frames sent and not read by the client
  pushed,     \* MESSAGE and PING frames sent so far
  upc,        \* where the main thread is
  asked,      \* the last command sent: its name and number
  lpc,        \* where the listener thread is
  ev,         \* its local variable event
  inCommand,  \* ClientUI::inCommand
  last,       \* ClientUI::lastReceivedEvent
  pending,    \* ClientUI::pendingEvents
  unread,     \* MessageHandler::unreadMessages: index and message
  read,       \* MessageHandler::readMessages
  counter,    \* MessageHandler::messageCounter
  heard,      \* history: events the listener has taken
  shown,      \* history: how often an event has been displayed
  timedOut    \* history: has a wait timed out?

server == <<srv, entry, toServer, toClient, pushed>>
inbox == <<unread, read, counter>>
notices == <<inCommand, last, pending, shown>>
listener == <<lpc, ev, heard>>
vars == <<server, upc, asked, timedOut, listener, notices, inbox>>

Entry == [index : Nat, n : 1..MaxMessages]

\* Types, and where each thread can be.
TypeOK ==
  /\ srv \in {"fresh", "registered", "told", "refused", "cut", "closed"}
  /\ entry \in {"none", "ours", "warned", "lost", "missed"}
  /\ toServer \in Seq(Command)
  /\ toClient \in Seq(Event)
  /\ pushed \in [messages : 0..MaxMessages, pings : 0..MaxPings]
  /\ upc \in {"start", "hello", "refused", "print", "menu", "sending", "opened",
              "asked", "waiting", "answered", "late", "pause", "badPause", "leaving",
              "joining", "done"}
  /\ asked \in Command
  /\ lpc \in {"off", "recv", "check", "queue", "show", "note", "ended"}
  /\ ev \in Event \cup {None}
  /\ inCommand \in BOOLEAN /\ timedOut \in BOOLEAN
  /\ last \in {"NONE", "MESSAGE", "OK", "ERROR_MSG", "USERS", "LOG"}
  /\ pending \in Seq(Event)
  /\ unread \in Seq(Entry) /\ read \in Seq(Entry)
  /\ counter \in Nat
  /\ heard \in SUBSET Event
  /\ shown \in [Event -> Nat]

Init ==
  /\ srv = "fresh" /\ entry = "none" /\ toServer = <<>> /\ toClient = <<>>
  /\ pushed = [messages |-> 0, pings |-> 0]
  /\ upc = "start" /\ asked = [cmd |-> "CONNECT", n |-> 0]
  /\ lpc = "off" /\ ev = None /\ heard = {}
  /\ timedOut = FALSE /\ inCommand = FALSE /\ last = "NONE" /\ pending = <<>>
  /\ shown = [e \in Event |-> 0]
  /\ unread = <<>> /\ read = <<>> /\ counter = 0

(***************************************************************************)
(* The server                                                              *)
(***************************************************************************)
Room ==
  pushed.messages + pushed.pings + asked.n + Cardinality({entry} \ {"none", "ours"})
    < MaxFrames
client == <<upc, asked, timedOut, listener, notices, inbox>>
Tell(type, n) == toClient' = Append(toClient, [type |-> type, n |-> n])

\* handleConnect registers the name first and replies after ...
SrvRegister ==
  /\ srv = "fresh" /\ toServer # <<>>
  /\ srv' = "registered" /\ entry' = "ours" /\ toServer' = Tail(toServer)
  /\ UNCHANGED <<toClient, pushed, client>>

SrvWelcome ==
  /\ srv = "registered"
  /\ srv' = "told" /\ Tell("OK", 0)
  /\ UNCHANGED <<entry, toServer, pushed, client>>

\* ... or refuses an invalid, banned or taken name.
SrvRefuse ==
  /\ srv = "fresh" /\ toServer # <<>>
  /\ srv' = "refused" /\ toServer' = Tail(toServer) /\ Tell("ERROR_MSG", 0)
  /\ UNCHANGED <<entry, pushed, client>>

\* Does the worker find a name by its socket?
Named == entry \in {"ours", "warned"}

\* handleDisconnect closes the socket, unless it finds no name: then it returns.
SrvDisconnect ==
  \/ Named /\ entry' = "none" /\ srv' = "closed"
  \/ ~Named /\ entry' = "missed" /\ UNCHANGED srv

\* The worker of the connection handles one command.
SrvAnswer ==
  /\ srv = "told" /\ toServer # <<>>
  /\ toServer' = Tail(toServer)
  /\ LET c == Head(toServer) IN
       \/ /\ c.cmd \in DOMAIN Answers /\ UNCHANGED <<srv, entry>>
          /\ \E type \in Answers[c.cmd] :
               (c.cmd = "SEND" /\ ~Named => type = "ERROR_MSG") /\ Tell(type, c.n)
       \/ c.cmd = "PONG" /\ UNCHANGED <<srv, entry, toClient>>
       \/ c.cmd = "DISCONNECT" /\ SrvDisconnect /\ UNCHANGED toClient
  /\ UNCHANGED <<pushed, client>>

\* The dispatcher or the admin sends a message to a name it has looked up ...
SrvPush ==
  /\ srv \in {"registered", "told"} /\ pushed.messages < MaxMessages /\ Room
  /\ pushed' = [pushed EXCEPT !.messages = @ + 1]
  /\ Tell("MESSAGE", pushed'.messages)
  /\ UNCHANGED <<srv, entry, toServer, client>>

\* ... the heartbeat a PING to a name in the map ...
SrvPing ==
  /\ srv \in {"registered", "told"} /\ Named /\ pushed.pings < MaxPings /\ Room
  /\ pushed' = [pushed EXCEPT !.pings = @ + 1]
  /\ Tell("PING", pushed'.pings)
  /\ UNCHANGED <<srv, entry, toServer, client>>

\* ... and the admin the reason of a kick, before disconnectUser goes on.
SrvWarn ==
  /\ srv \in {"registered", "told"} /\ entry = "ours" /\ Room
  /\ entry' = "warned" /\ Tell("ERROR_MSG", 0)
  /\ UNCHANGED <<srv, toServer, pushed, client>>

\* A kick or a timeout erases the name, or another CONNECT takes it over ...
SrvForget ==
  /\ srv \in {"registered", "told"} /\ (entry = "warned" \/ (entry = "ours" /\ Room))
  /\ entry' = "lost"
  /\ UNCHANGED <<srv, toServer, toClient, pushed, client>>

\* ... and the kick or the timeout closes the socket.  While the worker is blocked
\* in recv the connection stays as it is ...
SrvCut ==
  /\ entry \in {"lost", "missed"}
  /\ \/ srv \in {"registered", "told"} /\ srv' = "closed" /\ entry' = "none"
     \/ srv = "told" /\ srv' = "cut" /\ entry' = "lost"
  /\ UNCHANGED <<toServer, toClient, pushed, client>>

\* ... until the next frame lets recv return; the next recv fails (EBADF).
SrvDrop ==
  /\ srv = "cut" /\ toServer # <<>>
  /\ srv' = "closed" /\ entry' = "none" /\ toServer' = Tail(toServer)
  /\ UNCHANGED <<toClient, pushed, client>>

\* The server process ends.
SrvEnd ==
  /\ srv # "closed" /\ srv' = "closed" /\ entry' = "none"
  /\ UNCHANGED <<toServer, toClient, pushed, client>>

(***************************************************************************)
(* The main thread: Client::connect                                        *)
(***************************************************************************)
UGoto(a, b) == upc = a /\ upc' = b /\ UNCHANGED timedOut
Submit(cmd, n) == toServer' = Append(toServer, [cmd |-> cmd, n |-> n])

\* The socket cannot be made or connected, or CONNECT cannot be sent ...
ConnectFails ==
  UGoto("start", "refused") /\ UNCHANGED <<server, asked, listener, notices, inbox>>

\* ... or CONNECT is sent and the answer awaited.
Connect ==
  /\ UGoto("start", "hello") /\ srv = "fresh" /\ Submit("CONNECT", 0)
  /\ UNCHANGED <<srv, entry, toClient, pushed, asked, listener, notices, inbox>>

\* The first frame decides: with OK the listener is started, with anything else,
\* or the end of the stream, the socket is closed.
Negotiated ==
  /\ toClient # <<>> /\ toClient' = Tail(toClient)
  /\ IF Head(toClient).type = "OK"
       THEN UGoto("hello", "print") /\ lpc' = "recv"
       ELSE UGoto("hello", "refused") /\ UNCHANGED lpc
  /\ UNCHANGED <<srv, entry, toServer, pushed, asked, ev, heard, notices, inbox>>

NoAnswer ==
  /\ UGoto("hello", "refused") /\ toClient = <<>> /\ srv = "closed"
  /\ UNCHANGED <<server, asked, listener, notices, inbox>>

(***************************************************************************)
(* The main thread: the menu loop of ClientUI::run                         *)
(***************************************************************************)
Menu ==
  /\ UGoto("print", "menu") /\ inCommand' = FALSE
  /\ UNCHANGED <<server, asked, listener, last, pending, shown, inbox>>

\* A line is read; events are held back while it is processed.
Choose(to) ==
  /\ UGoto("menu", to) /\ inCommand' = TRUE
  /\ UNCHANGED <<server, asked, listener, last, pending, shown, inbox>>

\* The number of the next command, and sendCommand.
SendCommand(cmd) ==
  /\ asked.n < MaxCommands /\ Room
  /\ asked' = [cmd |-> cmd, n |-> asked.n + 1]
  /\ Submit(cmd, asked'.n)
  /\ UNCHANGED <<srv, entry, toClient, pushed>>

\* cmdSendMessage, the reply to a message that was opened, or no command.
Compose ==
  /\ UGoto("sending", "pause") \/ UGoto("opened", "pause")
  /\ SendCommand("SEND") \/ UNCHANGED <<asked, server>>
  /\ UNCHANGED <<listener, notices, inbox>>

\* Mutated form of OpenUnread: the oldest entry is erased, not the one found.
OpenUnreadFront(i) ==
  /\ UGoto("sending", "opened")
  /\ \E k \in 1..Len(unread) :
       /\ unread[k].index = i
       /\ read' = Append(read, unread[k])
       /\ unread' = Tail(unread)
  /\ UNCHANGED <<asked, server, listener, notices, counter>>
\* cmdReadMessage: readMessageByIndex of an unread message.
OpenUnread(i) ==
  /\ UGoto("sending", "opened")
  /\ \E k \in 1..Len(unread) :
       /\ unread[k].index = i
       /\ read' = Append(read, unread[k])
       /\ unread' = RemoveAt(unread, k)
  /\ UNCHANGED <<asked, server, listener, notices, counter>>

\* cmdListUsers and cmdGetLog: the command, then waitForResponse.
Ask(cmd) ==
  /\ UGoto("sending", "asked") /\ SendCommand(cmd)
  /\ UNCHANGED <<listener, notices, inbox>>

Accept ==
  /\ UGoto("asked", "waiting") /\ inCommand' = FALSE
  /\ UNCHANGED <<server, asked, listener, last, pending, shown, inbox>>

\* The event waitForResponse looks for.
Expected == IF asked.cmd = "LIST_USERS" THEN "USERS" ELSE "LOG"

\* Mutated form of PollHit: the event found is not reset.
PollHitKeeps ==
  /\ UGoto("waiting", "answered") /\ last = Expected
  /\ UNCHANGED <<server, asked, listener, notices, inbox>>
PollHit ==
  /\ UGoto("waiting", "answered") /\ last = Expected
  /\ last' = "NONE"
  /\ UNCHANGED <<server, asked, listener, inCommand, pending, shown, inbox>>

TimeOut ==
  /\ upc = "waiting" /\ upc' = "late" /\ timedOut' = TRUE
  /\ UNCHANGED <<server, asked, listener, notices, inbox>>

Resume ==
  /\ upc \in {"answered", "late"} /\ upc' = "pause"
  /\ inCommand' = TRUE
  /\ UNCHANGED <<server, asked, timedOut, listener, last, pending, shown, inbox>>

\* Mutated form of DisplayPending: the last event stays in the queue.
DisplayPendingKeepsLast ==
  /\ UGoto("pause", "print")
  /\ shown' = [e \in Event |-> shown[e] + (IF e \in Range(pending) THEN 1 ELSE 0)]
  /\ pending' = IF pending = <<>> THEN pending ELSE <<Last(pending)>>
  /\ UNCHANGED <<server, asked, listener, inCommand, last, inbox>>
\* promptAndWait, then displayPendingEvents.
DisplayPending ==
  /\ UGoto("pause", "print")
  /\ shown' = [e \in Event |->
                 shown[e] + Cardinality({i \in 1..Len(pending) : pending[i] = e})]
  /\ pending' = <<>>
  /\ UNCHANGED <<server, asked, listener, inCommand, last, inbox>>

\* An invalid choice: promptAndWait alone.
BadChoice ==
  UGoto("badPause", "print") /\ UNCHANGED <<server, asked, listener, notices, inbox>>

(***************************************************************************)
(* The main thread: Client::disconnect                                     *)
(***************************************************************************)
\* Mutated form of Leave: the server is not told.
LeaveSilently ==
  UGoto("leaving", "joining") /\ UNCHANGED <<server, asked, listener, notices, inbox>>
Leave ==
  /\ UGoto("leaving", "joining") /\ Submit("DISCONNECT", 0)
  /\ UNCHANGED <<srv, entry, toClient, pushed, asked, listener, notices, inbox>>

\* The listener is joined, then the socket closed.
Joined ==
  /\ UGoto("joining", "done") /\ lpc = "ended"
  /\ UNCHANGED <<server, asked, listener, notices, inbox>>

(***************************************************************************)
(* The listener thread: MessageHandler::listen and onServerEvent           *)
(***************************************************************************)
LGoto(a, b) == lpc = a /\ lpc' = b

\* Mutated form of Store: the index is the number of unread messages.
StoreAtLength(n) ==
  /\ unread' = Append(unread, [index |-> Len(unread), n |-> n])
  /\ counter' = counter + 1 /\ UNCHANGED read
\* storeMessage.
Store(n) ==
  /\ unread' = Append(unread, [index |-> counter, n |-> n])
  /\ counter' = counter + 1 /\ UNCHANGED read

\* Mutated form of Hear: a PING is answered and also handed to onServerEvent.
HearNoContinue ==
  /\ LGoto("recv", "check") /\ toClient # <<>>
  /\ toClient' = Tail(toClient)
  /\ LET e == Head(toClient) IN
       /\ heard' = heard \cup {e} /\ ev' = e
       /\ IF e.type = "PING" THEN Submit("PONG", e.n) ELSE UNCHANGED toServer
       /\ IF e.type = "MESSAGE" THEN Store(e.n) ELSE UNCHANGED inbox
  /\ UNCHANGED <<srv, entry, pushed, upc, asked, timedOut, notices>>
\* receive returns a frame: a message is stored, a PING answered at once.
Hear ==
  /\ lpc = "recv" /\ toClient # <<>>
  /\ toClient' = Tail(toClient)
  /\ LET e == Head(toClient) IN
       /\ heard' = heard \cup {e}
       /\ IF e.type = "PING"
            THEN Submit("PONG", e.n) /\ UNCHANGED <<lpc, ev>>
            ELSE lpc' = "check" /\ ev' = e /\ UNCHANGED toServer
       /\ IF e.type = "MESSAGE" THEN Store(e.n) ELSE UNCHANGED inbox
  /\ UNCHANGED <<srv, entry, pushed, upc, asked, timedOut, notices>>

EndOfStream ==
  /\ LGoto("recv", "ended") /\ toClient = <<>> /\ srv = "closed"
  /\ UNCHANGED <<server, upc, asked, timedOut, ev, heard, notices, inbox>>

\* Mutated form of Check: the listener waits until the command is over.
CheckWaiting ==
  /\ LGoto("check", "show") /\ ~inCommand
  /\ UNCHANGED <<server, upc, asked, timedOut, ev, heard, notices, inbox>>
\* onServerEvent reads inCommand ...
Check ==
  /\ LGoto("check", IF inCommand THEN "queue" ELSE "show")
  /\ UNCHANGED <<server, upc, asked, timedOut, ev, heard, notices, inbox>>

\* ... and queues the event, unless it is an OK ...
Queue ==
  /\ LGoto("queue", "recv") /\ ev' = None
  /\ pending' = IF ev.type = "OK" THEN pending ELSE Append(pending, ev)
  /\ UNCHANGED <<server, upc, asked, timedOut, heard, inCommand, last, shown, inbox>>

\* ... or displays it and then records its type for waitForResponse.
Show ==
  /\ LGoto("show", "note")
  /\ shown' = [shown EXCEPT ![ev] = @ + 1]
  /\ UNCHANGED <<server, upc, asked, timedOut, ev, heard, inCommand, last, pending, inbox>>

Note ==
  /\ LGoto("note", "recv") /\ ev' = None
  /\ last' = ev.type
  /\ UNCHANGED <<server, upc, asked, timedOut, heard, inCommand, pending, shown, inbox>>

-----------------------------------------------------------------------------
Server ==
  \/ SrvRegister \/ SrvWelcome \/ SrvRefuse \/ SrvAnswer
  \/ SrvPush \/ SrvPing \/ SrvWarn \/ SrvForget \/ SrvCut \/ SrvDrop
  \/ SrvEnd

Connecting == ConnectFails \/ Connect \/ Negotiated \/ NoAnswer

\* What the user types.
User ==
  \/ \E to \in {"sending", "badPause", "leaving"} : Choose(to)
  \/ Compose \/ (\E i \in 0..counter : OpenUnread(i)) \/ (\E cmd \in Asks : Ask(cmd))
  \/ DisplayPending \/ BadChoice

\* What the main thread does of itself.
Main ==
  \/ Connecting \/ Menu \/ Accept \/ PollHit \/ TimeOut \/ Resume
  \/ Leave \/ Joined

Listener == Hear \/ EndOfStream \/ Check \/ Queue \/ Show \/ Note

Next == Server \/ User \/ Main \/ Listener

Spec == Init /\ [][Next]_vars

\* The threads of the client run; the user may stay in a prompt for ever.
FairSpec ==
  /\ Spec
  /\ WF_vars(Main) /\ WF_vars(Listener)

\* The worker of the server goes on.  It need not: DISCONNECT and most commands
\* take clientsMutex, and the heartbeat may keep that for ever over a PING nobody reads.
WorkerRuns == WF_vars(SrvRegister \/ SrvWelcome \/ SrvAnswer \/ SrvDrop)

-----------------------------------------------------------------------------
(***************************************************************************)
(* Properties                                                              *)
(***************************************************************************)
Count(s, e) == Cardinality({i \in 1..Len(s) : s[i] = e})
InHand(e) == IF ev = e /\ lpc \in {"check", "queue", "show"} THEN 1 ELSE 0

\* Every event the listener has taken but OK and PING is displayed once: it is on
\* the screen, in the queue of pending events or in the listener's hands, and
\* in one of them only, whatever the main thread does with inCommand meanwhile.
AnnouncedOnce ==
  \A e \in heard :
    e.type \notin {"OK", "PING"} =>
      shown[e] + Count(pending, e) + InHand(e) = 1

\* Every message the listener has taken is in the inbox once, unread or read,
\* and an index names one message.
InboxKeepsAll ==
  LET all == unread \o read IN
    /\ \A e \in heard : e.type = "MESSAGE" =>
         Cardinality({i \in 1..Len(all) : all[i].n = e.n}) = 1
    /\ \A i, j \in 1..Len(all) : all[i].index = all[j].index => i = j

\* An index the user has seen names the same message for good, however many are
\* stored by the listener or opened between the list and the choice, and a
\* message once read does not become unread (readMessageByIndex).
IndexesLast ==
  [][ /\ Range(unread \o read) \subseteq Range(unread' \o read')
      /\ Range(read) \subseteq Range(read') ]_inbox

\* Every PING of an established session is answered, also while the user sits in a
\* prompt: the listener never waits for the main thread.
PingsAnswered ==
  \A n \in 1..MaxPings :
    (lpc # "off" /\ \E i \in 1..Len(toClient) : toClient[i] = [type |-> "PING", n |-> n])
      ~> [type |-> "PING", n |-> n] \in heard

\* "7. Quit" ends the program if the worker of the server goes on: DISCONNECT makes
\* it close, or notice that its socket was closed behind its back, and that ends the
\* listener that disconnect joins.  The one exception: the DISCONNECT is read when
\* the client has lost its name and not yet its socket.
QuitEnds ==
  WorkerRuns => ((upc = "leaving") ~> (upc = "done" \/ entry = "missed"))

\* The answer to the last command has gone through onServerEvent.
Answered ==
  \E e \in heard : e.n = asked.n /\ e.type \in Answers[asked.cmd] /\ ev # e

\* As long as no wait has timed out, a wait that ends with an event ends with the
\* answer to its own command, although waitForResponse compares types only: a
\* late answer is the only one that can be taken for another.
AnswerIsOurs == upc = "answered" /\ ~timedOut => Answered

=============================================================================
