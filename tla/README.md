# SocketMessaging: TLA+ models, checks and proofs

This directory models the C++17 messaging server and client of this repository
in TLA+, checks the models with TLC on small instances, and proves the safety
properties of every component with TLAPS for instances of any size. Source files
are given by their names; `README.md` with a line number is the repository's own.

## The system

| component | state | operations | used by |
|---|---|---|---|
| Session registry (`Server.cpp`, `CommandHandler.cpp`) | `clients` (name → socket, under `clientsMutex`), the sockets | `acceptClients`, `handleClientMessages`, `handleConnect`, `handleDisconnect` | workers, heartbeat, admin, dispatcher |
| Thread pool (`ThreadPool.cpp`) | task queue, `stop` | `enqueue`, worker loop, destructor | acceptor |
| Heartbeat (`Server.cpp`) | `lastPong` of each session | PING to everybody each 30 s, 5 s later end the sessions silent for more than 90 s | its own thread |
| Ban list (`Server.cpp`) | `bannedUsers` (`bannedUsersMutex`), the file `banlist` | load, save, add, remove, test | admin, `handleConnect` |
| Admin shell (`AdminCommandHandler.cpp`) | – | `/kick`, `/ban`, `/unban`, `/send`, `/broadcast`, `/set`, `/reset`, `/stop`, queries | its own thread |
| SEND handler (`CommandHandler.cpp`) | the counter `totalMessagesReceived` | validate, expand a broadcast, queue, answer | workers |
| Dispatcher (`Dispatcher.cpp`) | bounded queue, mutex, condition variable | `queueMessage` (three policies), `run` | workers, its own thread |
| Client connection (`Client.cpp`) | socket, listener thread | `connect`, `startListening`, `disconnect` | main thread |
| Client message handler (`MessageHandler.cpp`) | inbox: unread, read, next index (`messagesMutex`) | `listen`, `storeMessage`, `readMessageByIndex`, `replyToMessage` | both client threads |
| Client UI (`ClientUI.cpp`) | `inCommand`, `pendingEvents`, `lastReceivedEvent` | menu loop, `waitForResponse`, `onServerEvent`, `displayPendingEvents` | both client threads |
| Framing, parser, utilities | – | length prefix, `;`-separated fields, sanitizing, validation | everybody |
| Runtime configuration | key → text | `set`, `reset`, `getInt` | admin, validation |
| Lifecycle (`Server::start`, `stop`, `main_server.cpp`) | `status` | start, stop, signal handler | main, admin, signals |

How they interact. The acceptor queues one task per connection; a pool worker
runs `handleClientMessages` for it until the connection ends, calling the
command handlers. Handlers, heartbeat, admin and dispatcher share `clients` and
identify a session by a descriptor *number*: they look it up under the mutex and
use it after releasing it. Messages go from a worker through the dispatcher's
queue to one thread that writes to the recipient's socket. In the client the
listener thread hands events to the UI through an atomic flag and a queue.

What is hard: every handler is a sequence of short critical sections, so the
races are *between* them; three kinds of threads can end one session; a closed
number can name another connection; `close` does not wake a blocked `recv`; the
client's main thread waits for events another thread delivers, with a timeout.
`PROJECT.json` lists the hazards with their lines.

What makes each part correct: a registered name has an open socket and a reader,
a name has one session, a ban keeps its name out, a dead session goes; an
accepted message is settled once, in order, or its sender is told; an event the
client took is announced once and a message kept; waits end with their own
answer; quitting ends; frames arrive whole; a text arrives as written under the
name of its sender; bans outlive the process and `/stop` ends it. Some of these
hold only under conditions the code does not ensure: such a property names its
condition, and the findings and the list below say what happens without it.

## Modules

| module | models | status |
|---|---|---|
| `Sessions` | registry, workers, heartbeat sweep, `/kick` `/ban` `/unban` | checked, proved |
| `SessionsProofs` | theorems about `Sessions` | proved |
| `Heartbeat` | PING, PONG and timeouts in discrete time, the blocking send under `clientsMutex` | checked, proved |
| `HeartbeatProofs` | theorems about `Heartbeat` | proved |
| `Lifecycle` | start, stop, signals, thread pool, ban list and its file, exit and restart | checked, proved |
| `LifecycleProofs` | theorems about `Lifecycle` | proved |
| `Stream` | length-prefixed frames on one socket, several sending threads | checked, proved |
| `StreamProofs` | theorems about `Stream` | proved |
| `Delivery` | abstract specification: what the dispatcher promises | |
| `Dispatcher` | SEND handler, queue, dispatcher thread; implements `Delivery` | checked, proved |
| `DispatcherProofs` | theorems about `Dispatcher`, the refinement among them | proved |
| `MessageParser` | operators: `split`, `parse`, `build`, `sanitize` | proved, used by the next two |
| `MessageParserProofs` | theorems about these operators, for texts of any length | proved |
| `RuntimeConfig` | `set`, `reset`, `getInt`, `validateValue`, `std::stoi` | used by the next |
| `MessagePath` | a text from `sendMessage` or `/send` to the recipient's inbox and the reply | checked, proved |
| `MessagePathProofs` | theorems about `MessagePath` | proved |
| `ClientApp` | the client program with the server as environment | checked, proved |
| `ClientAppProofs` | theorems about `ClientApp` | proved |
| `MC...` | the instances for TLC: symmetry sets, scaled settings | |

### Sessions

A step is one region under a mutex or one system call. `clients` is the map;
`fdt` is the kernel's descriptor table (number → connection) and `file` the
connection a blocked `recv` holds: the two differ after a `close` by another
thread. `pc`, `sock`, `name`, `streamOk`, `late` are the threads' local
variables. A worker goes `idle → recv → blocked`, then, by the frame chosen when
`recv` returns, through `banCheck → takenCheck → register → reply`
(`handleConnect`), `lookup → unregister → close` (`handleDisconnect`), `gone`
(end of the stream, or a frame `receive` refuses) or straight back to `recv`.
Heartbeat and admin run the same `lookup/unregister/close` steps on sockets they
take from the map. `accept` may return any number that is closed, at once. A
client may send CONNECT as often as it likes. The heartbeat keeps `clientsMutex`
from `StartPings` to `PingsDone`, and every region under that mutex waits for it
(`MutexFree`).

`told`, `conn`, `met`, `again` and `crossed` are history. `conn` is the connection a
thread's number named when the thread got it; `crossed` is set when the thread
uses the number for another one, and `again` when a connection that was registered
sends a valid CONNECT again. Until one of the two happens (`Clean`) the map is
sound, whatever the threads do to one session at the same time and however fast
numbers are reused. Afterwards it is not: `ListedOpen` is the finding for the
first, and the list below describes the second.

Abstractions: which sessions are overdue is left open (that is `Heartbeat`);
replies other than "Connected as" have no effect on the registry and are left out.

### Heartbeat

`heartbeatLoop` as `sleep → ping → wait → end`: the PING loop keeps
`clientsMutex` from `StartPings` to `PingsDone`, so `registerClient`,
`unregisterClient` and both halves of `handlePong` are disabled meanwhile.
`registerClient` may overwrite an entry, as in the code. `age` is `now - lastPong`.
A `Tick` passes only while the thread sleeps or its `send` is blocked: a thread that
can run does so before the next `Tick`, because scheduling delays are small beside
seconds. `Responsive` clients have every PING
answered, and their worker at `handlePong`, within `Answer` ticks, less than
`CheckDelay`; the others may stop reading until a send to them blocks, read on,
or end. `age` is capped at `MaxAge`, above which no guard or property tells ages
apart. `held` is history: has a send blocked the loop? `waitingForPong` is
written by the code and read nowhere, and is left out.

### Lifecycle

One server process after another. `main` is the main thread from `start` to the
destructor of the pool; `stopping` says where each caller of `Server::stop` is:
the admin (`/stop`), the handler of a first signal, which runs on the main thread,
and the handler of a second one, which the kernel gives to another thread (or to
main again, if the two signals differ). `under` says what a handler has interrupted:
that thread goes no further, and keeps what it holds. This matters for a thread
inside `Logger::log` ("logger"), whose mutex `stop` takes for "Stopping server..."
and "Server stopped", and for one that holds `clientsMutex` ("holder", or the
heartbeat in its PINGs); the main thread logs only while it starts and launches its
threads. `stop` is the test of `status`, the log and the assignment, the region
under `clientsMutex`, the log and `std::exit`, as separate steps. `wpc` has the
worker loop of `ThreadPool` with its condition variable (`sleepy` has found
nothing and still holds `queueMutex`); `poolStop` is set and notified without
that mutex, as in `~ThreadPool`. The heartbeat is only the holder of
`clientsMutex`.

`banlist` is the file: `SaveOpen` empties it, `SaveWrite` fills it with all names or,
when a write fails, with any others, and the process may end in between. A start may
read any part of it (`Load`): the code takes a file it cannot open for an empty one,
and the next save overwrites it. `wanted` and `fileBad` are history: the bans asked
for but for those a start has lost, and whether the last save or load went wrong.

### Stream

One direction of a connection. `rest` holds what each sending thread has still to
copy, `wire` the socket buffers with `Capacity` cells; a frame is a prefix cell
and its payload cells. A `send` that fits is one step; a larger one copies what
fits, and another thread may copy in between. `decodeMessage` reads the prefix,
tests it, and reads the payload cell by cell; a payload cell read as a prefix
gives any length. The sending side may close (the buffers still arrive) or the
connection may be reset (they do not). `split` is history: was a frame cut by
cells of another?

### Delivery and Dispatcher

`Delivery` is a bounded queue whose messages are settled one by one in the order
in which they were taken. `Dispatcher` has the worker of each link (connection)
at `name → load → store → route → queue | spread`, the queue with the policy, and
the thread at `check → asleep`, `check → look → send`, or `look → lookBack → bounce`
when the recipient is gone. The heartbeat may hold `clientsMutex` (`Hold`,
`Release`, `held`), and the lookups of handlers and thread wait for it. A link may
register under any name between two frames, also under several. The refinement
maps `pending` to the message in the thread's hands followed by the queue, so the
capacity is `MaxStored + 1`. `notify_one` and the sleep of `cv.wait` are separate
steps, with spurious wakeups. `settled` and `oks` (the messages to one recipient
whose sender was told OK) are history. A message is identified by its link, the
number of the SEND frame and its recipient. The repository configures REJECT; the
other policies are reachable through `DispatcherConfig` only. The delay between
messages and time stamps have no effect on what is stated.

### MessageParser, RuntimeConfig and MessagePath

A string is a sequence of symbols: the characters the code tells apart (`;`,
newline, another control character, blank, sign, digits) and words where it does
not; `Symbols` is the set of them and `Text` that of all strings over it. `split` is
stated without its loop: the tokens are the texts between the positions of the
delimiters (`Bound`), which lets it be reasoned about for texts of any length. That
the find/substr loop of `Utils::split` computes the same is checked by TLC on every
text up to six symbols (`SplitAssumption`), and `SplitIsTheLoop` proves for all
texts that each position is where the loop's `find` stops.

`MessagePath` follows one message at a time through `sendMessage`,
`handleSendMessage`, `Dispatcher::run`, `parseMessage` and `storeMessage`, and back by `replyToMessage`, while `/set` and `/reset` change the server's limits.
The client validates with a `RuntimeConfig` of its own that nobody sets, so with
the defaults. The limits are scaled (2 symbols, 1 to 3) so that texts meet them
from both sides. `stoi` accepts a number followed by anything, as the library
does, and `IntMax` is its range.

### ClientApp

`upc` is the main thread (`connect`, the menu loop, `waitForResponse`,
`disconnect`), `lpc` the listener (`recv → check → queue | show → note`). The
read of `inCommand` and what follows from it are separate steps, as in
`onServerEvent`. The worker of the server answers the commands of the connection in order; other
threads push MESSAGE and PING frames once the name is registered (which is before
the OK), and may end the session. `entry` is the client's entry in the map: "ours",
"warned" (a kick has said why), "lost" (erased, or taken over by another CONNECT)
and "missed" (a DISCONNECT was read meanwhile, and `handleDisconnect` found no
name). A socket closed by another thread gives the client the end of the stream only
if the worker is not in `recv` at the time; otherwise the connection is "cut", and
stays until the next frame lets `recv` return (`SrvCut`, `SrvDrop`). `MaxFrames`
bounds the frames sent, and the losses of the name with them. Time is left open: a
wait may time out at any point, which the history `timedOut` remembers. A reply to
a message that was opened is a SEND of `Compose`; reading a message already read, or
one that does not exist, changes nothing and is part of `Compose`.

## Runs

Passing runs:

| run | shows | instance |
|---|---|---|
| `sessions` | `TypeOK`, `RegisteredOpen`, `RegisteredServed`, `ExclusiveReader`, `BanSettles`, `DeadPeerLeaves` under `FairSpec` | 1 name, 2 connections, 2 numbers, 2 workers, heartbeat, admin; not explored beyond a state that is not `Clean` |
| `heartbeat` | `TypeOK`, `AnsweringStays`, `EndedInTime` | one responsive client, one that is not; 12, 2 and 36 ticks, answer within 1 |
| `lifecycle` | `TypeOK`, `QueuedHaveWorkers`, `BansKept`, `StopEnds`, `SecondSignalEnds` under `FairSpec` | 1 name, 2 workers, 2 queued connections (1 while a `stop` runs, 0 after a second signal), any number of restarts |
| `stream` | `TypeOK`, `FramesIntact`, `ClosedForCause`, `FramesArrive` under `FairSpec` | 2 senders, 2 frames of 1 to 4 cells, limit 3, buffer of 2 |
| `message_path` | `TypeOK`, `PlainTextArrives`, `HeaderIsTheServers`, `SettingsUsable`, `ClientChecksSuffice` | 2 names, all texts up to 2 symbols of a letter, `;` and a control character, 7 values for `/set`; `split` against the loop on all texts up to 6 symbols |
| `dispatcher_safe` | `TypeOK`, `PairwiseFifo`, `OkIsKept`, refinement `Delivers` | 2 names, 2 links, 3 SENDs, at most 2 of one link, until 2 messages are settled; queue of 2, REJECT |
| `dispatcher_live` | `NothingStuck` under `FairSpec` | 2 links, 1 SEND each, queue of 1, DROP_OLDEST |
| `client_app` | `TypeOK`, `AnnouncedOnce`, `InboxKeepsAll`, `IndexesLast`, `AnswerIsOurs`, `PingsAnswered`, `QuitEnds` under `FairSpec` | 2 messages, 1 PING, 2 commands, the loss of the name; 3 of these together |

Runs in which TLC finds what the code does against what the repository says
(each is a finding in `PROJECT.json`, with the quoted line):

| run | property | what happens |
|---|---|---|
| `sessions_names` | `UniqueNames` | two CONNECTs pass `isUsernameTaken` before either registers |
| `sessions_reuse` | `ListedOpen` | after a refusal closed its socket, a worker reads on under the number, which names the next client by now; that client is registered, and closed by the other worker |
| `heartbeat_stall` | `OverdueIsEnded` | a PING to a client that does not read blocks with `clientsMutex` held; nobody is ended any more |
| `stream_split` | `ReceivedWasSent` | two threads' frames interleave on one socket; the receiver returns a mixture |

Conditions. Each is an event the model contains and the code does not exclude:

- the `Sessions` invariants and `DeadPeerLeaves` hold while the registry is `Clean`
  (above), `DeadPeerLeaves` and `NothingStuck` unless the heartbeat keeps
  `clientsMutex` for ever, `NothingStuck` also unless one send of the dispatcher
  blocks for ever, and `EndedInTime` while no send has blocked the PING loop (`held`);
- `StopEnds` unless the heartbeat is blocked, or a signal handler waits for a mutex
  that the thread it interrupted, or a thread stopped by the other handler, holds
  (`Hung`);
- `BansKept` but for the bans a start loses: the last save did not complete, or the
  file was not read to its end;
- the `Stream` invariants while no frame was cut (`split`), `AnswerIsOurs` while no
  wait has timed out, `PlainTextArrives` for texts without delimiter,
  `ClientChecksSuffice` while the limits are the defaults;
- `QuitEnds` if the worker of the server goes on (`WorkerRuns`), and unless DISCONNECT
  is read when the client has lost its name and not its socket.

Other behaviour that the models contain and no run is about:

- `/ban` disconnects first and bans afterwards (`AdminCommandHandler.cpp:158`): a
  user who reconnects in between is connected and banned; `BanSettles` says when a
  ban holds from then on.
- The heartbeat ends overdue users by name, after unlocking (`Server.cpp:273`): it
  may end the session a user has just opened (`EndLate`, and `Sessions`).
- A registered client may say CONNECT again (`CommandHandler.cpp:57`). With another
  name its socket has two entries; DISCONNECT erases one of them and closes the
  socket, and the other stays without a worker until the heartbeat ends it. With a
  banned name the socket is closed and the entry stays (`BanCheck`).
- `/kick` and the heartbeat close the socket (`AdminCommandHandler.cpp:263`), which
  neither wakes the worker blocked in `recv` on it nor ends the connection: a client
  that says nothing keeps both. A client that quits at the moment it is kicked, or
  after its name was taken over, sends a DISCONNECT for which `handleDisconnect`
  finds no name (`CommandHandler.cpp:67`): nobody closes, and its `join` waits
  (`QuitEnds`).
- A PONG that `handlePong` has looked up before its session ended counts for the
  next session of that name (`CommandHandler.cpp:165`, `updateClientPong`).
- A broadcast ignores the result of `queueMessage` (`CommandHandler.cpp:129`):
  with a full queue recipients are left out and the sender gets OK (`Spread`).
- A failed send of the dispatcher is only logged (`Dispatcher.cpp:107`; `Send`),
  although the README announces failure notices (`README.md:58`).
- `++totalMessagesReceived` is not atomic (`Server.hpp:158`; `Load`, `Store`).
- `-c` is only the backlog of `listen` (`Server.cpp:69`), and a connection keeps
  one of the twelve workers until it ends (`Server.cpp:377`): the client after the
  last worker is accepted and not read (`TakeTask` needs an idle worker).
- Nobody closes the socket of a connection that ends unregistered (`Gone`).
- The worker loop tests `stop` before the queue (`ThreadPool.cpp:30`): tasks that
  are queued when the pool stops are dropped, although `ThreadPool.hpp:30` says
  otherwise; and a worker can miss `notify_all` (`WorkerSleeps` after
  `NotifyAll`). Both are masked by `std::exit` in `stop`.
- `/stop` and Ctrl+C wait for `clientsMutex`, which a blocked PING keeps; only a
  second signal that finds STOPPING gets past it (`SecondSignalEnds`).
- `stop` runs in a signal handler and takes the logger's mutex and `clientsMutex`: a
  signal that interrupts `LOG_INFO` in `start`, or a second one that interrupts a
  thread with one of the two, waits for the thread it runs on (`Hung`).
- A `banlist` that exists and cannot be opened counts as empty (`Server.cpp:117`), the
  result of writing it is not looked at (`Server.cpp:142`), and it is truncated first:
  bans may be gone at the next start, although `README.md:122` says that they persist.
- A `;` in a subject or body ends it: the rest is dropped without notice
  (`Fields`). In the text of `/send` it moves the following words into the time
  field (`AdminCommandHandler.cpp:125`, `cmdSend`).
- A frame of at most `MAX_MESSAGE_SIZE` may grow past it when sender and time are
  added; `send` accepts it and the recipient gives up the connection
  (`ClosedForCause`).
- "Re: " can push a subject over the limit, and the reply is not sent (`Reply`).
- The client validates with the default limits, whatever `/set` says; of the
  settings only `MAX_USERNAME_LENGTH` and `MAX_SUBJECT_LENGTH` are read by any
  code (`README.md:138` says that changes take effect immediately). `getBool` has
  no caller.
- `/set` accepts and stores a number with characters after it (`stoi`).
- "all" is a valid username; whoever takes it gets broadcasts only.
- A MESSAGE or PING sent between `registerClient` and the reply is taken for the
  answer by `Client::connect`, which gives up (`Negotiated`).
- The client's command is sent before events are accepted (`ClientUI.cpp:210`),
  and `lastReceivedEvent` holds one event: an answer can be missed (`Ask`,
  `Accept`, `Note`), and an answer that comes after the timeout ends the next wait
  (`ClientUI.cpp:223`). An event that found `inCommand` false is displayed although
  the command has begun meanwhile (`Check`, `Show`).

Bounds. The races of `Sessions` are between two connections and the threads that
end them; one name that both want is where they meet, two numbers let one be reused
while the other is in use, and the theorems below cover any number. Beyond a state
that is not `Clean` its properties ask nothing more, but for `BanSettles`, which is
proved of every state. `sessions_reuse` has a second name, to be refused under.
`Heartbeat` keeps 90 as three rounds of 30 and the check delay below the interval,
with one client that answers and one that does what it likes.
`Lifecycle` needs two workers so that one can take the task the other was woken
for, and two tasks for a notification to be missing; the callers of `stop` do not
look at the tasks, so few are enough once one of them runs (`Explored`). In
`Stream` a buffer smaller than a frame, and lengths on both sides of the limit,
make every copy happen in pieces; `stream_split` needs only two frames. In
`MessagePath` two symbols put the delimiter before, after and beside other text
and make a subject too long for a reply. For the dispatcher two links with two
frames each meet a full queue (two places or one), an overtaking candidate and a
recipient that comes and goes; `Explored` stops after three frames and two settled
messages, which is where an order can be wrong, and leaves `held` to `dispatcher_live`,
since waiting for `clientsMutex` only removes steps. For the client two messages give
a queue of events with an order and two indexes, and two commands a stale answer.

Deadlock is checked for `heartbeat` and `message_path`, where something can
always happen. In the other models connections, frames or commands are bounded
and run out, or the process may stay up with every thread waiting for input.

Symmetry is used where users, links, connections, numbers and workers are
interchangeable and no temporal property is checked except the safety property
`Delivers`. The run `sessions`, which checks liveness, has no `SYMMETRY`; instead
its constraint fixes which connection, number and worker come first (`Canonical`),
which for each behaviour keeps one that differs in names only. `dispatcher_safe`
has a `VIEW` without the counter `totalMessagesReceived`, which no step reads but to
count on.

Fairness. `Sessions!FairSpec`: a worker inside `handleClientMessages` goes on. It is
strong fairness because most of its steps wait for `clientsMutex`, which the
heartbeat takes again and again: a thread that waits for a mutex free for 30 seconds
between two rounds of PINGs gets it. Nothing obliges the heartbeat to get through its
PINGs, and `DeadPeerLeaves` has the premise `[]<>MutexFree` for this; nor a client to
send, the admin to type or a worker to take a task.
`Heartbeat!FairSpec`: its thread runs, time passes, a PONG in the handler's hands
is recorded; nothing makes a client read. `Lifecycle!FairSpec`: only the callers
of `stop` and the heartbeat run, and a blocked PING need not unblock; the workers
and main get no fairness, so `StopEnds` does not depend on them.
`Stream!FairSpec`: the receiver reads on, and a waiting send goes on when there is
room, as the kernel arranges. `Dispatcher!FairSpec`: the thread runs up to its
blocking send, which need not return, with strong fairness for the lookups under
`clientsMutex` as above; `Release` need not come, and spurious wakeups are not relied
on. `ClientApp!FairSpec`: both threads of the client run when they are not blocked on
the user. The server's worker gets none, because it may wait for `clientsMutex` for
ever; that it goes on is the premise `WorkerRuns` of `QuitEnds`.

## Proofs

Each module named `...Proofs` proves its theorems for every value of the constants
that satisfies the `ASSUME` of the module it extends; TLC evaluates these
assumptions in the runs. They say that bounds are natural numbers, that "none"
values are not ordinary ones, and what a section below names. Each theorem has the
form `Spec => []Property` unless stated otherwise, and follows from an inductive
invariant.

`Typed` in a module is `TypeOK` with what it takes to be inductive: a thread must
hold what its next statement uses.

### SessionsProofs

- `TypeCorrect`. `Typed` adds that a busy worker has a socket, that a thread about
  to erase or ban has a name, and where the admin can be.
- `RegisteredAreOpen`, `RegisteredAreServed`, `ReadersAreExclusive`:
  `Spec => []RegisteredOpen` and so on, with numbers reused in any way. The inductive
  invariant is `Typed /\ (Clean => Registry)`; a step never makes `Clean` true again
  (`CleanBefore`). `Registry` speaks of connections rather than numbers. A connection
  has one number (`OneNumber`) and one worker, whose blocked `recv` holds it
  (`Queue`, `OneWorker`). Until its first registration nobody but this worker closes
  it, so the number still names it when it is registered (`NewIsOpen`); a thread
  other than its worker ends only sessions that were registered (`EndsMet`). From
  then on an open connection has one entry (`Listed`), which is erased before the
  connection is closed (`ErasedFirst`), and its worker is in the loop (`Served`). This
  is why the three separate steps of `handleDisconnect` are safe although any thread
  may run them on the same session at the same time, and why they are safe no longer
  once a thread's number names another connection.
- `BansStay`: `Spec => BanSettles`, an action property, from `Typed` only, whatever
  numbers name and clients send.

### HeartbeatProofs

For any clients and any interval, delay and timeout with an answer faster than the
check delay, and the check delay no longer than the timeout (the code has 5 and 90
seconds).

- `TypeCorrect`.
- `AnsweringClientsStay` (`AnsweringStays`). The invariant `Answering` follows an
  answer through the round: the PING loop walks only registered clients
  (`LoopRegistered`), leaves every responsive one behind it with a PING to answer
  (`PingedBehind`), and while the heartbeat waits the answer is due before the wait
  is over or the PONG is no older than the wait (`AnswerInTime`). How long the loop
  was blocked before does not matter: `checkClientTimeouts` looks only at PONGs of
  the wait that has just ended.
- `SilentClientsEnd` (`EndedInTime`). `AgeBound` bounds the age of a session in each
  phase of a round: what is older than the timeout at one check is gone before the
  next sleep.

### LifecycleProofs

For any names, any finite pool and any number of queued connections.

- `TypeCorrect`.
- `BansAreKept` (`BansKept`). `BansInStep`: the memory of a running server holds what
  the admin asked for, and so does the file unless it is being written or the last
  save or load went wrong (`fileBad`). It needs
  `NoShell`: there is no admin thread to write the list before the server has
  started, and none in the middle of a save that calls `stop`.
- `QueuedConnectionsHaveWorkers` (`QueuedHaveWorkers`), with `SleepyFindsNothing`: a
  worker that found the queue empty keeps `queueMutex` until it sleeps, so no task
  comes in between. The rest is counting: a worker that takes a task leaves one
  queued connection less, and `enqueue` adds one together with its notification.

### StreamProofs

For any senders, lengths, limit and buffer; all but the types as long as no frame
was cut by cells of another (`~split`).

- `TypeCorrect`.
- `ReceivedAsSent` (`FramesIntact`) and `GivesUpForCause` (`ClosedForCause`), from one
  invariant, `Whole`. The cells of all frames in the order they were begun form one
  sequence. What was received, what the reader has of the current frame
  (`BodyFits`), what is in the buffers (`WireFits`) and what the one sender in the
  middle of a frame has still to copy (`RestFits`) are consecutive pieces of it.
  `Tip` is where the buffers end: only the sender whose cells continue there can
  copy without a cut.

### DispatcherProofs

For any users, connections, queue length and number of frames.

- `TypeCorrect`. `Typed` includes `CurrentTyped`: the thread has a message exactly
  while it is busy with one, without which taking the next would overwrite it.
- `SettledInOrder` (`PairwiseFifo`), under any policy. `Ordered` extends the order
  from what is settled to the message in the thread's hands and the queue;
  `AllOld` says that none of them is newer than the frame the worker of its
  connection handles, and that those to a recipient this worker has still to serve
  come from earlier frames.
- `OkIsTrue` (`OkIsKept`) under REJECT: the worker answers OK after it has queued, and
  from the queue a message leaves only through the thread's hands to `settled`.
- `QueueDelivers`: unless the policy is DROP_OLDEST, `Spec => Delivers`, the
  refinement of `Delivery`. `PromiseStep` shows that every step is a step of
  `Delivery` or leaves its variables alone: `queueMessage` is `Take` (`AllOld`
  gives that the message was not known before), a send or a bounce is `Settle`, and
  taking a message from the queue moves it from the front of one part of `Pending`
  to the end of the other. Under DROP_OLDEST an accepted message may be evicted,
  and the theorem would be false.

### ClientAppProofs

For any number of messages, PINGs and commands.

- `TypeCorrect`. `Typed` adds that commands are numbered (`Numbered`) and that the
  listener has an event while `onServerEvent` runs (`ListenerTyped`).
- `EventsAnnouncedOnce` (`AnnouncedOnce`). Two facts carry it. `Fresh`: no event is
  sent twice, because what the server has still to send (`Future`) was not sent or
  heard; this needs that no two commands have one number. `InOnePlace`: an event
  that was heard is displayed, queued or in hand once, any other never. `Unstarted`
  says that the listener does not run before `connect` has read its answer: starting
  it would otherwise lose the event in its hands.
- `InboxKeepsEveryMessage` (`InboxKeepsAll`). `Kept`: all entries differ in index and
  message, and every index is below the counter; `HoldsHeard`: a message is in the
  inbox exactly if it was heard, so a new one (`Fresh`) differs from all entries.
- `IndexesStay`: `Spec => IndexesLast`, an action property, from `Typed` only.
  `EntriesStay` shows it of every step: `storeMessage` appends, `readMessageByIndex`
  moves one entry, and every other entry stays where it was (`RemoveLeaves`).
- `WaitsEndWithTheirAnswer` (`AnswerIsOurs`). `Awaited`: what a wait looks for is one
  thing on its way round, a command sent, its reply sent, the reply in the
  listener's hands, or its type in `lastReceivedEvent`. It is in one of these places
  at most (`OneAtATime`), only during the wait, and belongs to the last command
  (`OnlyOurs`). A timeout is what leaves it behind, and the theorem stops there.

### MessageParserProofs

About the operators alone, for texts of any length over any `Symbols` that contain
the four characters the functions look for (`SymbolsAssumption`).

- `SplitIsTheLoop`. Each position is behind the previous one, and either holds a
  delimiter with none between the two, or is the end of the text and the last. It
  rests on counting: `Upto` grows by one at a delimiter and stays otherwise
  (`UptoGrows`), so the positions with fewer than k delimiters are an initial segment
  of the text (`InitialSegment`), whose size is the k-th position.
- `ParseUndoesBuild`: fields without a delimiter come back from
  `parse(build(command, args))` as they were, whatever their length, for one to four
  fields (CONNECT has one, SEND three and MESSAGE four). `SplitAppend` carries it:
  what is appended to a text behind a delimiter becomes the tokens that follow the
  text's own. `build` is a fold, whose value for any number of fields would need
  induction over data; `FlattenUnroll` unrolls it field by field instead.
- `FieldsArePlain`: no field `parse` returns holds a delimiter, whatever was sent.
- `SanitizeFacts`, `SanitizeWords`: `sanitize` keeps the length, adds no delimiter and
  leaves words alone.

### MessagePathProofs

For any names, any texts and any values typed in `/set`, with the words of the
protocol among the symbols and everything typed a text (`MessagePathAssumption`).

- `SettingsStayUsable` (`SettingsUsable`), for any table whose defaults pass
  `validateValue`, as those of `initializeDefinitions` do (`DefaultsAssumption`):
  `Accepted` says that every value in the map would be accepted again.
- `TypeCorrect`, `TextsArrive` (`PlainTextArrives`) and `HeadersAreTheServers`
  (`HeaderIsTheServers`) follow from one invariant, `Inv`. It says what the one
  message holds at each stage: the frame SEND parses to the draft if the draft has no
  delimiter (`Sent`); the `Message` of the queue has the sender's name, the server's
  time, and a subject and body without delimiter, those of a plain draft (`Queued`);
  the frame MESSAGE parses to these four (`Delivered`); and so does the inbox
  (`Stored`). `Queued` is where the two theorems part: the fields of a client's message
  are plain whatever it wrote (`FieldsArePlain`), so the header cannot move, while
  the body is the one written only if the draft was plain. `NamesAreWords`, that
  `handleConnect` registers words only, makes the sender's name such a field.
- `ClientChecksAreEnough`: `Spec => ClientChecksSuffice`, an action property, from `Sent`
  and `ReceiversFound`: sanitizing changes neither the length of a subject nor
  whether a body is empty, so what the client found valid the server does.

### Only model-checked

Liveness, which rests on fairness and ENABLED and is out of the prover's reach:
`DeadPeerLeaves`, `StopEnds`, `SecondSignalEnds`, `FramesArrive`, `NothingStuck`,
`PingsAnswered`, `QuitEnds`. Every other property of a passing run has a theorem.
What `stoi` makes of a text enters the theorems only as some value: its fold
over the digits would need induction over data.

## Not modelled

- What the logger writes, option parsing and the `Socket` handle: output and plumbing.
- Locks of the libraries: a signal handler that interrupts `malloc` or a stream
  operation may hang as in `Hung`, and `std::exit` in a handler runs destructors.
- What detached threads do to members of `Server` destroyed after the pool
  (undefined behaviour in the last moments of the process, after which nothing
  this project states is observable).
- `AUTO_STOP_WHEN_NO_CLIENTS`, false at compile time, and `Dispatcher::stop`,
  which is never called.
- The composition of `Sessions` with `Dispatcher` or `ClientApp`: each has the
  other as an environment that may do anything the other does (names come and go
  in `Dispatcher`, they are lost and connections cut in `ClientApp`), and the
  product is out of TLC's reach.

## Plan

1. Done: `Sessions` with its proofs, `Delivery`, `Dispatcher`, `ClientApp`.
2. Done: `Heartbeat`, `Lifecycle` (with the ban list's file and the pool),
   `Stream`, `MessageParser`, `RuntimeConfig`, `MessagePath`.
3. Done: the safety properties of all components for all instances, the refinement
   of `Delivery`, and the string functions the message path rests on.
4. Open: a composition of `Sessions` with `Dispatcher` (a message sent to a number
   that was reused meanwhile), once one of them has an abstraction small enough for
   TLC.
