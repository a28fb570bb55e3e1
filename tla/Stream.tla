------------------------------- MODULE Stream -------------------------------
(***************************************************************************)
(* NetworkStream over one direction of one TCP connection: several threads *)
(* send on the socket (to a client: its worker, the dispatcher, the        *)
(* heartbeat and the admin shell; to the server: the user interface and    *)
(* the listener that answers PINGs) and one thread receives.               *)
(*                                                                         *)
(* No lock of the program covers send.  The kernel copies a frame in one   *)
(* piece if it fits the socket buffer; otherwise it copies what fits and   *)
(* waits for room, and another thread's send may go on meanwhile.          *)
(*                                                                         *)
(* The unit is a cell: the length prefix is one, and so is each unit of    *)
(* payload.  A payload cell read as a prefix gives any length at all.      *)
(***************************************************************************)
EXTENDS Naturals, Sequences, SequencesExt

CONSTANTS
  Senders,    \* threads that send on the socket
  Lengths,    \* payload lengths that are sent; MessageParser::build gives no 0
  MaxLength,  \* Constants::MAX_MESSAGE_SIZE
  Capacity,   \* cells the socket buffers hold
  MaxFrames   \* bound: frames sent

ASSUME StreamAssumption ==
  /\ Lengths \subseteq Nat \ {0}
  /\ {MaxLength, Capacity, MaxFrames} \subseteq Nat \ {0}

VARIABLES
  frames,     \* history: length of each frame, in the order they were begun
  rest,       \* per sender, the cells send has still to copy
  wire,       \* cells in the socket buffers
  open,       \* is the connection up on the sending side?
  reader,     \* decodeMessage: "prefix", "payload", or "closed" (connected = false)
  need,       \* length of the payload being read
  body,       \* the cells of it read so far
  got,        \* the messages receive has returned
  split       \* history: was a frame cut by cells of another?

sending == <<frames, rest, open, split>>
receiving == <<reader, need, body, got>>
vars == <<sending, wire, receiving>>

\* Cell k of frame f; cell 0 is the prefix.
Cell(f, k) == [frame |-> f, pos |-> k]
Payload(f, n) == [k \in 1 .. n |-> Cell(f, k)]

\* encodeMessage: the length, then the data.
encodeMessage(f, n) == <<Cell(f, 0)>> \o Payload(f, n)

Cells == [frame : 1 .. MaxFrames, pos : Nat]

\* Types of the variables.
TypeOK ==
  /\ frames \in Seq(Lengths)
  /\ rest \in [Senders -> Seq(Cells)]
  /\ wire \in Seq(Cells) /\ Len(wire) <= Capacity
  /\ open \in BOOLEAN
  /\ reader \in {"prefix", "payload", "closed"}
  /\ need \in 0 .. MaxLength
  /\ body \in Seq(Cells) /\ Len(body) <= need
  /\ got \in Seq(Seq(Cells))
  /\ split \in BOOLEAN

Init ==
  /\ frames = <<>> /\ rest = [t \in Senders |-> <<>>]
  /\ wire = <<>> /\ open = TRUE
  /\ reader = "prefix" /\ need = 0 /\ body = <<>> /\ got = <<>>
  /\ split = FALSE

(***************************************************************************)
(* NetworkStream::send                                                     *)
(***************************************************************************)
Room == Capacity - Len(wire)

\* Mutated form of Copy: more is copied than there is room for.
CopyBeyond(t, cells) ==
  /\ open /\ Room > 0
  /\ wire' = wire \o cells
  /\ rest' = [rest EXCEPT ![t] = <<>>]
  /\ split' = (split \/ \E u \in Senders \ {t} : rest[u] # <<>>)
  /\ UNCHANGED <<open, receiving>>
\* The kernel copies as many of t's cells as there is room for.
Copy(t, cells) ==
  LET n == IF Room < Len(cells) THEN Room ELSE Len(cells) IN
  /\ open /\ Room > 0
  /\ wire' = wire \o SubSeq(cells, 1, n)
  /\ rest' = [rest EXCEPT ![t] = SubSeq(cells, n + 1, Len(cells))]
  /\ split' = (split \/ \E u \in Senders \ {t} : rest[u] # <<>>)
  /\ UNCHANGED <<open, receiving>>

send(t, n) ==
  /\ rest[t] = <<>> /\ Len(frames) < MaxFrames
  /\ frames' = Append(frames, n)
  /\ Copy(t, encodeMessage(Len(frames) + 1, n))

SendMore(t) == rest[t] # <<>> /\ Copy(t, rest[t]) /\ UNCHANGED frames

\* The socket is closed or reset under a send that waits: it returns, and a
\* frame sent in part counts as sent.
SendCut(t) ==
  /\ ~open /\ rest[t] # <<>>
  /\ rest' = [rest EXCEPT ![t] = <<>>]
  /\ UNCHANGED <<frames, open, split, wire, receiving>>

\* The sending side closes: what is in the buffers still arrives.
CloseSide ==
  /\ open /\ open' = FALSE
  /\ UNCHANGED <<frames, rest, split, wire, receiving>>

\* The connection is reset: what is in the buffers is lost.
Reset ==
  /\ open /\ open' = FALSE /\ wire' = <<>>
  /\ UNCHANGED <<frames, rest, split, receiving>>

(***************************************************************************)
(* NetworkStream::receive: both recv calls wait for all they ask for, and  *)
(* take the cells out of the buffer as they come                           *)
(***************************************************************************)
\* What the four bytes of the prefix say.
PrefixValues(cell) ==
  IF cell.pos = 0 THEN {frames[cell.frame]} ELSE 0 .. MaxLength + 1

\* Mutated form of Accepts: the largest length is refused.
AcceptsBelowMax(n) == n # 0 /\ n < MaxLength
Accepts(n) == n # 0 /\ n <= MaxLength

ReadPrefix ==
  /\ reader = "prefix" /\ wire # <<>>
  /\ wire' = Tail(wire)
  /\ \E n \in PrefixValues(Head(wire)) :
       \/ Accepts(n) /\ reader' = "payload" /\ need' = n
       \/ ~Accepts(n) /\ reader' = "closed" /\ UNCHANGED need
  /\ UNCHANGED <<sending, body, got>>

\* Mutated form of ReadPayload: the payload is read once it is there as a whole.
ReadPayloadWhole ==
  /\ reader = "payload" /\ Len(wire) >= need
  /\ wire' = SubSeq(wire, need + 1, Len(wire))
  /\ got' = Append(got, SubSeq(wire, 1, need))
  /\ reader' = "prefix" /\ need' = 0 /\ body' = <<>>
  /\ UNCHANGED sending
\* Mutated form of ReadPayload: it ends one cell too early.
ReadPayloadShort ==
  /\ reader = "payload" /\ wire # <<>>
  /\ wire' = Tail(wire)
  /\ \/ Len(body) + 2 < need /\ body' = Append(body, Head(wire))
        /\ UNCHANGED <<reader, need, got>>
     \/ Len(body) + 2 >= need /\ got' = Append(got, Append(body, Head(wire)))
        /\ reader' = "prefix" /\ need' = 0 /\ body' = <<>>
  /\ UNCHANGED sending
ReadPayload ==
  /\ reader = "payload" /\ wire # <<>>
  /\ wire' = Tail(wire)
  /\ \/ Len(body) + 1 < need /\ body' = Append(body, Head(wire))
        /\ UNCHANGED <<reader, need, got>>
     \/ Len(body) + 1 = need /\ got' = Append(got, Append(body, Head(wire)))
        /\ reader' = "prefix" /\ need' = 0 /\ body' = <<>>
  /\ UNCHANGED sending

\* recv returns less than it was asked for: the stream has ended.
ReadEnd ==
  /\ reader # "closed" /\ ~open /\ wire = <<>>
  /\ reader' = "closed"
  /\ UNCHANGED <<sending, wire, need, body, got>>

-----------------------------------------------------------------------------
receive == ReadPrefix \/ ReadPayload \/ ReadEnd

Next ==
  \/ \E t \in Senders : SendMore(t) \/ SendCut(t) \/ \E n \in Lengths : send(t, n)
  \/ CloseSide \/ Reset
  \/ receive

Spec == Init /\ [][Next]_vars

\* The receiver reads on, and a send that waits goes on when there is room.
FairSpec ==
  Spec /\ WF_vars(receive) /\ \A t \in Senders : WF_vars(SendMore(t))

-----------------------------------------------------------------------------
Sent == [f \in DOMAIN frames |-> Payload(f, frames[f])]

\* As long as no send was cut by another, receive returns the messages sent,
\* whole and in the order they were begun, whatever was copied piece by piece,
\* however much larger than the buffers a frame is, and wherever the stream ends.
FramesIntact == ~split => IsPrefix(got, Sent)

\* Then, too, the stream is given up only at its end or for a message above
\* MAX_MESSAGE_SIZE, which send accepts and decodeMessage refuses.
ClosedForCause ==
  reader = "closed" /\ open /\ ~split => frames[Len(got) + 1] > MaxLength

\* A frame that was begun arrives whole, unless it was cut or the stream ends.
FramesArrive ==
  \A f \in 1 .. MaxFrames :
    f \in DOMAIN frames ~> f \in DOMAIN got \/ reader = "closed" \/ split

\* "Received message or std::nullopt on failure": what receive returns is a
\* message some thread has sent.
ReceivedWasSent == \A i \in DOMAIN got : \E f \in DOMAIN frames : got[i] = Sent[f]

=============================================================================
