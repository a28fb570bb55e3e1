---------------------------- MODULE StreamProofs ----------------------------
(***************************************************************************)
(* What is proved of Stream for any senders, frame lengths, buffer size    *)
(* and number of frames: the types, and that receive returns the messages  *)
(* sent and gives up only for cause as long as no frame was cut.           *)
(***************************************************************************)
EXTENDS Stream, SequenceTheorems, TLAPS

-----------------------------------------------------------------------------
(***************************************************************************)
(* Types                                                                   *)
(***************************************************************************)
\* A cell on its way belongs to a frame that was begun.
Begun ==
  /\ \A i \in 1..Len(wire) : wire[i].frame <= Len(frames)
  /\ \A t \in Senders : \A i \in 1..Len(rest[t]) : rest[t][i].frame <= Len(frames)

\* The reader has nothing of a payload before its prefix, and never all of one.
ReaderTyped ==
  /\ reader = "prefix" => body = <<>>
  /\ reader = "payload" => Len(body) < need

Typed == TypeOK /\ Begun /\ ReaderTyped

\* Nothing is sent or read yet.
LEMMA TypedInit == Init => Typed
<1> SUFFICES ASSUME Init PROVE Typed
  OBVIOUS
<1>0. MaxLength \in Nat /\ Capacity \in Nat /\ Len(wire) = 0 /\ Len(body) = 0
  BY StreamAssumption DEF Init
<1>1. TypeOK
  <2>1. /\ frames \in Seq(Lengths) /\ wire \in Seq(Cells) /\ body \in Seq(Cells)
        /\ got \in Seq(Seq(Cells))
    BY DEF Init
  <2>2. rest \in [Senders -> Seq(Cells)]
    BY DEF Init
  <2>3. need \in 0..MaxLength /\ Len(body) <= need /\ Len(wire) <= Capacity
    BY <1>0 DEF Init
  <2> QED
    BY <1>0, <2>1, <2>2, <2>3 DEF Init, TypeOK
<1>2. Begun /\ ReaderTyped
  BY DEF Init, Begun, ReaderTyped
<1> QED
  BY <1>1, <1>2 DEF Typed

\* The cells of a frame, one by one.
LEMMA EncodedCells ==
  ASSUME NEW f \in 1..MaxFrames, NEW n \in Nat
  PROVE  /\ encodeMessage(f, n) \in Seq(Cells)
         /\ Len(encodeMessage(f, n)) = n + 1
         /\ \A i \in 1..n + 1 : encodeMessage(f, n)[i] = Cell(f, i - 1)
<1>1. \A k \in Nat : Cell(f, k) \in Cells
  BY DEF Cell, Cells
<1>2. Payload(f, n) \in Seq(Cells) /\ Len(Payload(f, n)) = n
  BY <1>1, IsASeq DEF Payload
<1>3. \A k \in 1..n : Payload(f, n)[k] = Cell(f, k)
  BY DEF Payload
<1>4. <<Cell(f, 0)>> \in Seq(Cells) /\ Len(<<Cell(f, 0)>>) = 1 /\ <<Cell(f, 0)>>[1] = Cell(f, 0)
  BY <1>1
<1>5. /\ encodeMessage(f, n) \in Seq(Cells) /\ Len(encodeMessage(f, n)) = 1 + n
      /\ \A i \in 1..1 + n : encodeMessage(f, n)[i] =
            IF i <= 1 THEN <<Cell(f, 0)>>[i] ELSE Payload(f, n)[i - 1]
  BY <1>2, <1>4, ConcatProperties DEF encodeMessage
<1>6. ASSUME NEW i \in 1..n + 1 PROVE encodeMessage(f, n)[i] = Cell(f, i - 1)
  <2>1. CASE i = 1
    BY <1>4, <1>5, <2>1
  <2>2. CASE i # 1
    <3>1. i - 1 \in 1..n /\ ~(i <= 1) /\ i \in 1..1 + n
      BY <2>2
    <3> QED
      BY <1>3, <1>5, <3>1
  <2> QED
    BY <2>1, <2>2
<1> QED
  BY <1>5, <1>6

\* What the kernel copies and what is left, one cell at a time.
LEMMA Copied ==
  ASSUME Typed, NEW t \in Senders, NEW cells \in Seq(Cells), cells # <<>>, Copy(t, cells)
  PROVE  \E n \in 1..Len(cells) :
           /\ wire' \in Seq(Cells) /\ Len(wire') = Len(wire) + n /\ Len(wire') <= Capacity
           /\ \A i \in 1..Len(wire) : wire'[i] = wire[i]
           /\ \A i \in 1..n : wire'[Len(wire) + i] = cells[i]
           /\ rest' = [rest EXCEPT ![t] = SubSeq(cells, n + 1, Len(cells))]
           /\ SubSeq(cells, n + 1, Len(cells)) \in Seq(Cells)
           /\ Len(SubSeq(cells, n + 1, Len(cells))) = Len(cells) - n
           /\ \A i \in 1..Len(cells) - n :
                SubSeq(cells, n + 1, Len(cells))[i] = cells[n + i]
<1> DEFINE n == IF Room < Len(cells) THEN Room ELSE Len(cells)
<1>1. /\ wire \in Seq(Cells) /\ Len(wire) <= Capacity /\ Capacity \in Nat
      /\ Len(wire) \in Nat /\ Len(cells) \in Nat /\ Len(cells) > 0
  BY StreamAssumption DEF Typed, TypeOK
<1>2. n \in 1..Len(cells) /\ Len(wire) + n <= Capacity
  BY <1>1 DEF Copy, Room
<1>3. /\ wire' = wire \o SubSeq(cells, 1, n)
      /\ rest' = [rest EXCEPT ![t] = SubSeq(cells, n + 1, Len(cells))]
  BY DEF Copy
<1> HIDE DEF n
<1>4. /\ SubSeq(cells, 1, n) \in Seq(Cells) /\ Len(SubSeq(cells, 1, n)) = n
      /\ \A i \in 1..n : SubSeq(cells, 1, n)[i] = cells[i]
  BY <1>2
<1>6. /\ wire' \in Seq(Cells) /\ Len(wire') = Len(wire) + n
      /\ \A i \in 1..Len(wire) + n : wire'[i] =
           IF i <= Len(wire) THEN wire[i] ELSE SubSeq(cells, 1, n)[i - Len(wire)]
  BY <1>1, <1>3, <1>4, ConcatProperties
<1>7. ASSUME NEW i \in 1..n PROVE wire'[Len(wire) + i] = cells[i]
  <2>1. /\ Len(wire) + i \in 1..Len(wire) + n /\ ~(Len(wire) + i <= Len(wire))
        /\ (Len(wire) + i) - Len(wire) = i
    BY <1>1, <1>2
  <2> QED
    BY <1>4, <1>6, <2>1
<1>8. \A i \in 1..Len(wire) : wire'[i] = wire[i]
  BY <1>1, <1>2, <1>6
<1>9. /\ SubSeq(cells, n + 1, Len(cells)) \in Seq(Cells)
      /\ Len(SubSeq(cells, n + 1, Len(cells))) = Len(cells) - n
      /\ \A i \in 1..Len(cells) - n : SubSeq(cells, n + 1, Len(cells))[i] = cells[n + i]
  <2>1. CASE n = Len(cells)
    BY <1>1, <1>2, <2>1
  <2>2. CASE n # Len(cells)
    <3>1. n + 1 \in 1..Len(cells) /\ \A i \in Nat : n + 1 + i - 1 = n + i
      BY <1>1, <1>2, <2>2
    <3> QED
      BY <1>1, <1>2, <3>1
  <2> QED
    BY <2>1, <2>2
<1> QED
  BY <1>1, <1>2, <1>3, <1>6, <1>7, <1>8, <1>9

\* A sender copies cells of the last frame, or of one it begins.
LEMMA TypedCopy ==
  ASSUME Typed, NEW t \in Senders, NEW cells \in Seq(Cells), cells # <<>>, Copy(t, cells),
         frames' \in Seq(Lengths), Len(frames) <= Len(frames'),
         \A i \in 1..Len(cells) : cells[i].frame <= Len(frames')
  PROVE  Typed'
<1>0. /\ Len(wire) \in Nat /\ Len(cells) \in Nat
      /\ Len(frames) \in Nat /\ Len(frames') \in Nat
  BY DEF Typed, TypeOK
<1>1. PICK n \in 1..Len(cells) :
           /\ wire' \in Seq(Cells) /\ Len(wire') = Len(wire) + n /\ Len(wire') <= Capacity
           /\ \A i \in 1..Len(wire) : wire'[i] = wire[i]
           /\ \A i \in 1..n : wire'[Len(wire) + i] = cells[i]
           /\ rest' = [rest EXCEPT ![t] = SubSeq(cells, n + 1, Len(cells))]
           /\ SubSeq(cells, n + 1, Len(cells)) \in Seq(Cells)
           /\ Len(SubSeq(cells, n + 1, Len(cells))) = Len(cells) - n
           /\ \A i \in 1..Len(cells) - n :
                SubSeq(cells, n + 1, Len(cells))[i] = cells[n + i]
  BY Copied
<1>2. rest' \in [Senders -> Seq(Cells)]
  BY <1>1 DEF Typed, TypeOK
<1>3. TypeOK'
  BY <1>1, <1>2 DEF Copy, receiving, Typed, TypeOK
<1>4. ASSUME NEW i \in 1..Len(wire') PROVE wire'[i].frame <= Len(frames')
  <2>1. CASE i \in 1..Len(wire)
    <3>1. wire[i] \in Cells
      BY <2>1, ElementOfSeq DEF Typed, TypeOK
    <3>2. wire[i].frame \in Nat /\ wire[i].frame <= Len(frames)
      BY <2>1, <3>1, StreamAssumption DEF Cells, Typed, Begun
    <3> QED
      BY <1>0, <1>1, <2>1, <3>2
  <2>2. CASE i \notin 1..Len(wire)
    <3>1. PICK k \in 1..n : i = Len(wire) + k
      <4>1. i - Len(wire) \in 1..n /\ Len(wire) + (i - Len(wire)) = i
        BY <1>0, <1>1, <2>2
      <4> QED
        BY <4>1
    <3>2. wire'[i] = cells[k] /\ k \in 1..Len(cells)
      BY <1>0, <1>1, <3>1
    <3> QED
      BY <3>2
  <2> QED
    BY <2>1, <2>2
<1>5. ASSUME NEW u \in Senders, NEW i \in 1..Len(rest'[u])
      PROVE  rest'[u][i].frame <= Len(frames')
  <2>1. CASE u = t
    <3>1. rest'[u] = SubSeq(cells, n + 1, Len(cells))
      BY <1>1, <2>1 DEF Typed, TypeOK
    <3>2. i \in 1..Len(cells) - n /\ n + i \in 1..Len(cells)
      BY <1>0, <1>1, <3>1
    <3> QED
      BY <1>1, <3>1, <3>2
  <2>2. CASE u # t
    <3>1. rest'[u] = rest[u]
      BY <1>1, <2>2 DEF Typed, TypeOK
    <3>2. rest[u] \in Seq(Cells)
      BY DEF Typed, TypeOK
    <3>3. rest[u][i] \in Cells
      BY <3>1, <3>2, ElementOfSeq
    <3>4. rest[u][i].frame \in Nat /\ rest[u][i].frame <= Len(frames)
      BY <3>1, <3>3, StreamAssumption DEF Cells, Typed, Begun
    <3> QED
      BY <1>0, <3>1, <3>4
  <2> QED
    BY <2>1, <2>2
<1>6. Begun'
  BY <1>4, <1>5 DEF Begun
<1>7. ReaderTyped'
  BY DEF Copy, receiving, Typed, ReaderTyped
<1> QED
  BY <1>3, <1>6, <1>7 DEF Typed

\* A frame begun by a sender adds its length at the end.
LEMMA SendBegins ==
  ASSUME Typed, NEW t \in Senders, NEW n \in Lengths, send(t, n)
  PROVE  \E cells \in Seq(Cells) :
           /\ cells # <<>> /\ Copy(t, cells) /\ rest[t] = <<>>
           /\ frames' \in Seq(Lengths) /\ Len(frames') = Len(frames) + 1
           /\ frames'[Len(frames) + 1] = n
           /\ \A j \in 1..Len(frames) : frames'[j] = frames[j]
           /\ Len(cells) = n + 1
           /\ \A i \in 1..n + 1 : cells[i] = Cell(Len(frames) + 1, i - 1)
<1>1. /\ frames \in Seq(Lengths) /\ Len(frames) \in Nat /\ n \in Nat /\ n # 0
      /\ Len(frames) + 1 \in 1..MaxFrames
  BY StreamAssumption DEF Typed, TypeOK, send
<1>2. PICK f \in 1..MaxFrames : f = Len(frames) + 1
  BY <1>1
<1>3. PICK cells : cells = encodeMessage(f, n)
  OBVIOUS
<1>4. /\ cells \in Seq(Cells) /\ Len(cells) = n + 1
      /\ \A i \in 1..n + 1 : cells[i] = Cell(f, i - 1)
  BY <1>1, <1>3, EncodedCells
<1>5. cells # <<>>
  BY <1>1, <1>4
<1>6. frames' = Append(frames, n) /\ rest[t] = <<>> /\ Copy(t, cells)
  BY <1>2, <1>3 DEF send
<1>7. /\ frames' \in Seq(Lengths) /\ Len(frames') = Len(frames) + 1
      /\ frames'[Len(frames) + 1] = n
      /\ \A j \in 1..Len(frames) : frames'[j] = frames[j]
  BY <1>1, <1>6
<1> QED
  BY <1>2, <1>4, <1>5, <1>6, <1>7

\* What the reader takes off the wire.
LEMMA Read ==
  ASSUME Typed, wire # <<>>, wire' = Tail(wire)
  PROVE  /\ Head(wire) = wire[1] /\ wire[1] \in Cells /\ wire' \in Seq(Cells)
         /\ Len(wire) \in Nat \ {0} /\ Len(wire') = Len(wire) - 1
         /\ \A i \in 1..Len(wire') : wire'[i] = wire[i + 1] /\ i + 1 \in 1..Len(wire)
<1>1. wire \in Seq(Cells) /\ Len(wire) \in Nat \ {0}
  BY DEF Typed, TypeOK
<1>2. wire' \in Seq(Cells) /\ Len(wire') = Len(wire) - 1 /\ Head(wire) = wire[1]
  BY <1>1
<1>3. \A i \in 1..Len(wire') : wire'[i] = wire[i + 1] /\ i + 1 \in 1..Len(wire)
  BY <1>1, <1>2
<1> QED
  BY <1>1, <1>2, <1>3, ElementOfSeq

\* Every step of the senders, the network and the reader keeps the types.
LEMMA TypedStep == Typed /\ [Next]_vars => Typed'
<1> SUFFICES ASSUME Typed, [Next]_vars PROVE Typed'
  OBVIOUS
<1>0. frames \in Seq(Lengths) /\ Len(frames) \in Nat
  BY DEF Typed, TypeOK
<1>1. ASSUME NEW t \in Senders, SendMore(t) PROVE Typed'
  <2>1. rest[t] \in Seq(Cells) /\ rest[t] # <<>> /\ Copy(t, rest[t]) /\ frames' = frames
    BY <1>1 DEF SendMore, Typed, TypeOK
  <2>2. \A i \in 1..Len(rest[t]) : rest[t][i].frame <= Len(frames)
    BY DEF Typed, Begun
  <2>3. PICK cells : cells = rest[t]
    OBVIOUS
  <2> QED
    BY <1>0, <2>1, <2>2, <2>3, TypedCopy
<1>2. ASSUME NEW t \in Senders, SendCut(t) PROVE Typed'
  <2>1. rest' \in [Senders -> Seq(Cells)]
    BY <1>2 DEF SendCut, Typed, TypeOK
  <2>2. TypeOK' /\ ReaderTyped'
    BY <1>2, <2>1 DEF SendCut, receiving, Typed, TypeOK, ReaderTyped
  <2>3. Begun'
    BY <1>2 DEF SendCut, Typed, TypeOK, Begun
  <2> QED
    BY <2>2, <2>3 DEF Typed
<1>3. ASSUME NEW t \in Senders, NEW n \in Lengths, send(t, n) PROVE Typed'
  <2>1. PICK cells \in Seq(Cells) :
           /\ cells # <<>> /\ Copy(t, cells)
           /\ frames' \in Seq(Lengths) /\ Len(frames') = Len(frames) + 1
           /\ Len(cells) = n + 1
           /\ \A i \in 1..n + 1 : cells[i] = Cell(Len(frames) + 1, i - 1)
    BY <1>3, SendBegins
  <2>2. \A i \in 1..Len(cells) : cells[i].frame <= Len(frames')
    BY <1>0, <2>1 DEF Cell
  <2> QED
    BY <1>0, <2>1, <2>2, TypedCopy
<1>4. CASE CloseSide
  BY <1>4 DEF CloseSide, receiving, Typed, TypeOK, Begun, ReaderTyped
<1>5. CASE Reset
  <2>0. wire' \in Seq(Cells) /\ Len(wire') <= Capacity
    BY <1>5, StreamAssumption DEF Reset
  <2>1. TypeOK' /\ ReaderTyped'
    BY <1>5, <2>0 DEF Reset, receiving, Typed, TypeOK, ReaderTyped
  <2>2. Begun'
    BY <1>5 DEF Reset, Typed, Begun
  <2> QED
    BY <2>1, <2>2 DEF Typed
<1>6. ASSUME wire # <<>>, wire' = Tail(wire), UNCHANGED sending PROVE Begun'
  BY <1>6, Read DEF sending, Typed, Begun
<1>7. CASE ReadPrefix
  <2>1. PICK n \in PrefixValues(wire[1]) :
          \/ Accepts(n) /\ reader' = "payload" /\ need' = n
          \/ ~Accepts(n) /\ reader' = "closed" /\ UNCHANGED need
    BY <1>7, Read DEF ReadPrefix
  <2>2. n \in Nat
    <3>1. CASE wire[1].pos = 0
      <4>1. 1 \in 1..Len(wire) /\ wire[1] \in Cells
        BY <1>7, Read DEF ReadPrefix
      <4>2. wire[1].frame \in 1..Len(frames)
        BY <1>0, <4>1, StreamAssumption DEF Cells, Typed, Begun
      <4>3. frames[wire[1].frame] \in Lengths
        BY <1>0, <4>2, ElementOfSeq
      <4> QED
        BY <2>1, <3>1, <4>3, StreamAssumption DEF PrefixValues
    <3>2. CASE wire[1].pos # 0
      BY <2>1, <3>2, StreamAssumption DEF PrefixValues
    <3> QED
      BY <3>1, <3>2
  <2>3. need' \in 0..MaxLength /\ body' = body /\ body = <<>> /\ Len(body) = 0
    BY <1>7, <2>1, <2>2, StreamAssumption
    DEF Accepts, ReadPrefix, Typed, TypeOK, ReaderTyped
  <2>4. Len(wire') <= Capacity /\ wire' \in Seq(Cells)
    BY <1>7, Read, StreamAssumption DEF ReadPrefix, Typed, TypeOK
  <2>5. TypeOK'
    BY <1>7, <2>1, <2>3, <2>4 DEF ReadPrefix, sending, Typed, TypeOK
  <2>6. ReaderTyped'
    BY <2>1, <2>2, <2>3 DEF Accepts, ReaderTyped
  <2> QED
    BY <1>6, <1>7, <2>5, <2>6 DEF ReadPrefix, Typed
<1>8. CASE ReadPayload
  <2>1. PICK b : b = Append(body, wire[1])
    OBVIOUS
  <2>2. /\ body \in Seq(Cells) /\ wire[1] \in Cells /\ Len(body) \in Nat
        /\ need \in 0..MaxLength /\ MaxLength \in Nat
    BY <1>8, Read, StreamAssumption DEF ReadPayload, Typed, TypeOK
  <2>3. b \in Seq(Cells) /\ Len(b) = Len(body) + 1
    BY <2>1, <2>2
  <2>4. Len(wire') <= Capacity /\ wire' \in Seq(Cells) /\ Head(wire) = wire[1]
    BY <1>8, Read, StreamAssumption DEF ReadPayload, Typed, TypeOK
  <2>5. CASE /\ Len(body) + 1 < need /\ body' = b
             /\ UNCHANGED <<reader, need, got>>
    <3>1. TypeOK' /\ ReaderTyped'
      BY <1>8, <2>2, <2>3, <2>4, <2>5 DEF ReadPayload, sending, Typed, TypeOK, ReaderTyped
    <3> QED
      BY <1>6, <1>8, <3>1 DEF ReadPayload, Typed
  <2>6. CASE /\ got' = Append(got, b)
             /\ reader' = "prefix" /\ need' = 0 /\ body' = <<>>
    <3>1. got' \in Seq(Seq(Cells)) /\ Len(body') = 0 /\ body' \in Seq(Cells)
      BY <2>3, <2>6 DEF Typed, TypeOK
    <3>2. TypeOK' /\ ReaderTyped'
      BY <1>8, <2>2, <2>4, <2>6, <3>1 DEF ReadPayload, sending, Typed, TypeOK, ReaderTyped
    <3> QED
      BY <1>6, <1>8, <3>2 DEF ReadPayload, Typed
  <2> QED
    BY <1>8, <2>1, <2>4, <2>5, <2>6 DEF ReadPayload
<1>9. CASE ReadEnd
  BY <1>9 DEF ReadEnd, sending, Typed, TypeOK, Begun, ReaderTyped
<1>10. CASE UNCHANGED vars
  BY <1>10 DEF vars, sending, receiving, Typed, TypeOK, Begun, ReaderTyped
<1> QED
  BY <1>1, <1>2, <1>3, <1>4, <1>5, <1>7, <1>8, <1>9, <1>10 DEF Next, receive

\* The buffers never hold more than they can, a payload is never longer than its
\* prefix said or than MAX_MESSAGE_SIZE, whatever cell is read as a prefix.
THEOREM TypeCorrect == Spec => []TypeOK
<1>1. Typed => TypeOK
  BY DEF Typed
<1> QED
  BY <1>1, TypedInit, TypedStep, PTL DEF Spec

-----------------------------------------------------------------------------
(***************************************************************************)
(* The stream as one sequence of cells, while no frame was cut             *)
(***************************************************************************)
\* The cell that follows c when the frames are fs: the next of its frame, or the
\* prefix of the next frame.
After(fs, c) ==
  IF c.pos < fs[c.frame] THEN Cell(c.frame, c.pos + 1) ELSE Cell(c.frame + 1, 0)

\* A cell of a frame that was begun.
Real(fs, c) == c.frame \in 1..Len(fs) /\ c.pos \in 0..fs[c.frame]

\* The cell the reader has to get next ...
Awaited ==
  Cell(Len(got) + 1, IF reader = "payload" THEN Len(body) + 1 ELSE 0)

\* ... and the one to be copied next.
Tip == IF wire = <<>> THEN Awaited ELSE After(frames, wire[Len(wire)])

\* What receive has returned is the first frames.
GotSent ==
  /\ Len(got) <= Len(frames)
  /\ \A i \in 1..Len(got) : got[i] = Payload(i, frames[i])

\* What is in body is the beginning of the next frame.
BodyFits ==
  reader = "payload" =>
    /\ Len(got) < Len(frames) /\ need = frames[Len(got) + 1]
    /\ \A k \in 1..Len(body) : body[k] = Cell(Len(got) + 1, k)

\* The buffers hold what follows, without a gap.
WireFits ==
  reader # "closed" =>
    /\ wire # <<>> => wire[1] = Awaited
    /\ \A i \in 1..Len(wire) : Real(frames, wire[i])
    /\ \A i \in 1..Len(wire) - 1 : wire[i + 1] = After(frames, wire[i])

\* A sender has what follows that, up to the end of the last frame; if no sender
\* has anything, a new frame follows.
RestFits ==
  reader # "closed" /\ open =>
    /\ \A t \in Senders : rest[t] # <<>> =>
         /\ Tip.frame = Len(frames) /\ Len(frames) > 0
         /\ Len(rest[t]) + Tip.pos = frames[Len(frames)] + 1
         /\ \A i \in 1..Len(rest[t]) :
              rest[t][i] = Cell(Len(frames), Tip.pos + i - 1)
    /\ (\A t \in Senders : rest[t] = <<>>) => Tip = Cell(Len(frames) + 1, 0)

\* The reader gave up at a frame above MAX_MESSAGE_SIZE.
GivenUp ==
  reader = "closed" /\ open =>
    Len(got) < Len(frames) /\ frames[Len(got) + 1] > MaxLength

Whole == ~split => GotSent /\ BodyFits /\ WireFits /\ RestFits /\ GivenUp

\* Lengths are numbers, and what is read and what is on the wire can be counted.
LEMMA Sizes ==
  ASSUME Typed
  PROVE  /\ frames \in Seq(Lengths) /\ Len(frames) \in Nat
         /\ \A f \in 1..Len(frames) : frames[f] \in Nat \ {0}
         /\ Len(wire) \in Nat /\ Len(body) \in Nat /\ Len(got) \in Nat
         /\ need \in Nat /\ MaxLength \in Nat
         /\ \A t \in Senders : rest[t] \in Seq(Cells) /\ Len(rest[t]) \in Nat
<1>1. frames \in Seq(Lengths) /\ Len(frames) \in Nat
  BY DEF Typed, TypeOK
<1>2. ASSUME NEW f \in 1..Len(frames) PROVE frames[f] \in Nat \ {0}
  BY <1>1, ElementOfSeq, StreamAssumption
<1>3. \A t \in Senders : rest[t] \in Seq(Cells) /\ Len(rest[t]) \in Nat
  BY DEF Typed, TypeOK
<1>4. Len(wire) \in Nat /\ Len(body) \in Nat /\ Len(got) \in Nat
  BY DEF Typed, TypeOK
<1>5. MaxLength \in Nat /\ need \in Nat
  BY StreamAssumption DEF Typed, TypeOK
<1> QED
  BY <1>1, <1>2, <1>3, <1>4, <1>5

\* Cells of the last frame, from position p on, are copied to follow the wire.
LEMMA WholeCopy ==
  ASSUME Typed, Typed', GotSent, BodyFits, WireFits, GivenUp,
         NEW t \in Senders, NEW cells \in Seq(Cells), cells # <<>>, Copy(t, cells),
         NEW F \in Nat \ {0}, F = Len(frames'), NEW p \in Nat,
         NEW L \in Nat, L = frames'[F],
         Len(frames) <= F, \A f \in 1..Len(frames) : frames'[f] = frames[f],
         Len(cells) + p = L + 1,
         \A i \in 1..Len(cells) : cells[i] = Cell(F, p + i - 1),
         reader # "closed", Tip = Cell(F, p),
         \A u \in Senders \ {t} : rest[u] = <<>>
  PROVE  Whole'
<1>0. /\ Len(wire) \in Nat /\ Len(cells) \in Nat \ {0} /\ Len(frames) \in Nat
      /\ Len(got) \in Nat /\ Len(body) \in Nat
      /\ \A f \in 1..Len(frames) : frames[f] \in Nat \ {0} /\ f \in 1..F
  BY Sizes
<1>1. PICK n \in 1..Len(cells) :
           /\ wire' \in Seq(Cells) /\ Len(wire') = Len(wire) + n
           /\ \A i \in 1..Len(wire) : wire'[i] = wire[i]
           /\ \A i \in 1..n : wire'[Len(wire) + i] = cells[i]
           /\ rest' = [rest EXCEPT ![t] = SubSeq(cells, n + 1, Len(cells))]
           /\ SubSeq(cells, n + 1, Len(cells)) \in Seq(Cells)
           /\ Len(SubSeq(cells, n + 1, Len(cells))) = Len(cells) - n
           /\ \A i \in 1..Len(cells) - n :
                SubSeq(cells, n + 1, Len(cells))[i] = cells[n + i]
  BY Copied
<1>n. /\ n \in Nat /\ 1 <= n /\ n <= Len(cells)
      /\ Len(wire') = Len(wire) + n /\ Len(wire') \in Nat
  BY <1>0, <1>1
<1>2. UNCHANGED <<open, reader, need, body, got>>
  BY DEF Copy, receiving
<1>3. GotSent' /\ BodyFits' /\ GivenUp'
  <2>1. GotSent'
    <3>1. Len(got) <= F /\ \A i \in 1..Len(got) : i \in 1..Len(frames)
      BY <1>0 DEF GotSent
    <3> QED
      BY <1>2, <3>1 DEF GotSent
  <2>2. BodyFits'
    <3>1. CASE reader = "payload"
      <4>1. Len(got) + 1 \in 1..Len(frames) /\ Len(got) < F
        BY <1>0, <3>1 DEF BodyFits
      <4>2. frames'[Len(got) + 1] = frames[Len(got) + 1]
        BY <4>1
      <4> QED
        BY <1>2, <3>1, <4>1, <4>2 DEF BodyFits
    <3> QED
      BY <1>2, <3>1 DEF BodyFits
  <2>3. GivenUp'
    BY <1>0, <1>2 DEF GivenUp
  <2> QED
    BY <2>1, <2>2, <2>3
<1>4. WireFits' /\ RestFits'
  <2>1. Awaited' = Awaited
    BY <1>2 DEF Awaited, Cell
  <2>2. \A i \in 1..n : wire'[Len(wire) + i] = Cell(F, p + i - 1) /\ p + i - 1 \in 0..L
    <3>1. ASSUME NEW i \in 1..n PROVE i \in 1..Len(cells) /\ p + i - 1 \in 0..L
      BY <1>0, <1>n
    <3> QED
      BY <1>1, <3>1
  <2>3. \A i \in 1..Len(wire') : i \in 1..Len(wire) \/ \E k \in 1..n : i = Len(wire) + k
    <3>1. \A i \in 1..Len(wire') : i \in 1..Len(wire) \/
                (i - Len(wire) \in 1..n /\ i = Len(wire) + (i - Len(wire)))
      BY <1>0, <1>n
    <3> QED
      BY <3>1
  <2>4. ASSUME NEW i \in 1..Len(wire)
        PROVE  /\ Real(frames', wire'[i]) /\ Real(frames, wire[i]) /\ wire'[i] = wire[i]
               /\ After(frames', wire'[i]) = After(frames, wire[i])
    <3>1. Real(frames, wire[i]) /\ wire'[i] = wire[i]
      BY <1>1 DEF WireFits
    <3> QED
      BY <1>0, <3>1 DEF Real, After
  <2>5. wire'[1] = Awaited'
    <3>1. CASE wire = <<>>
      <4>1. Len(wire) = 0 /\ 1 \in 1..n /\ Len(wire) + 1 = 1
        BY <1>0, <3>1
      <4>2. wire'[1] = Cell(F, p + 1 - 1)
        BY <2>2, <4>1
      <4>3. p + 1 - 1 = p
        OBVIOUS
      <4> QED
        BY <2>1, <3>1, <4>2, <4>3 DEF Tip
    <3>2. CASE wire # <<>>
      <4>1. 1 \in 1..Len(wire)
        BY <1>0, <3>2 DEF Typed, TypeOK
      <4> QED
        BY <1>1, <2>1, <3>2, <4>1 DEF WireFits
    <3> QED
      BY <3>1, <3>2
  <2>6. ASSUME NEW i \in 1..Len(wire') PROVE Real(frames', wire'[i])
    <3>1. CASE i \in 1..Len(wire)
      BY <2>4, <3>1
    <3>2. ASSUME NEW k \in 1..n, i = Len(wire) + k PROVE Real(frames', wire'[i])
      <4>1. PICK q : q = p + k - 1
        OBVIOUS
      <4>2. /\ wire'[Len(wire) + k] = Cell(F, p + k - 1) /\ p + k - 1 \in 0..L
            /\ F \in 1..F
        <5>1. wire'[Len(wire) + k] = Cell(F, p + k - 1) /\ p + k - 1 \in 0..L
          BY <2>2
        <5>2. F \in 1..F
          OBVIOUS
        <5> QED
          BY <5>1, <5>2
      <4>3. wire'[i].frame = F /\ wire'[i].pos = q
        BY <3>2, <4>1, <4>2 DEF Cell
      <4> QED
        BY <4>1, <4>2, <4>3 DEF Real
    <3> QED
      BY <2>3, <3>1, <3>2
  <2>7. ASSUME NEW i \in 1..Len(wire') - 1 PROVE wire'[i + 1] = After(frames', wire'[i])
    <3>1. CASE i \in 1..Len(wire) - 1
      <4>1. i \in 1..Len(wire) /\ i + 1 \in 1..Len(wire)
        BY <1>0, <3>1
      <4> QED
        BY <2>4, <3>1, <4>1 DEF WireFits
    <3>2. CASE i = Len(wire)
      <4>1. i \in 1..Len(wire) /\ wire # <<>> /\ 1 \in 1..n
        BY <1>0, <1>1, <3>2
      <4>2. wire'[i + 1] = Cell(F, p + 1 - 1) /\ p + 1 - 1 = p
        BY <2>2, <3>2, <4>1
      <4>3. After(frames, wire[i]) = Cell(F, p)
        BY <3>2, <4>1 DEF Tip
      <4> QED
        BY <2>4, <4>1, <4>2, <4>3
    <3>3. CASE i > Len(wire)
      <4>1. PICK k \in 1..n : i = Len(wire) + k
        <5>1. i \in 1..Len(wire') /\ i \notin 1..Len(wire)
          BY <1>0, <1>n, <3>3
        <5> QED
          BY <2>3, <5>1
      <4>2. k + 1 \in 1..n /\ i + 1 = Len(wire) + (k + 1)
        BY <1>0, <1>n, <4>1
      <4>3. wire'[i] = Cell(F, p + k - 1) /\ wire'[i + 1] = Cell(F, p + (k + 1) - 1)
        BY <2>2, <4>1, <4>2
      <4>4. p + k - 1 < L /\ p + (k + 1) - 1 = (p + k - 1) + 1
        BY <1>0, <4>2
      <4> QED
        BY <4>3, <4>4 DEF After, Cell
    <3> QED
      BY <1>0, <1>1, <3>1, <3>2, <3>3
  <2>8. WireFits'
    BY <2>5, <2>6, <2>7 DEF WireFits
  <2>9. Tip' = IF n < Len(cells) THEN Cell(F, p + n) ELSE Cell(F + 1, 0)
    <3>1. wire' # <<>> /\ n \in 1..n /\ Len(wire') = Len(wire) + n
      BY <1>0, <1>1
    <3>2. wire'[Len(wire')] = Cell(F, p + n - 1)
      BY <2>2, <3>1
    <3>3. (p + n - 1 < L <=> n < Len(cells)) /\ (p + n - 1) + 1 = p + n
      BY <1>0
    <3>4. Tip' = IF p + n - 1 < L THEN Cell(F, (p + n - 1) + 1) ELSE Cell(F + 1, 0)
      BY <3>1, <3>2 DEF Tip, After, Cell
    <3> QED
      BY <3>3, <3>4
  <2>10. PICK left : left = SubSeq(cells, n + 1, Len(cells))
    OBVIOUS
  <2>11. /\ rest'[t] = left /\ Len(left) = Len(cells) - n /\ left \in Seq(Cells)
         /\ \A i \in 1..Len(left) : left[i] = cells[n + i]
         /\ \A u \in Senders \ {t} : rest'[u] = <<>>
    BY <1>1, <2>10 DEF Typed, TypeOK
  <2>12. left = <<>> <=> n = Len(cells)
    BY <1>0, <2>11
  <2>13. CASE n < Len(cells)
    <3>1. Tip'.frame = F /\ Tip'.pos = p + n /\ Len(left) + (p + n) = L + 1
      BY <1>0, <2>9, <2>11, <2>13 DEF Cell
    <3>2. ASSUME NEW i \in 1..Len(left) PROVE left[i] = Cell(F, (p + n) + i - 1)
      <4>1. n + i \in 1..Len(cells) /\ p + (n + i) - 1 = (p + n) + i - 1
        BY <1>0, <2>11
      <4> QED
        BY <2>11, <4>1
    <3>3. left # <<>>
      BY <2>12, <2>13
    <3>4. ASSUME NEW u \in Senders, rest'[u] # <<>> PROVE u = t
      BY <2>11, <3>4
    <3>5. PICK q : q = Tip'.pos
      OBVIOUS
    <3>6. /\ Len(left) + q = L + 1
          /\ \A i \in 1..Len(left) : left[i] = Cell(F, q + i - 1)
      BY <3>1, <3>2, <3>5
    <3>7. ASSUME NEW u \in Senders, rest'[u] # <<>>
          PROVE  /\ Tip'.frame = Len(frames') /\ Len(frames') > 0
                 /\ Len(rest'[u]) + Tip'.pos = frames'[Len(frames')] + 1
                 /\ \A i \in 1..Len(rest'[u]) :
                      rest'[u][i] = Cell(Len(frames'), Tip'.pos + i - 1)
      <4>1. u = t /\ rest'[u] = left
        BY <2>11, <3>4, <3>7
      <4>2. \A i \in 1..Len(left) : left[i] = Cell(Len(frames'), Tip'.pos + i - 1)
        BY <3>5, <3>6
      <4>3. Len(left) + Tip'.pos = frames'[Len(frames')] + 1
        BY <3>5, <3>6
      <4> QED
        BY <3>1, <4>1, <4>2, <4>3
    <3>8. RestFits'
      BY <2>11, <3>3, <3>7 DEF RestFits
    <3> QED
      BY <2>8, <3>8
  <2>14. CASE n = Len(cells)
    <3>1. Tip' = Cell(F + 1, 0) /\ \A u \in Senders : rest'[u] = <<>>
      BY <1>0, <2>9, <2>11, <2>12, <2>14
    <3>2. RestFits'
      BY <3>1 DEF RestFits
    <3> QED
      BY <2>8, <3>2
  <2> QED
    BY <1>0, <2>13, <2>14
<1> QED
  BY <1>3, <1>4 DEF Whole

\* Once the reader has given up, nothing is asked of what is still sent.
LEMMA WholeClosed ==
  ASSUME Typed, Typed', GotSent, GivenUp, reader = "closed", UNCHANGED <<reader, got>>,
         open' => open, Len(frames) <= Len(frames'),
         \A f \in 1..Len(frames) : frames'[f] = frames[f]
  PROVE  Whole'
<1>0. /\ Len(frames) \in Nat /\ Len(frames') \in Nat /\ Len(got) \in Nat
      /\ \A f \in 1..Len(frames) : frames[f] \in Nat
  BY Sizes DEF Typed, TypeOK
<1>1. GotSent'
  BY <1>0 DEF GotSent
<1>2. GivenUp'
  <2>1. CASE open
    <3>1. Len(got) + 1 \in 1..Len(frames) /\ Len(got) < Len(frames')
      BY <1>0, <2>1 DEF GivenUp
    <3> QED
      BY <2>1, <3>1 DEF GivenUp
  <2> QED
    BY <2>1 DEF GivenUp
<1> QED
  BY <1>1, <1>2 DEF Whole, BodyFits, WireFits, RestFits

\* The reader takes the first cell, and waits for the one after it.
LEMMA WholeRead ==
  ASSUME Typed, WireFits, RestFits, reader # "closed", wire # <<>>, wire' = Tail(wire),
         UNCHANGED <<frames, rest, open>>, Awaited' = After(frames, wire[1])
  PROVE  WireFits' /\ RestFits'
<1>1. /\ Len(wire) \in Nat \ {0} /\ Len(wire') = Len(wire) - 1 /\ wire' \in Seq(Cells)
      /\ \A i \in 1..Len(wire') : wire'[i] = wire[i + 1] /\ i + 1 \in 1..Len(wire)
  BY Read
<1>2. ASSUME NEW i \in 1..Len(wire') - 1
      PROVE  wire'[i + 1] = After(frames, wire'[i])
  <2>1. i \in 1..Len(wire') /\ i + 1 \in 1..Len(wire') /\ i + 1 \in 1..Len(wire) - 1
    BY <1>1
  <2> QED
    BY <1>1, <2>1 DEF WireFits
<1>3. wire' # <<>> => wire'[1] = Awaited'
  <2>1. ASSUME wire' # <<>> PROVE 1 \in 1..Len(wire') /\ 1 \in 1..Len(wire) - 1
    BY <1>1, <2>1
  <2> QED
    BY <1>1, <2>1 DEF WireFits
<1>4. WireFits'
  BY <1>1, <1>2, <1>3 DEF WireFits
<1>5. Tip' = Tip
  <2>1. CASE wire' = <<>>
    <3>1. Len(wire) = 1
      BY <1>1, <2>1
    <3> QED
      BY <2>1, <3>1 DEF Tip
  <2>2. CASE wire' # <<>>
    <3>1. Len(wire') \in 1..Len(wire') /\ Len(wire') + 1 = Len(wire)
      BY <1>1, <2>2
    <3>2. wire'[Len(wire')] = wire[Len(wire)]
      BY <1>1, <3>1
    <3> QED
      BY <2>2, <3>2 DEF Tip
  <2> QED
    BY <2>1, <2>2
<1>6. RestFits'
  <2>1. PICK tip : tip = Tip
    OBVIOUS
  <2>2. tip = Tip'
    BY <1>5, <2>1
  <2> QED
    BY <2>1, <2>2 DEF RestFits
<1> QED
  BY <1>4, <1>6

\* Every step keeps the stream whole, unless it cuts a frame.
LEMMA WholeStep ==
  ASSUME Typed, Typed', Whole, [Next]_vars
  PROVE  Whole'
<1> SUFFICES ASSUME ~split' PROVE Whole'
  BY DEF Whole
<1>0. ~split
  BY DEF Next, SendMore, SendCut, send, Copy, CloseSide, Reset, receive, ReadPrefix,
         ReadPayload, ReadEnd, sending, vars, Typed, TypeOK
<1>1. GotSent /\ BodyFits /\ WireFits /\ RestFits /\ GivenUp
  BY <1>0 DEF Whole
<1>2. /\ Len(frames) \in Nat /\ Len(got) \in Nat /\ Len(body) \in Nat
      /\ \A f \in 1..Len(frames) : frames[f] \in Nat \ {0}
  BY Sizes
<1>3. ASSUME NEW t \in Senders, SendMore(t) PROVE Whole'
  <2>1. /\ rest[t] \in Seq(Cells) /\ rest[t] # <<>> /\ Copy(t, rest[t]) /\ frames' = frames
        /\ open /\ UNCHANGED <<open, reader, got>>
    BY <1>3 DEF SendMore, Copy, receiving, Typed, TypeOK
  <2>2. CASE reader = "closed"
    BY <1>1, <1>2, <2>1, <2>2, WholeClosed
  <2>3. CASE reader # "closed"
    <3>1. PICK cells : cells = rest[t]
      OBVIOUS
    <3>2. PICK p : p = Tip.pos
      OBVIOUS
    <3>3. PICK F : F = Len(frames)
      OBVIOUS
    <3>4. PICK L : L = frames[F]
      OBVIOUS
    <3>5. /\ Tip.frame = F /\ F > 0 /\ Len(cells) + p = L + 1
          /\ \A i \in 1..Len(cells) : cells[i] = Cell(F, p + i - 1)
      BY <1>1, <2>1, <2>3, <3>1, <3>2, <3>3, <3>4 DEF RestFits
    <3>6. F \in Nat \ {0} /\ L \in Nat
      BY <1>2, <3>3, <3>4, <3>5
    <3>7. Tip = Cell(F, p) /\ p \in Nat
      <4>1. CASE wire = <<>>
        BY <1>2, <3>2, <3>5, <4>1 DEF Tip, Awaited, Cell
      <4>2. CASE wire # <<>>
        <5>1. Len(wire) \in 1..Len(wire)
          BY <4>2, Sizes DEF Typed, TypeOK
        <5>2. Real(frames, wire[Len(wire)])
          BY <1>1, <2>3, <5>1 DEF WireFits
        <5> QED
          BY <3>2, <3>5, <4>2, <5>2, <1>2 DEF Tip, After, Real, Cell
      <4> QED
        BY <4>1, <4>2
    <3>8. \A u \in Senders \ {t} : rest[u] = <<>>
      BY <1>3 DEF SendMore, Copy
    <3> QED
      <4>1. /\ cells \in Seq(Cells) /\ cells # <<>> /\ Copy(t, cells)
            /\ F = Len(frames') /\ L = frames'[F] /\ Len(frames) <= F
            /\ \A f \in 1..Len(frames) : frames'[f] = frames[f]
        BY <1>2, <2>1, <3>1, <3>3, <3>4
      <4> QED
        BY <1>1, <2>3, <3>5, <3>6, <3>7, <3>8, <4>1, WholeCopy
  <2> QED
    BY <2>2, <2>3
<1>4. ASSUME NEW t \in Senders, NEW n \in Lengths, send(t, n) PROVE Whole'
  <2>1. PICK cells \in Seq(Cells) :
           /\ cells # <<>> /\ Copy(t, cells) /\ rest[t] = <<>>
           /\ frames' \in Seq(Lengths) /\ Len(frames') = Len(frames) + 1
           /\ frames'[Len(frames) + 1] = n
           /\ \A f \in 1..Len(frames) : frames'[f] = frames[f]
           /\ Len(cells) = n + 1
           /\ \A i \in 1..n + 1 : cells[i] = Cell(Len(frames) + 1, i - 1)
    BY <1>4, SendBegins
  <2>2. open /\ UNCHANGED <<open, reader, got>>
    BY <2>1 DEF Copy, receiving
  <2>3. CASE reader = "closed"
    BY <1>1, <1>2, <2>1, <2>2, <2>3, WholeClosed
  <2>4. CASE reader # "closed"
    <3>1. PICK F \in Nat \ {0} : F = Len(frames) + 1
      BY <1>2
    <3>2. n \in Nat /\ Len(cells) + 0 = n + 1 /\ Len(frames) <= F
      BY <1>2, <2>1, <3>1, StreamAssumption
    <3>3. \A i \in 1..Len(cells) : cells[i] = Cell(F, 0 + i - 1)
      <4>1. \A i \in 1..Len(cells) : 0 + i - 1 = i - 1 /\ i \in 1..n + 1
        BY <2>1, <3>2
      <4> QED
        BY <2>1, <3>1, <4>1
    <3>4. \A u \in Senders : rest[u] = <<>>
      BY <1>4, <2>1 DEF send, Copy
    <3>5. Tip = Cell(F, 0)
      BY <1>1, <2>2, <2>4, <3>1, <3>4 DEF RestFits
    <3> QED
      BY <1>1, <2>1, <2>4, <3>1, <3>2, <3>3, <3>4, <3>5, WholeCopy
  <2> QED
    BY <2>3, <2>4
<1>5. ASSUME ~open', UNCHANGED <<frames, receiving>>, wire' = wire \/ wire' = <<>>
      PROVE  Whole'
  <2>1. GotSent' /\ BodyFits'
    BY <1>1, <1>5 DEF GotSent, BodyFits, receiving
  <2>2. WireFits'
    BY <1>1, <1>5 DEF WireFits, Awaited, receiving
  <2> QED
    BY <1>5, <2>1, <2>2 DEF Whole, RestFits, GivenUp
<1>6. CASE CloseSide \/ Reset \/ \E t \in Senders : SendCut(t)
  BY <1>5, <1>6 DEF CloseSide, Reset, SendCut
<1>7. ASSUME wire # <<>>, reader # "closed", wire' = Tail(wire), UNCHANGED sending
      PROVE  /\ wire[1] = Awaited /\ Real(frames, wire[1]) /\ Head(wire) = wire[1]
             /\ UNCHANGED <<frames, rest, open>>
  <2>1. 1 \in 1..Len(wire)
    BY <1>7, Read
  <2> QED
    BY <1>1, <1>7, <2>1, Read DEF WireFits, sending
<1>8. CASE ReadPrefix
  <2>1. PICK g : g = Len(got) + 1
    OBVIOUS
  <2>2. /\ wire[1] = Cell(g, 0) /\ Real(frames, wire[1]) /\ Head(wire) = wire[1]
        /\ UNCHANGED <<frames, rest, open>>
    BY <1>7, <1>8, <2>1 DEF ReadPrefix, Awaited
  <2>3. g \in 1..Len(frames) /\ PrefixValues(wire[1]) = {frames[g]}
    BY <2>2 DEF Real, Cell, PrefixValues
  <2>4. body = <<>> /\ body' = <<>> /\ Len(body') = 0 /\ got' = got
    BY <1>8 DEF ReadPrefix, Typed, ReaderTyped
  <2>5. GotSent'
    BY <1>1, <2>2, <2>4 DEF GotSent
  <2>6. CASE Accepts(frames[g]) /\ reader' = "payload" /\ need' = frames[g]
    <3>1. BodyFits'
      BY <1>2, <2>1, <2>2, <2>3, <2>4, <2>6 DEF BodyFits
    <3>2. After(frames, wire[1]) = Cell(g, 1)
      BY <1>2, <2>2, <2>3 DEF After, Cell
    <3>3. Awaited' = Cell(g, 1)
      BY <2>1, <2>4, <2>6 DEF Awaited
    <3>4. WireFits' /\ RestFits'
      BY <1>1, <1>8, <2>2, <3>2, <3>3, WholeRead DEF ReadPrefix
    <3> QED
      BY <2>5, <2>6, <3>1, <3>4 DEF Whole, GivenUp
  <2>7. CASE ~Accepts(frames[g]) /\ reader' = "closed"
    <3>1. frames[g] \in Nat \ {0} /\ frames[g] > MaxLength
      BY <1>2, <2>3, <2>7, Sizes DEF Accepts
    <3>2. GivenUp'
      BY <1>2, <2>1, <2>2, <2>3, <2>4, <3>1 DEF GivenUp
    <3> QED
      BY <2>5, <2>7, <3>2 DEF Whole, BodyFits, WireFits, RestFits
  <2> QED
    BY <1>8, <2>2, <2>3, <2>6, <2>7 DEF ReadPrefix
<1>9. CASE ReadPayload
  <2>1. PICK g : g = Len(got) + 1
    OBVIOUS
  <2>2. PICK b : b = Len(body) + 1
    OBVIOUS
  <2>3. /\ wire[1] = Cell(g, b) /\ Real(frames, wire[1]) /\ Head(wire) = wire[1]
        /\ UNCHANGED <<frames, rest, open>>
    BY <1>7, <1>9, <2>1, <2>2 DEF ReadPayload, Awaited
  <2>4. /\ g \in 1..Len(frames) /\ b \in Nat /\ b <= frames[g] /\ need = frames[g]
        /\ \A k \in 1..Len(body) : body[k] = Cell(g, k)
    BY <1>1, <1>2, <1>9, <2>1, <2>2, <2>3 DEF BodyFits, ReadPayload, Real, Cell
  <2>5. PICK read : read = Append(body, wire[1])
    OBVIOUS
  <2>6. /\ read \in Seq(Cells) /\ Len(read) = b
        /\ \A k \in 1..b : read[k] = Cell(g, k)
    <3>1. body \in Seq(Cells) /\ wire[1] \in Cells
      BY <1>9, Read DEF ReadPayload, Typed, TypeOK
    <3>2. read \in Seq(Cells) /\ Len(read) = b /\ read[b] = wire[1]
      BY <2>2, <2>5, <3>1
    <3>3. \A k \in 1..Len(body) : read[k] = body[k]
      BY <2>5, <3>1
    <3>4. \A k \in 1..b : k \in 1..Len(body) \/ k = b
      BY <1>2, <2>2
    <3> QED
      BY <2>3, <2>4, <3>2, <3>3, <3>4
  <2>7. CASE b < need /\ body' = read /\ UNCHANGED <<reader, need, got>>
    <3>1. GotSent' /\ BodyFits'
      BY <1>1, <2>1, <2>3, <2>4, <2>6, <2>7 DEF GotSent, BodyFits
    <3>2. After(frames, wire[1]) = Cell(g, b + 1)
      BY <2>3, <2>4, <2>7 DEF After, Cell
    <3>3. Awaited' = Cell(g, b + 1)
      BY <1>9, <2>1, <2>6, <2>7 DEF Awaited, ReadPayload
    <3>4. WireFits' /\ RestFits'
      BY <1>1, <1>9, <2>3, <3>2, <3>3, WholeRead DEF ReadPayload
    <3> QED
      BY <1>9, <2>7, <3>1, <3>4 DEF Whole, GivenUp, ReadPayload
  <2>8. CASE b = need /\ got' = Append(got, read) /\ reader' = "prefix"
    <3>1. read = Payload(g, frames[g])
      <4>1. read = [k \in 1..b |-> read[k]]
        BY <2>6
      <4> QED
        BY <2>4, <2>6, <2>8, <4>1 DEF Payload
    <3>2. got \in Seq(Seq(Cells))
      BY DEF Typed, TypeOK
    <3>3. /\ Len(got') = g /\ got'[g] = read
          /\ \A i \in 1..Len(got) : got'[i] = got[i]
      BY <2>1, <2>6, <2>8, <3>2
    <3>4. GotSent'
      <4>1. \A i \in 1..g : i \in 1..Len(got) \/ i = g
        BY <1>2, <2>1
      <4>2. \A i \in 1..g : got'[i] = Payload(i, frames[i])
        BY <1>1, <3>1, <3>3, <4>1 DEF GotSent
      <4> QED
        BY <2>3, <2>4, <3>3, <4>2 DEF GotSent
    <3>5. After(frames, wire[1]) = Cell(g + 1, 0)
      BY <2>3, <2>4, <2>8 DEF After, Cell
    <3>6. Awaited' = Cell(g + 1, 0)
      BY <2>8, <3>3 DEF Awaited
    <3>7. WireFits' /\ RestFits'
      BY <1>1, <1>9, <2>3, <3>5, <3>6, WholeRead DEF ReadPayload
    <3> QED
      BY <2>8, <3>4, <3>7 DEF Whole, GivenUp, BodyFits
  <2> QED
    BY <1>9, <2>2, <2>3, <2>5, <2>7, <2>8 DEF ReadPayload
<1>10. CASE ReadEnd
  <2>1. GotSent'
    BY <1>1, <1>10 DEF ReadEnd, sending, GotSent
  <2> QED
    BY <1>10, <2>1
    DEF ReadEnd, sending, Whole, BodyFits, WireFits, RestFits, GivenUp
<1>11. CASE UNCHANGED vars
  BY <1>1, <1>11
  DEF vars, sending, receiving, Whole, GotSent, BodyFits, WireFits, RestFits, GivenUp,
      Tip, Awaited
<1> QED
  BY <1>3, <1>4, <1>6, <1>8, <1>9, <1>10, <1>11 DEF Next, receive

\* Nothing sent: the reader waits for the prefix of the first frame.
LEMMA WholeInit == Init => Whole
<1> SUFFICES ASSUME Init PROVE Whole
  OBVIOUS
<1>1. Len(frames) = 0 /\ Len(got) = 0 /\ Len(wire) = 0
  BY DEF Init
<1>2. Tip = Cell(1, 0)
  BY <1>1 DEF Init, Tip, Awaited
<1>3. RestFits
  BY <1>1, <1>2 DEF Init, RestFits
<1> QED
  BY <1>1, <1>3 DEF Init, Whole, GotSent, BodyFits, WireFits, GivenUp

\* The messages received are a prefix of those sent.
LEMMA GotIsPrefix ==
  ASSUME Typed, GotSent
  PROVE  IsPrefix(got, Sent)
<1>1. /\ frames \in Seq(Lengths) /\ Len(frames) \in Nat /\ Len(got) \in Nat
      /\ \A f \in 1..Len(frames) : frames[f] \in Nat
      /\ DOMAIN frames = 1..Len(frames) /\ got \in Seq(Seq(Cells))
  BY Sizes DEF Typed, TypeOK
<1>2. PICK S : S = {Sent[f] : f \in DOMAIN frames}
  OBVIOUS
<1>3. Sent \in Seq(S) /\ Len(Sent) = Len(frames)
  BY <1>1, <1>2, IsASeq DEF Sent
<1>4. \A i \in 1..Len(got) : got[i] = Sent[i] /\ i \in 1..Len(frames)
  BY <1>1 DEF GotSent, Sent
<1>5. Len(got) <= Len(Sent)
  BY <1>3 DEF GotSent
<1>6. SubSeq(got, 1, Len(got)) = [i \in 1..Len(got) |-> got[i]]
  BY <1>1
<1>7. SubSeq(Sent, 1, Len(got)) = [i \in 1..Len(got) |-> Sent[i]]
  BY <1>1, <1>3, <1>5
<1> QED
  BY <1>4, <1>5, <1>6, <1>7 DEF IsPrefix

\* As long as no frame was cut, receive returns the messages sent, whole and in
\* order, for any frame lengths and buffer size.
THEOREM ReceivedAsSent == Spec => []FramesIntact
<1>1. Typed /\ Whole => FramesIntact
  BY GotIsPrefix DEF Whole, FramesIntact
<1>2. Typed /\ Whole /\ [Next]_vars => Typed' /\ Whole'
  BY TypedStep, WholeStep
<1> QED
  BY <1>1, <1>2, TypedInit, WholeInit, PTL DEF Spec

\* As long as no frame was cut and the connection is up, the reader gives up only
\* at a message above MAX_MESSAGE_SIZE.
THEOREM GivesUpForCause == Spec => []ClosedForCause
<1>1. Whole => ClosedForCause
  BY DEF Whole, GivenUp, ClosedForCause
<1>2. Typed /\ Whole /\ [Next]_vars => Typed' /\ Whole'
  BY TypedStep, WholeStep
<1> QED
  BY <1>1, <1>2, TypedInit, WholeInit, PTL DEF Spec

=============================================================================
