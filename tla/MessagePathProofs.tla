------------------------- MODULE MessagePathProofs -------------------------
(***************************************************************************)
(* What is proved of MessagePath, for any table of definitions, and any    *)
(* names, texts and values typed: the settings stay usable, and a text     *)
(* arrives as it was written, under the header the server gave it.  What   *)
(* happens to a text on the way is in MessageParserProofs.                 *)
(***************************************************************************)
EXTENDS MessagePath, MessageParserProofs

\* The map has the keys of the table, each with a value that set accepts.
Accepted ==
  /\ config \in [Keys -> Values \cup Range(Defaults)]
  /\ \A key \in Keys : validateValue(key, config[key])

\* The defaults pass the test of set.
LEMMA AcceptedInit == Init => Accepted
<1>1. Defaults \in [Keys -> Values \cup Range(Defaults)]
  BY DEF Defaults, Range
<1> QED
  BY <1>1, DefaultsAssumption DEF Init, Accepted

\* Whatever is typed, a value enters the map only through validateValue.
LEMMA AcceptedStep == Accepted /\ [Next]_vars => Accepted'
<1> SUFFICES ASSUME Accepted, [Next]_vars PROVE Accepted'
  OBVIOUS
<1>1. CASE config' = config
  BY <1>1 DEF Accepted
<1>2. ASSUME NEW key, NEW value \in Values, cmdSet(key, value) PROVE Accepted'
  <2>1. /\ key \in Keys /\ validateValue(key, value)
        /\ config' = [config EXCEPT ![key] = value]
    BY <1>2 DEF cmdSet, set
  <2>2. \A k \in Keys : validateValue(k, config'[k])
    BY <2>1 DEF Accepted
  <2>3. config' \in [Keys -> Values \cup Range(Defaults)]
    BY <2>1 DEF Accepted
  <2> QED
    BY <2>2, <2>3 DEF Accepted
<1>3. CASE cmdReset
  <2>1. config' = Defaults
    BY <1>3 DEF cmdReset, reset
  <2>2. Defaults \in [Keys -> Values \cup Range(Defaults)]
    BY DEF Defaults, Range
  <2> QED
    BY <2>1, <2>2, DefaultsAssumption DEF Accepted
<1> QED
  BY <1>1, <1>2, <1>3
  DEF Next, handleConnect, SendNew, sendMessage, Reply, handleSendMessage, NothingQueued,
      Dispatch, cmdSend, storeMessage, NoReply, vars

\* Every numeric setting can be read back, and is within its bounds, after any
\* sequence of /set and /reset: what validateValue accepts is what getInt finds,
\* whatever stoi makes of the text.
THEOREM SettingsStayUsable == Spec => []SettingsUsable
<1>1. Accepted => SettingsUsable
  BY DEF Accepted, SettingsUsable, validateValue, getInt
<1> QED
  BY <1>1, AcceptedInit, AcceptedStep, PTL DEF Spec

-----------------------------------------------------------------------------
(***************************************************************************)
(* The frames                                                              *)
(***************************************************************************)
\* What isValidUsername leaves in a name.
IsName(name) == name \in Text /\ \A i \in DOMAIN name : IsWord(name[i])

LEMMA TextsTyped ==
  /\ Names \subseteq Text /\ Texts \subseteq Text
  /\ All \in Text /\ SERVER \in Text /\ Now \in Text
  /\ <<"Private">> \in Text /\ <<"0">> \in Text /\ <<RePrefix>> \in Text
  /\ {"CONNECT", "SEND", "MESSAGE"} \subseteq Symbols
  /\ Delimiter \notin {"CONNECT", "SEND", "MESSAGE"}
<1>1. {"Private", "0", RePrefix} \subseteq Symbols
  BY MessagePathAssumption
<1>2. /\ <<"Private">> \in Text /\ <<"0">> \in Text /\ <<RePrefix>> \in Text
  BY <1>1, OneSymbol
<1>3. Delimiter \notin {"CONNECT", "SEND", "MESSAGE"}
  BY DEF Delimiter
<1> QED
  BY <1>2, <1>3, MessagePathAssumption

\* A text is plain when HasDelimiter does not find a delimiter in it.
LEMMA PlainTexts ==
  ASSUME NEW s \in Text
  PROVE  s \in PlainText <=> ~HasDelimiter(s)
BY DEF PlainText, HasDelimiter, Contains

\* A name holds no delimiter, and sanitize leaves it as it is.
LEMMA NamesPlain ==
  ASSUME NEW name, IsName(name)
  PROVE  name \in PlainText /\ sanitize(name) = name
<1>1. name \in Text /\ DOMAIN name = 1..Len(name)
  BY DEF IsName, Text
<1>2. \A i \in DOMAIN name : name[i] # Control /\ name[i] # Delimiter
  BY DEF IsName, IsWord
<1> QED
  BY <1>1, <1>2, SanitizeWords DEF PlainText

\* The words the programs put where a name or a number goes.
LEMMA WordsAreNames == IsName(All) /\ Now \in PlainText
<1>1. IsName(All)
  <2>1. IsWord("all")
    BY DEF IsWord, Delimiter, Newline, Control, Space
  <2>2. DOMAIN All = 1..1 /\ All[1] = "all"
    BY DEF All
  <2> QED
    <3>1. \A i \in DOMAIN All : IsWord(All[i])
      BY <2>1, <2>2
    <3> QED
      BY <3>1, TextsTyped DEF IsName
<1>2. Now \in PlainText
  <2>1. Len(Now) = 1 /\ Now[1] # Delimiter
    BY DEF Now, Delimiter
  <2>2. \A i \in 1..Len(Now) : Now[i] # Delimiter
    BY <2>1
  <2> QED
    BY <2>2, TextsTyped DEF PlainText
<1> QED
  BY <1>1, <1>2

\* CONNECT carries a name over as it is.
LEMMA ConnectFrame ==
  ASSUME NEW name, IsName(name)
  PROVE  sanitize(parse(build("CONNECT", <<name>>)).arguments[1]) = name
<1>1. name \in PlainText /\ sanitize(name) = name
  BY NamesPlain
<1>2. PICK args : args = <<name>>
  OBVIOUS
<1>3. args \in Seq(PlainText) /\ Len(args) = 1 /\ args[1] = name
  BY <1>1, <1>2
<1>4. parse(build("CONNECT", args)).arguments = args
  BY <1>3, TextsTyped, ParseUndoesBuild
<1> QED
  BY <1>1, <1>2, <1>3, <1>4

\* SEND carries a name and a plain subject and body over as they are.
LEMMA SendFrame ==
  ASSUME NEW recipient \in Text, NEW subject \in Text, NEW body \in Text
  PROVE  LET frame == build("SEND", <<recipient, subject, body>>) IN
         /\ frame \in Text
         /\ recipient \in PlainText /\ subject \in PlainText /\ body \in PlainText =>
              parse(frame).arguments = <<recipient, subject, body>>
<1>1. PICK args : args = <<recipient, subject, body>>
  OBVIOUS
<1>2. args \in Seq(Text) /\ Len(args) = 3
  BY <1>1
<1>3. build("SEND", args) \in Text
  BY <1>2, TextsTyped, BuildText
<1>4. ASSUME recipient \in PlainText, subject \in PlainText, body \in PlainText
      PROVE  parse(build("SEND", args)).arguments = args
  <2>1. args \in Seq(PlainText)
    BY <1>1, <1>4
  <2> QED
    BY <1>2, <2>1, TextsTyped, ParseUndoesBuild
<1> QED
  BY <1>1, <1>3, <1>4

\* MESSAGE carries four plain fields over as they are.
LEMMA MessageFrame ==
  ASSUME NEW from \in Text, NEW subject \in Text, NEW body \in Text, NEW time \in Text
  PROVE  LET frame == build("MESSAGE", <<from, subject, body, time>>) IN
         /\ frame \in Text
         /\ /\ from \in PlainText /\ subject \in PlainText
            /\ body \in PlainText /\ time \in PlainText
            => parse(frame).arguments = <<from, subject, body, time>>
<1>1. PICK args : args = <<from, subject, body, time>>
  OBVIOUS
<1>2. args \in Seq(Text) /\ Len(args) = 4
  BY <1>1
<1>3. build("MESSAGE", args) \in Text
  BY <1>2, TextsTyped, BuildText
<1>4. ASSUME from \in PlainText, subject \in PlainText, body \in PlainText, time \in PlainText
      PROVE  parse(build("MESSAGE", args)).arguments = args
  <2>1. args \in Seq(PlainText)
    BY <1>1, <1>4
  <2> QED
    BY <1>2, <2>1, TextsTyped, ParseUndoesBuild
<1> QED
  BY <1>1, <1>3, <1>4

-----------------------------------------------------------------------------
(***************************************************************************)
(* The inductive invariant                                                 *)
(***************************************************************************)
NamesAreWords == \A u \in names : IsName(u)

\* What the frame SEND holds.
Sent ==
  stage = "SEND" =>
    /\ origin \in names /\ IsName(draft.to) /\ isValidSubject(Defaults, draft.subject)
    /\ Plain => parse(raw).arguments = <<draft.to, draft.subject, draft.body>>

\* A subject and a body are those of a plain draft.
AsWritten(subject, body) ==
  Plain => /\ draft.to \in {to, All}
           /\ subject = sanitize(draft.subject)
           /\ body = sanitize(draft.body)

\* What the Message in the queue holds.
Queued ==
  stage = "queued" =>
    /\ origin \in names /\ msg.from = origin /\ msg.timestamp = Now
    /\ msg.subject \in PlainText /\ msg.body \in PlainText
    /\ AsWritten(msg.subject, msg.body)

\* What the frame MESSAGE of a client's message holds.
Delivered ==
  stage = "MESSAGE" /\ origin # SERVER =>
    /\ parse(raw).arguments[1] = origin /\ parse(raw).arguments[4] = Now
    /\ AsWritten(parse(raw).arguments[2], parse(raw).arguments[3])

\* What the recipient has stored of a client's message.
Stored ==
  stage = "stored" /\ origin # SERVER =>
    /\ inbox.from = origin /\ inbox.timestamp = stoi(Now)
    /\ AsWritten(inbox.subject, inbox.body)

Inv == PathTypeOK /\ NamesAreWords /\ Sent /\ Queued /\ Delivered /\ Stored

\* The settings do not appear in the invariant, so /set and /reset keep it.
LEMMA InvUnchanged ==
  Inv /\ UNCHANGED <<names, path>> => Inv'
<1> SUFFICES ASSUME Inv, UNCHANGED <<names, path>> PROVE Inv'
  OBVIOUS
<1>1. /\ names' = names /\ stage' = stage /\ origin' = origin /\ draft' = draft
      /\ to' = to /\ raw' = raw /\ msg' = msg /\ inbox' = inbox
  BY DEF path
<1> QED
  BY <1>1 DEF Inv, PathTypeOK, NamesAreWords, Sent, Queued, Delivered, Stored, AsWritten, Plain

\* A login adds the name as the user typed it.
LEMMA ConnectStep ==
  ASSUME Inv, NEW name \in Names, handleConnect(name)
  PROVE  Inv'
<1>1. IsName(name)
  BY TextsTyped DEF handleConnect, isValidUsername, IsName
<1>2. names' = names \cup {name}
  BY <1>1, ConnectFrame DEF handleConnect
<1>3. /\ stage = "idle" /\ stage' = stage /\ origin' = origin /\ draft' = draft
      /\ to' = to /\ raw' = raw /\ msg' = msg /\ inbox' = inbox
  BY DEF handleConnect, path
<1>4. PathTypeOK'
  BY <1>2, <1>3 DEF Inv, PathTypeOK
<1>5. NamesAreWords'
  BY <1>1, <1>2 DEF Inv, NamesAreWords
<1> QED
  BY <1>3, <1>4, <1>5 DEF Inv, Sent, Queued, Delivered, Stored

\* sendMessage puts what the user typed into the frame.
LEMMA SendStep ==
  ASSUME Inv, NEW from \in names, NEW recipient \in Text, NEW subject \in Text,
         NEW body \in Text, sendMessage(from, recipient, subject, body)
  PROVE  Inv'
<1>1. IsName(recipient)
  BY WordsAreNames DEF sendMessage, isValidUsername, IsName
<1>2. /\ stage' = "SEND" /\ origin' = from /\ names' = names
      /\ draft'.to = recipient /\ draft'.subject = subject /\ draft'.body = body
      /\ raw' = build("SEND", <<recipient, subject, body>>)
      /\ to' = None /\ msg' = None /\ inbox' = None
      /\ isValidSubject(Defaults, subject)
  BY DEF sendMessage
<1>3. PICK frame : frame = build("SEND", <<recipient, subject, body>>)
  OBVIOUS
<1>4. /\ frame \in Text
      /\ recipient \in PlainText /\ subject \in PlainText /\ body \in PlainText =>
           parse(frame).arguments = <<recipient, subject, body>>
  BY <1>3, SendFrame
<1>5. PathTypeOK'
  BY <1>2, <1>3, <1>4 DEF Inv, PathTypeOK
<1>6. Sent'
  <2>1. ASSUME Plain' PROVE parse(frame).arguments = <<recipient, subject, body>>
    <3>1. subject \in PlainText /\ body \in PlainText
      BY <2>1, <1>2, PlainTexts DEF Plain
    <3> QED
      BY <3>1, <1>1, <1>4, NamesPlain
  <2>2. raw' = frame
    BY <1>2, <1>3
  <2> QED
    BY <1>1, <1>2, <2>1, <2>2 DEF Sent, isValidSubject
<1> QED
  BY <1>2, <1>5, <1>6 DEF Inv, NamesAreWords, Queued, Delivered, Stored

\* handleSendMessage takes plain fields out of the frame, whatever it holds.
LEMMA ReceiveStep ==
  ASSUME Inv, NEW u \in names, handleSendMessage(u)
  PROVE  Inv'
<1>1. PICK args : args = parse(raw).arguments
  OBVIOUS
<1>2. PICK f : f = Fields(args)
  OBVIOUS
<1>3. /\ stage = "SEND" /\ stage' = "queued" /\ raw' = None /\ to' = u
      /\ msg' = [from |-> origin, subject |-> f.subject, body |-> f.body, timestamp |-> Now]
      /\ names' = names /\ origin' = origin /\ draft' = draft /\ inbox' = inbox
      /\ u \in Receivers(args)
  BY <1>1, <1>2 DEF handleSendMessage
<1>4. raw \in Text
  BY <1>3 DEF Inv, PathTypeOK
<1>5. args \in Seq(PlainText) /\ Len(args) >= 3 /\ Len(args) \in Nat
  <2>1. args \in Seq(PlainText)
    BY <1>1, <1>4, FieldsArePlain
  <2>2. ~(Len(args) < 3)
    BY <1>3 DEF Receivers
  <2> QED
    BY <2>1, <2>2
<1>6. f.subject \in PlainText /\ f.body \in PlainText
  <2>1. args[2] \in PlainText /\ args[3] \in PlainText
    BY <1>5, ElementOfSeq
  <2>2. PICK s, b : s = args[2] /\ b = args[3]
    OBVIOUS
  <2>3. sanitize(s) \in PlainText /\ sanitize(b) \in PlainText
    BY <2>1, <2>2, SanitizeFacts DEF PlainText
  <2> QED
    BY <2>2, <2>3, <1>2 DEF Fields
<1>7. PICK m : m = [from |-> origin, subject |-> f.subject, body |-> f.body, timestamp |-> Now]
  OBVIOUS
<1>8. origin \in names /\ origin \in Text
  BY <1>3, TextsTyped DEF Inv, PathTypeOK, Sent
<1>9. m \in Message
  BY <1>6, <1>7, <1>8, TextsTyped DEF Message, PlainText
<1>10. PathTypeOK'
  BY <1>3, <1>7, <1>9 DEF Inv, PathTypeOK
<1>11. ASSUME Plain
       PROVE  /\ draft.to \in {u, All}
              /\ f.subject = sanitize(draft.subject) /\ f.body = sanitize(draft.body)
  <2>1. args = <<draft.to, draft.subject, draft.body>> /\ IsName(draft.to)
    BY <1>1, <1>3, <1>11 DEF Inv, Sent
  <2>2. PICK r : r = draft.to
    OBVIOUS
  <2>3. sanitize(r) = r
    BY <2>1, <2>2, NamesPlain
  <2>4. f.to = draft.to /\ f.subject = sanitize(draft.subject) /\ f.body = sanitize(draft.body)
    BY <2>1, <2>2, <2>3, <1>2 DEF Fields
  <2>5. f.to \in {u, All}
    BY <1>2, <1>3 DEF Receivers
  <2> QED
    BY <2>4, <2>5
<1>12. Queued'
  <2>1. msg' = m /\ m.from = origin /\ m.subject = f.subject /\ m.body = f.body
        /\ m.timestamp = Now
    BY <1>3, <1>7
  <2>2. Plain' <=> Plain
    BY <1>3 DEF Plain
  <2> QED
    BY <1>3, <1>6, <1>8, <1>11, <2>1, <2>2 DEF Queued, AsWritten
<1> QED
  BY <1>3, <1>10, <1>12 DEF Inv, NamesAreWords, Sent, Delivered, Stored

\* The dispatcher puts the fields of the Message into the frame.
LEMMA DispatchStep ==
  ASSUME Inv, Dispatch
  PROVE  Inv'
<1>1. /\ stage = "queued" /\ stage' = "MESSAGE" /\ msg' = None
      /\ raw' = build("MESSAGE", <<msg.from, msg.subject, msg.body, msg.timestamp>>)
      /\ names' = names /\ origin' = origin /\ draft' = draft /\ to' = to /\ inbox' = inbox
  BY DEF Dispatch
<1>2. PICK o, s, b, frame :
        /\ o = origin /\ s = msg.subject /\ b = msg.body
        /\ frame = build("MESSAGE", <<o, s, b, Now>>)
  OBVIOUS
<1>3. /\ o \in names /\ msg.from = o /\ msg.timestamp = Now
      /\ s \in PlainText /\ b \in PlainText /\ AsWritten(s, b)
  BY <1>1, <1>2 DEF Inv, Queued
<1>4. IsName(o)
  BY <1>3 DEF Inv, NamesAreWords
<1>5. o \in PlainText /\ Now \in PlainText
  BY <1>4, NamesPlain, WordsAreNames
<1>6. frame \in Text /\ parse(frame).arguments = <<o, s, b, Now>>
  <2>1. o \in Text /\ s \in Text /\ b \in Text /\ Now \in Text
    BY <1>3, <1>5 DEF PlainText
  <2> QED
    BY <1>2, <1>3, <1>5, <2>1, MessageFrame
<1>7. raw' = frame
  BY <1>1, <1>2, <1>3
<1>8. PathTypeOK'
  BY <1>1, <1>6, <1>7 DEF Inv, PathTypeOK
<1>9. Delivered'
  <2>1. parse(raw').arguments = <<o, s, b, Now>>
    BY <1>6, <1>7
  <2>2. AsWritten(s, b)'
    BY <1>1, <1>3 DEF AsWritten, Plain
  <2> QED
    BY <1>1, <1>2, <2>1, <2>2 DEF Delivered, AsWritten
<1> QED
  BY <1>1, <1>8, <1>9 DEF Inv, NamesAreWords, Sent, Queued, Stored

\* /send puts the admin's text into a frame under the name SERVER.
LEMMA AdminStep ==
  ASSUME Inv, NEW u \in Names, NEW text \in Texts, cmdSend(u, text)
  PROVE  Inv'
<1>1. /\ stage' = "MESSAGE" /\ origin' = SERVER /\ to' = u /\ u \in names
      /\ draft'.subject = <<"Private">> /\ draft'.body = text
      /\ raw' = build("MESSAGE", <<SERVER, <<"Private">>, text, <<"0">>>>)
      /\ stage = "idle" /\ names' = names /\ msg' = msg /\ inbox' = inbox
  BY DEF cmdSend
<1>2. build("MESSAGE", <<SERVER, <<"Private">>, text, <<"0">>>>) \in Text
  BY TextsTyped, MessageFrame
<1>3. <<"Private">> \in Text /\ text \in Text
  BY TextsTyped
<1>4. PathTypeOK'
  BY <1>1, <1>2, <1>3 DEF Inv, PathTypeOK
<1> QED
  BY <1>1, <1>4 DEF Inv, NamesAreWords, Sent, Queued, Delivered, Stored

\* The recipient stores the fields of the frame.
LEMMA StoreStep ==
  ASSUME Inv, storeMessage
  PROVE  Inv'
<1>1. PICK args : args = parse(raw).arguments
  OBVIOUS
<1>2. /\ stage = "MESSAGE" /\ Len(args) >= 4 /\ stage' = "stored" /\ raw' = None
      /\ inbox' = [from |-> args[1], subject |-> args[2], body |-> args[3],
                   timestamp |-> stoi(args[4])]
      /\ names' = names /\ origin' = origin /\ draft' = draft /\ to' = to /\ msg' = msg
  BY <1>1 DEF storeMessage
<1>3. args \in Seq(PlainText)
  BY <1>1, <1>2, FieldsArePlain DEF Inv, PathTypeOK
<1>4. args[1] \in Text /\ args[2] \in Text /\ args[3] \in Text
  <2>1. Len(args) \in Nat
    BY <1>3
  <2>2. args[1] \in PlainText /\ args[2] \in PlainText /\ args[3] \in PlainText
    BY <2>1, <1>2, <1>3, ElementOfSeq
  <2> QED
    BY <2>2 DEF PlainText
<1>5. /\ inbox'.from = args[1] /\ inbox'.subject = args[2] /\ inbox'.body = args[3]
      /\ inbox'.timestamp = stoi(args[4])
  BY <1>2
<1>6. PathTypeOK'
  BY <1>2, <1>4, <1>5 DEF Inv, PathTypeOK
<1>7. Stored'
  <2>1. ASSUME origin # SERVER
        PROVE  args[1] = origin /\ args[4] = Now /\ AsWritten(args[2], args[3])
    BY <1>1, <1>2, <2>1 DEF Inv, Delivered
  <2>2. AsWritten(args[2], args[3]) => AsWritten(args[2], args[3])'
    BY <1>2 DEF AsWritten, Plain
  <2> QED
    BY <1>2, <1>5, <2>1, <2>2 DEF Stored, AsWritten
<1> QED
  BY <1>2, <1>6, <1>7 DEF Inv, NamesAreWords, Sent, Queued, Delivered

\* Every step keeps the invariant.
LEMMA InvStep == Inv /\ [Next]_vars => Inv'
<1> SUFFICES ASSUME Inv, [Next]_vars PROVE Inv'
  OBVIOUS
<1>1. CASE UNCHANGED vars
  BY <1>1, InvUnchanged DEF vars
<1>2. ASSUME NEW key, NEW value, cmdSet(key, value) PROVE Inv'
  BY <1>2, InvUnchanged DEF cmdSet
<1>3. CASE cmdReset
  BY <1>3, InvUnchanged DEF cmdReset
<1>4. ASSUME NEW name \in Names, handleConnect(name) PROVE Inv'
  BY <1>4, ConnectStep
<1>5. ASSUME NEW from \in names, NEW recipient \in Names \cup {All},
             NEW subject \in Texts, NEW body \in Texts,
             SendNew(from, recipient, subject, body)
      PROVE  Inv'
  BY <1>5, SendStep, TextsTyped DEF SendNew
<1>6. ASSUME NEW body \in Texts, Reply(body) PROVE Inv'
  <2>1. PICK subject : /\ subject = IF inbox.subject # <<>> /\ Head(inbox.subject) = RePrefix
                                    THEN inbox.subject ELSE <<RePrefix>> \o inbox.subject
                       /\ sendMessage(to, inbox.from, subject, body)
    BY <1>6 DEF Reply
  <2>2. inbox.from \in Text /\ inbox.subject \in Text /\ to \in names
    BY <1>6 DEF Reply, Inv, PathTypeOK
  <2>3. subject \in Text
    <3>1. PICK s \in Text : s = inbox.subject
      BY <2>2
    <3>2. <<RePrefix>> \o s \in Text
      BY TextsTyped, ConcatProperties DEF Text
    <3> QED
      BY <2>1, <3>1, <3>2
  <2> QED
    BY <2>1, <2>2, <2>3, TextsTyped, SendStep
<1>7. ASSUME NEW u \in names, handleSendMessage(u) PROVE Inv'
  BY <1>7, ReceiveStep
<1>8. CASE NothingQueued
  <2>1. /\ stage = "SEND" /\ stage' = "idle" /\ origin' = SERVER /\ draft' = None
        /\ raw' = None /\ names' = names /\ to' = to /\ msg' = msg /\ inbox' = inbox
    BY <1>8 DEF NothingQueued
  <2>2. PathTypeOK'
    BY <2>1 DEF Inv, PathTypeOK
  <2> QED
    BY <2>1, <2>2 DEF Inv, NamesAreWords, Sent, Queued, Delivered, Stored
<1>9. CASE Dispatch
  BY <1>9, DispatchStep
<1>10. ASSUME NEW u \in Names, NEW text \in Texts, cmdSend(u, text) PROVE Inv'
  BY <1>10, AdminStep
<1>11. CASE storeMessage
  BY <1>11, StoreStep
<1>12. CASE NoReply
  <2>1. /\ stage = "stored" /\ stage' = "idle" /\ origin' = SERVER /\ draft' = None
        /\ to' = None /\ inbox' = None /\ names' = names /\ raw' = raw /\ msg' = msg
    BY <1>12 DEF NoReply
  <2>2. PathTypeOK'
    BY <2>1 DEF Inv, PathTypeOK
  <2> QED
    BY <2>1, <2>2 DEF Inv, NamesAreWords, Sent, Queued, Delivered, Stored
<1> QED
  BY <1>1, <1>2, <1>3, <1>4, <1>5, <1>6, <1>7, <1>8, <1>9, <1>10, <1>11, <1>12 DEF Next

\* The invariant holds from the start.
LEMMA InvInit == Init => Inv
BY DEF Init, Inv, PathTypeOK, NamesAreWords, Sent, Queued, Delivered, Stored

-----------------------------------------------------------------------------
(***************************************************************************)
(* The theorems                                                            *)
(***************************************************************************)
\* Every variable keeps its type, and the frame, the Message of the queue and
\* the message stored are there exactly at their stage.
THEOREM TypeCorrect == Spec => []TypeOK
<1>1. Accepted /\ Inv => TypeOK
  BY DEF Accepted, Inv, PathTypeOK, TypeOK
<1> QED
  BY <1>1, InvInit, InvStep, AcceptedInit, AcceptedStep, PTL DEF Spec

\* A client's message without a delimiter in its subject and body arrives as it
\* was written, control characters made blanks, at the client it was written to,
\* however long it is and whatever the admin does to the limits on the way.
THEOREM TextsArrive == Spec => []PlainTextArrives
<1>1. Inv => PlainTextArrives
  BY DEF Inv, Stored, AsWritten, PlainTextArrives
<1> QED
  BY <1>1, InvInit, InvStep, PTL DEF Spec

\* Whatever a client writes, its recipient sees the name of the connection it
\* came from and the time the server took: no delimiter in the text moves a
\* field of its own into the header.
THEOREM HeadersAreTheServers == Spec => []HeaderIsTheServers
<1>1. Inv => HeaderIsTheServers
  BY DEF Inv, Stored, HeaderIsTheServers
<1> QED
  BY <1>1, InvInit, InvStep, PTL DEF Spec

\* handleSendMessage finds receivers for a plain message with a body, while it
\* has the limits the client has, unless there is nobody to receive it.
LEMMA ReceiversFound ==
  ASSUME Inv, stage = "SEND", config = Defaults, Plain, draft.body # <<>>
  PROVE  Receivers(parse(raw).arguments) =
           IF draft.to = All THEN names \ {origin} ELSE names \cap {draft.to}
<1>1. PICK args : args = parse(raw).arguments
  OBVIOUS
<1>2. PICK r, s, b : r = draft.to /\ s = draft.subject /\ b = draft.body
  OBVIOUS
<1>3. /\ args = <<r, s, b>> /\ IsName(r) /\ isValidSubject(Defaults, s)
      /\ s \in Text /\ b \in Text /\ b # <<>>
  BY <1>1, <1>2 DEF Inv, PathTypeOK, Sent
<1>4. sanitize(r) = r
  BY <1>3, NamesPlain
<1>5. /\ sanitize(s) \in Text /\ Len(sanitize(s)) = Len(s)
      /\ sanitize(b) \in Text /\ Len(sanitize(b)) = Len(b)
  BY <1>3, SanitizeFacts
<1>6. sanitize(s) # <<>> /\ Len(sanitize(s)) <= Limit(Defaults, "MAX_SUBJECT_LENGTH")
  BY <1>3, <1>5 DEF isValidSubject, Text
<1>7. isValidSubject(config, sanitize(s)) /\ isValidBody(sanitize(b))
  <2>1. sanitize(b) # <<>>
    BY <1>3, <1>5 DEF Text
  <2> QED
    BY <2>1, <1>6 DEF isValidSubject, isValidBody
<1>8. PICK f : f = Fields(args)
  OBVIOUS
<1>9. f.to = r /\ f.subject = sanitize(s) /\ f.body = sanitize(b)
  BY <1>3, <1>4, <1>8 DEF Fields
<1>10. ~(Len(args) < 3)
  BY <1>3
<1>11. Receivers(args) = IF r = All THEN names \ {origin} ELSE names \cap {r}
  BY <1>7, <1>8, <1>9, <1>10 DEF Receivers
<1> QED
  BY <1>1, <1>2, <1>11

\* While the server has the limits the client checks against, it never refuses a
\* plain message with a body, except that nobody is there to receive it.
THEOREM ClientChecksAreEnough == Spec => ClientChecksSuffice
<1>1. ASSUME Inv, [Next]_vars
      PROVE  [/\ stage = "SEND" /\ stage' = "idle" /\ config = Defaults
              /\ Plain /\ draft.body # <<>>
              => IF draft.to = All THEN names = {origin} ELSE draft.to \notin names]_vars
  <2> SUFFICES ASSUME Next, stage = "SEND", stage' = "idle", config = Defaults,
                      Plain, draft.body # <<>>
               PROVE  IF draft.to = All THEN names = {origin} ELSE draft.to \notin names
    BY <1>1
  <2>1. NothingQueued
    BY DEF Next, cmdSet, cmdReset, handleConnect, SendNew, Reply, handleSendMessage,
           Dispatch, cmdSend, storeMessage, NoReply, path
  <2>2. Receivers(parse(raw).arguments) = {}
    BY <2>1 DEF NothingQueued
  <2>3. IF draft.to = All THEN names \ {origin} = {} ELSE names \cap {draft.to} = {}
    BY <1>1, <2>2, ReceiversFound
  <2>4. origin \in names
    BY <1>1 DEF Inv, Sent
  <2> QED
    BY <2>3, <2>4
<1> QED
  BY <1>1, InvInit, InvStep, PTL DEF Spec, ClientChecksSuffice

=============================================================================
