---------------------------- MODULE MessagePath ----------------------------
(***************************************************************************)
(* What becomes of the text of a message on its way: MessageHandler's      *)
(* sendMessage and replyToMessage, the frame SEND, handleSendMessage, the  *)
(* frame MESSAGE the dispatcher builds (or /send of the admin shell), and  *)
(* parseMessage and storeMessage of the recipient; /set and /reset change  *)
(* the limits at any moment.  One message is under way at a time: queues   *)
(* and connections are the subject of Dispatcher, Sessions and Stream.     *)
(*                                                                         *)
(* The client has a RuntimeConfig of its own that nobody sets, so it       *)
(* checks against the defaults.                                            *)
(***************************************************************************)
EXTENDS RuntimeConfig

CONSTANTS
  Names,   \* usernames users type
  Texts,   \* subjects and bodies users type, each one line
  Values,  \* values the admin types in /set
  None     \* no frame, no message

VARIABLES
  names,   \* names of the connected clients
  stage,   \* "idle", "SEND" or "MESSAGE" (a frame is under way), "queued", "stored"
  origin,  \* history: the client that sends, or SERVER for the admin
  draft,   \* history: recipient, subject and body as given to sendMessage
  to,      \* the client the message is for, once the server has decided
  raw,     \* the frame under way
  msg,     \* the Message in the queue
  inbox    \* the ReceivedMessage stored last

path == <<stage, origin, draft, to, raw, msg, inbox>>
vars == <<config, names, path>>

All == <<"all">>
SERVER == <<"SERVER">>
Now == <<"1">>     \* Utils::timestampToUnixString of the server's clock
RePrefix == "Re: "

ASSUME MessagePathAssumption ==
  /\ Names \cup Texts \cup {All, SERVER, Now} \subseteq Text
  /\ {"CONNECT", "SEND", "MESSAGE", "Private", "0", RePrefix} \subseteq Symbols

\* struct Message of the queue, without the recipient.
Message == [from : Text, subject : Text, body : Text,
            timestamp : Text]

\* Which variables a stage has, and their types.
PathTypeOK ==
  /\ names \in SUBSET Names
  /\ stage \in {"idle", "SEND", "queued", "MESSAGE", "stored"}
  /\ origin \in names \cup {SERVER}
  /\ IF stage = "idle" THEN draft = None
     ELSE draft.subject \in Text /\ draft.body \in Text
  /\ IF stage \in {"SEND", "MESSAGE"} THEN raw \in Text ELSE raw = None
  /\ IF stage = "queued" THEN msg \in Message ELSE msg = None
  /\ IF stage = "stored" THEN /\ inbox.from \in Text
                              /\ inbox.subject \in Text
                              /\ inbox.body \in Text
     ELSE inbox = None
  /\ IF stage \in {"idle", "SEND"} THEN to = None ELSE to \in names

TypeOK == config \in [Keys -> Values \cup Range(Defaults)] /\ PathTypeOK

Init ==
  /\ config = Defaults
  /\ names = {} /\ stage = "idle" /\ origin = SERVER /\ draft = None
  /\ to = None /\ raw = None /\ msg = None /\ inbox = None

isValidUsername(cfg, name) ==
  /\ name # <<>> /\ Len(name) <= Limit(cfg, "MAX_USERNAME_LENGTH")
  /\ \A i \in DOMAIN name : IsWord(name[i])
isValidSubject(cfg, subject) ==
  subject # <<>> /\ Len(subject) <= Limit(cfg, "MAX_SUBJECT_LENGTH")
isValidBody(body) == body # <<>>

(***************************************************************************)
(* The admin shell and logins                                              *)
(***************************************************************************)
cmdSet(key, value) == set(key, value) /\ UNCHANGED <<names, path>>
cmdReset == reset /\ UNCHANGED <<names, path>>

\* CONNECT;name: the client and then the server validate the name.
handleConnect(name) ==
  LET username == sanitize(parse(build("CONNECT", <<name>>)).arguments[1]) IN
  /\ stage = "idle" /\ isValidUsername(Defaults, name)
  /\ isValidUsername(config, username) /\ username \notin names
  /\ names' = names \cup {username}
  /\ UNCHANGED <<config, path>>

(***************************************************************************)
(* The client that sends                                                   *)
(***************************************************************************)
sendMessage(from, recipient, subject, body) ==
  /\ isValidUsername(Defaults, recipient) \/ recipient = All
  /\ isValidSubject(Defaults, subject)
  /\ stage' = "SEND" /\ origin' = from
  /\ draft' = [to |-> recipient, subject |-> subject, body |-> body]
  /\ raw' = build("SEND", <<recipient, subject, body>>)
  /\ to' = None /\ msg' = None /\ inbox' = None
  /\ UNCHANGED <<config, names>>

SendNew(from, recipient, subject, body) ==
  stage = "idle" /\ sendMessage(from, recipient, subject, body)

\* cmdReadMessage and replyToMessage: to the sender, with "Re: " before the
\* subject once.
Reply(body) ==
  /\ stage = "stored" /\ body # <<>>
  /\ LET subject == IF inbox.subject # <<>> /\ Head(inbox.subject) = RePrefix
                    THEN inbox.subject ELSE <<RePrefix>> \o inbox.subject
     IN sendMessage(to, inbox.from, subject, body)

(***************************************************************************)
(* The server                                                              *)
(***************************************************************************)
\* Mutated form of Fields: the body is all that follows the subject.
FieldsBodyRest(arguments) ==
  LET Rest == FoldLeft(LAMBDA s, a : s \o <<Delimiter>> \o a, arguments[3],
                       SubSeq(arguments, 4, Len(arguments)))
  IN [to |-> sanitize(arguments[1]), subject |-> sanitize(arguments[2]),
      body |-> sanitize(Rest)]
\* Mutated form of Fields: the body is not sanitized.
FieldsRawBody(arguments) ==
  [to |-> sanitize(arguments[1]), subject |-> sanitize(arguments[2]),
   body |-> arguments[3]]
\* What handleSendMessage takes out of the frame; further fields are lost.
Fields(arguments) ==
  [to |-> sanitize(arguments[1]), subject |-> sanitize(arguments[2]),
   body |-> sanitize(arguments[3])]

\* Mutated form of Receivers: one field more is asked for.
ReceiversFourFields(arguments) ==
  LET f == Fields(arguments) IN
  IF Len(arguments) < 4 \/ ~isValidSubject(config, f.subject) \/ ~isValidBody(f.body)
  THEN {}
  ELSE IF f.to = All THEN names \ {origin} ELSE names \cap {f.to}
\* The clients a SEND reaches: none if it is malformed or invalid, or if there
\* is nobody of that name.
Receivers(arguments) ==
  LET f == Fields(arguments) IN
  IF Len(arguments) < 3 \/ ~isValidSubject(config, f.subject) \/ ~isValidBody(f.body)
  THEN {}
  ELSE IF f.to = All THEN names \ {origin} ELSE names \cap {f.to}

\* A Message is queued for every receiver; this follows the one for u.
handleSendMessage(u) ==
  LET arguments == parse(raw).arguments
      f == Fields(arguments)
  IN
  /\ stage = "SEND" /\ u \in Receivers(arguments)
  /\ stage' = "queued" /\ raw' = None /\ to' = u
  /\ msg' = [from |-> origin, subject |-> f.subject, body |-> f.body, timestamp |-> Now]
  /\ UNCHANGED <<config, names, origin, draft, inbox>>

\* Nothing is queued: an ERROR, or the OK of a broadcast that nobody gets.
NothingQueued ==
  /\ stage = "SEND" /\ Receivers(parse(raw).arguments) = {}
  /\ stage' = "idle" /\ origin' = SERVER /\ draft' = None /\ raw' = None
  /\ UNCHANGED <<config, names, to, msg, inbox>>

\* Dispatcher::run formats the frame.
Dispatch ==
  /\ stage = "queued" /\ stage' = "MESSAGE"
  /\ raw' = build("MESSAGE", <<msg.from, msg.subject, msg.body, msg.timestamp>>)
  /\ msg' = None
  /\ UNCHANGED <<config, names, origin, draft, to, inbox>>

\* /send: the admin's text goes into a frame of its own, as it is (/broadcast
\* builds the same frame for every client).
cmdSend(u, text) ==
  /\ stage = "idle" /\ u \in names
  /\ stage' = "MESSAGE" /\ origin' = SERVER /\ to' = u
  /\ draft' = [to |-> u, subject |-> <<"Private">>, body |-> text]
  /\ raw' = build("MESSAGE", <<SERVER, <<"Private">>, text, <<"0">>>>)
  /\ UNCHANGED <<config, names, msg, inbox>>

(***************************************************************************)
(* The client that receives                                                *)
(***************************************************************************)
\* parseMessage and storeMessage; a timestamp that is no number becomes the
\* recipient's own time (here: no number).
storeMessage ==
  LET arguments == parse(raw).arguments IN
  /\ stage = "MESSAGE" /\ Len(arguments) >= 4
  /\ stage' = "stored" /\ raw' = None
  /\ inbox' = [from |-> arguments[1], subject |-> arguments[2],
               body |-> arguments[3], timestamp |-> stoi(arguments[4])]
  /\ UNCHANGED <<config, names, origin, draft, to, msg>>

\* The user goes on without a reply.
NoReply ==
  /\ stage = "stored" /\ stage' = "idle" /\ origin' = SERVER /\ draft' = None
  /\ to' = None /\ inbox' = None
  /\ UNCHANGED <<config, names, raw, msg>>

-----------------------------------------------------------------------------
Next ==
  \/ \E key \in Keys \cup {"UNKNOWN_KEY"}, value \in Values : cmdSet(key, value)
  \/ cmdReset
  \/ \E name \in Names : handleConnect(name)
  \/ \E from \in names, recipient \in Names \cup {All}, subject, body \in Texts :
       SendNew(from, recipient, subject, body)
  \/ \E body \in Texts : Reply(body)
  \/ \E u \in names : handleSendMessage(u)
  \/ NothingQueued \/ Dispatch
  \/ \E u \in Names, text \in Texts : cmdSend(u, text)
  \/ storeMessage \/ NoReply

Spec == Init /\ [][Next]_vars

-----------------------------------------------------------------------------
Plain == ~HasDelimiter(draft.subject) /\ ~HasDelimiter(draft.body)

\* A client's message without a delimiter in its subject and body arrives as it
\* was written, control characters made blanks, at the client it was written to:
\* through the frames SEND and MESSAGE, and whatever the admin does to the limits
\* on the way.
PlainTextArrives ==
  stage = "stored" /\ origin # SERVER /\ Plain =>
    /\ draft.to \in {to, All}
    /\ inbox.subject = sanitize(draft.subject)
    /\ inbox.body = sanitize(draft.body)

\* Whatever the text holds, the name and the time a recipient sees with a
\* client's message are those the server put there: fields that a delimiter adds
\* are dropped by handleSendMessage and never move into the frame MESSAGE.
HeaderIsTheServers ==
  stage = "stored" /\ origin # SERVER =>
    inbox.from = origin /\ inbox.timestamp = stoi(Now)

\* While the limits of the server are the defaults, which are those sendMessage
\* of the client checks against, a plain message with a body is not refused by
\* handleSendMessage unless there is nobody to receive it.
ClientChecksSuffice ==
  [][/\ stage = "SEND" /\ stage' = "idle" /\ config = Defaults
     /\ Plain /\ draft.body # <<>>
     => IF draft.to = All THEN names = {origin} ELSE draft.to \notin names]_vars

\* Every numeric setting can be read back, and is within its bounds, after any
\* sequence of /set and /reset: what validateValue accepted is what getInt finds.
SettingsUsable ==
  \A key \in Keys :
    Definitions[key].type = "INT" =>
      \E n \in getInt(config, key) : n \in Definitions[key].min .. Definitions[key].max

=============================================================================
