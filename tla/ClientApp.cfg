CONSTANTS
  MaxMessages = 2
  MaxPings = 1
  MaxCommands = 2
  MaxFrames = 3
SPECIFICATION FairSpec
INVARIANTS TypeOK AnnouncedOnce InboxKeepsAll AnswerIsOurs
PROPERTIES IndexesLast PingsAnswered QuitEnds
CHECK_DEADLOCK FALSE
