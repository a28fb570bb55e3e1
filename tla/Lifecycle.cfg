CONSTANTS
  Users = {u1}
  Workers = {w1, w2}
  MaxTasks = 2
SPECIFICATION FairSpec
CONSTRAINT Explored
INVARIANTS TypeOK QueuedHaveWorkers BansKept
PROPERTIES StopEnds SecondSignalEnds
CHECK_DEADLOCK FALSE
