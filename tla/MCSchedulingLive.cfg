SPECIFICATION FairSpec
CONSTANTS
  a = a
  b = b
  p1 = p1
  p2 = p2
  Topics = {b}
  DayLength = 2
  DueAt <- DueTimes
  LastDay = 0
  Tasks = {p1, p2}
  MaxFailures = 1
  MaxRequests = 1
  MayQuit = TRUE
INVARIANT StopIsFinal
PROPERTY DueIsAttempted
CHECK_DEADLOCK FALSE
