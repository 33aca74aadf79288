SPECIFICATION Spec
CONSTANTS
  a = a
  b = b
  p1 = p1
  p2 = p2
  Topics = {a, b}
  DayLength = 2
  DueAt <- DueTimes
  LastDay = 1
  Tasks = {p1, p2}
  MaxFailures = 1
  MaxRequests = 1
  MayQuit = FALSE
INVARIANT NextIsArmed
PROPERTIES
  ScheduledOnce
  FollowsSettings
SYMMETRY Refreshes
CHECK_DEADLOCK FALSE
