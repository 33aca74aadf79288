SPECIFICATION Spec
CONSTANTS
  a = a
  b = b
  p1 = p1
  p2 = p2
  Topics = {a, b}
  DayLength = 2
  DueAt <- DueTimes
  LastDay = 0
  Tasks = {p1, p2}
  MaxFailures = 2
  MaxRequests = 1
  MayQuit = FALSE
INVARIANT BlockedIsShown
SYMMETRY Refreshes
CHECK_DEADLOCK FALSE
