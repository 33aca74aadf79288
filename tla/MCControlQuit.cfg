SPECIFICATION Spec
CONSTANTS
  MaxJobs = 1
  MaxCommands = 0
  MaxClicks = 1
  MaxFaults = 0
INVARIANTS
  QuittingCancelsCurrentWork
CHECK_DEADLOCK FALSE
