SPECIFICATION Spec
CONSTANTS
  Slots = {s1}
  Runs = {1, 2, 3}
  Channels = {email}
  NoChannel = NoChannel
  JobErrors = {"none", "terminal_invalid"}
  MaxJobs = 3
  EngineErrors = {}
  Faults = {"throw", "cleanup", "crash"}
  MaxFaults = 2
INVARIANTS
  IndexAgrees
  ReportBeforeSuccess
  DeliveredOnce
PROPERTIES
  KeepsPromise
  OutcomesProtected
CHECK_DEADLOCK FALSE
