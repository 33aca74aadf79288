SPECIFICATION FairSpec
CONSTANTS
  Slots = {s1}
  Runs = {1, 2, 3}
  Channels = {email}
  NoChannel = NoChannel
  JobErrors = {"none", "terminal_invalid"}
  MaxJobs = 3
  EngineErrors = {"cancelled", "interrupted", "failed"}
  Faults = {"crash"}
  MaxFaults = 1
PROPERTY EveryJobEnds
CHECK_DEADLOCK FALSE
