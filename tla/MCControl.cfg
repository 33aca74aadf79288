SPECIFICATION FairSpec
CONSTANTS
  MaxJobs = 2
  MaxCommands = 1
  MaxClicks = 2
  MaxFaults = 1
INVARIANTS
  EngineUnderLease
  QuitSettlesJobs
PROPERTIES
  CancelsOnlyItsTarget
  NoLaunchAfterQuit
  QueuedJobsTaken
CHECK_DEADLOCK FALSE
