SPECIFICATION QueueSpec
CONSTANTS
  Slots = {s1}
  Runs = {r1}
  Channels = {email}
  NoChannel = NoChannel
  JobErrors = {"none"}
  MaxJobs = 3
INVARIANTS
  QueueTypeOK
  SerializedQueue
  NoDuplicateWork
  NoUnconfirmedRepeat
  DurableNotBehind
PROPERTY EndedStaysEnded
CHECK_DEADLOCK FALSE
