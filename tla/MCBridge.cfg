SPECIFICATION Spec
CONSTANTS
  Caller = {"engine", "other"}
  Key = {"source_gist", "deep_reading"}
  Timeout = 2
  CacheLimit = 1
  Jobs <- MCJobs
INVARIANTS
  TerminalEarned
  CancelStopsRequests
  TornOnlyByTwo
PROPERTY OneTerminal
ACTION_CONSTRAINT OtherWhileAsking
CHECK_DEADLOCK FALSE
