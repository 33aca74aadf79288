SPECIFICATION Spec
CONSTANTS
  Run = {r1, r2}
  Topic <- MCTopic
  Singular <- MCSingular
  Connectors <- MCConnectors
  WebSearch = "tavily"
  Limit = 10
  Worlds <- MCWorlds
  Documents <- MCDocuments
  DeepLimit = 2
  Chinese = TRUE
INVARIANTS
  NotReadTwice
  HistoryBacked
  VerdictHonest
  OncePerReport
SYMMETRY Runs
ACTION_CONSTRAINT OneAtATime
CHECK_DEADLOCK FALSE
