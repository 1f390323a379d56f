CONSTANTS
  MaxFaults = 2
  MaxCalls = 1
  MaxFailures = 3
  AutoRespawn = TRUE
  Stoppers = {s1}
  Api = {}
SPECIFICATION Spec
INVARIANTS OkMeansGone
