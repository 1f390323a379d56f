CONSTANTS
  MaxFaults = 2
  MaxCalls = 2
  MaxFailures = 2
  AutoRespawn = TRUE
  Stoppers = {s1}
  Api = {"cancel_token", "restart_child"}
SPECIFICATION FairSpec
INVARIANTS NewestIsRegistered OneWorkerAtATime FailedMeansQuiet
PROPERTIES FailedIsFinal HungWorkerDies CrashIsHandled RecoveryConcludes CallsReturn
