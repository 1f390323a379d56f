CONSTANTS
  MaxFaults = 1
  MaxCalls = 2
  MaxFailures = 2
  AutoRespawn = TRUE
  Stoppers = {s1,s2}
  Api = {"cancel_token", "start_again"}
SPECIFICATION Spec
INVARIANTS IInv NoOrphan StoppedMeansStopped
PROPERTIES ImplementsLease
SYMMETRY StopperSymmetry
