SPECIFICATION Spec
CONSTANTS
  Device = {"a", "b", "c"}
  Creator = "c"
  Executor <- Executors
  Nobody = Nobody
  Tried <- HandedOver
  NoRecord = NoRecord
  NoJob = NoJob
  Given <- Offered
  Loses = FALSE
  MaxAttempt = 2
  Trusting = {"b"}
  Faulty = {"a"}
  MaxLife = 1
  MaxOps = 6
INVARIANTS StartedOnce OneWorker WorkIsClaimed
CHECK_DEADLOCK FALSE
