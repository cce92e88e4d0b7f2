VIEW Ahead
SPECIFICATION Spec
CONSTANTS
  RESET_LOG_MAX_RECORDS = 2
  k_ckpt_times <- Times
  Intents = {"ota", "console"}
  Refusable = {"seed", "ckpt", "stamp"}
  OldFlash <- AnyFlash
  MaxTime = 3
  MaxResets = 3
INVARIANT StampTrue
PROPERTIES FloorWindow PrevStateTrue RollbackTold WitnessHonest
