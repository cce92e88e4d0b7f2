SPECIFICATION Spec
CONSTANTS
  Tasks = {"app"}
  Fragments <- Errors
  LOG_BUF_LINES = 2
  MaxLines = 3
  MaxMissed = 0
  Configs <- OnOff
  SendErrors = {"stall", "hard"}
  SYSLOG_BURST_MAX = 1
  SYSLOG_STALL_MAX = 1
  MaxSaves = 2
INVARIANT EachLineOnce
PROPERTIES BacklogDrains SavedReachesSender
