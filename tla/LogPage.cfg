SPECIFICATION PageSpec
CONSTANTS
  Tasks = {"app", "wifi", "lwip"}
  Fragments <- Pieces
  LOG_BUF_LINES = 2
  MaxLines = 5
  MaxMissed = 1
  MaxBoots = 1
INVARIANTS LinesWhole PageAddsUp FileAddsUp
PROPERTY PageCatchesUp
