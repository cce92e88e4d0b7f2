SPECIFICATION FairSpec
CONSTANTS
  MACs = {1, 2}
  Addrs = {1}
  CLIENT_TRACK_MAX_CLIENTS = 2
  QUARANTINE_MAX = 1
  Q_ARM_TICKS = 2
  Q_DISARM_TICKS = 2
  Q_FORGET_TICKS = 3
  Stations = {1}
  Remembered = {0, 1}
  Pardonable = {1}
  Switches = {TRUE, FALSE}
INVARIANTS PublishedIsArmed PardonHolds
PROPERTIES NoOscillation MovedIsCarried PardonReachesServer
