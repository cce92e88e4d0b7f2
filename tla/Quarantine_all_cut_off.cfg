SPECIFICATION Spec
CONSTANTS
  MACs = {1, 2, 3}
  Addrs = {1}
  CLIENT_TRACK_MAX_CLIENTS = 3
  QUARANTINE_MAX = 3
  Q_ARM_TICKS = 1
  Q_DISARM_TICKS = 2
  Q_FORGET_TICKS = 2
  Stations = {}
  Remembered = {0}
  Pardonable = {}
  Switches = {}
INVARIANT SomebodyCarried
