SPECIFICATION LanSpec
CONSTANTS
  a = a
  b = b
  c = c
  MACs = {a, b, c}
  Subnet = {1, 2, 3}
  s_server_ip = 1
  pool_start = 2
  pool_end = 2
  wired_start = 3
  wired_end = 3
  MAX_LEASES = 2
  MAX_DECLINED = 1
  FORGET_AFTER_BOOTS = 1
  InitialFlash <- OldBlobs
  Ports = {TRUE, FALSE}
  Requested = {0, 2}
  Sightings <- ManualB
  Cuttable <- CutB
  MaxBootSeq = 2
INVARIANTS UniqueLease   CleanMeansSaved WithinArrays
PROPERTIES  ServedInRange
SYMMETRY Alike
VIEW Ahead
