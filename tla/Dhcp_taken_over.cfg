SPECIFICATION QuietSpec
CONSTANTS
  a = a
  b = b
  MACs = {a, b}
  Cabled = {}
  Elsewhere = {0}
  Subnet = {1, 2, 3}
  s_server_ip = 1
  pool_start = 2
  pool_end = 3
  wired_start = 0
  wired_end = 0
  MAX_LEASES = 2
  MAX_DECLINED = 0
  FORGET_AFTER_BOOTS = 4
  InitialFlash <- Fresh
  Ports = {FALSE}
  Requested = {0}
  Sightings <- None
  Cuttable <- None
  MaxBootSeq = 3
PROPERTIES ReservedReturns
