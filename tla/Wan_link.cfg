SPECIFICATION Spec
CONSTANTS
  Hosts = {resolver}
  NoHost = none
  Listable = {"2101"}
  Publishers = {"event"}
  wan_cfg <- NoList
  Reasons = {"auth", "no_ap", "other"}
  Nets <- AllNets
  Bits = {1, 2, 3, 4}
  LAN_IP = {2, 4}
  LAN_MASK = {1, 2}
  BACKOFF_MIN_S = 1
  BACKOFF_MAX_S = 3
  BACKOFF_REJECTED_S = 5
  AUTH_FAILS_BEFORE_SLOW = 2
  AuthWrap = 4
  MaxQueue = 2
INVARIANTS UpIsUsable NaptFollowsBridge
PROPERTIES ConflictWaits RetriesGoOn
