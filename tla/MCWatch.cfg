SPECIFICATION FairSpec
CONSTANTS
  Backends = {"ubus", "nmcli", "iwd", "nmdbus"}
  SigBuffer = 1
  MaxPending = 3
CHECK_DEADLOCK FALSE
INVARIANTS
  TypeOK
  NoLostChange
PROPERTIES
  Contract
  SettledEnds
  CancelReleases
