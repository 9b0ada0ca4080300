SPECIFICATION Spec
CONSTANTS
  wlan0 = wlan0
  wlan1 = wlan1
  wlan2 = wlan2
  home = home
  cafe = cafe
  old = old
  new = new
  ap1 = ap1
  Backends = {"nmcli", "nmdbus"}
  Devices = {wlan0, wlan1, wlan2}
  NameHidden = {wlan1}
  LookHidden = {wlan2}
  Profiles = {home, cafe}
  Passes = {old, new}
  Stations = {ap1, ap2}
  Procs = {p1, p2}
  MaxAsked = 3
  Asked <- MCAsked
SYMMETRY Symmetry
CHECK_DEADLOCK FALSE
INVARIANTS
  TypeOK
  ScanKeepsMost
PROPERTIES
  ActivateSettles
  HiddenUntouched
  PatchMerges
