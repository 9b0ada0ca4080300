SPECIFICATION FairSpec
CONSTANTS
  wlan0 = wlan0
  wlan1 = wlan1
  IfaceList <- TwoIfaces
  home = home
  twin = twin
  blank = blank
  APs = {home, twin, blank}
  IdOf <- Ids
  Heights = {4, 6}
  MaxAPs = 3
  ScrollOff = 1
  MaxTicks = 2
  MaxStatus = 2
INVARIANTS TypeOK CursorVisible OneScanAtATime ListOfSelected StatusOfSelected SpinnerRuns
PROPERTIES MarginKept SelectionFollowed ScanNotClobbered ScanSettlesStaying
