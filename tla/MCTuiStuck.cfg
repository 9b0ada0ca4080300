SPECIFICATION FairSpec
CONSTANTS
  wlan0 = wlan0
  wlan1 = wlan1
  IfaceList <- TwoIfaces
  home = home
  twin = twin
  blank = blank
  APs = {home}
  IdOf <- Ids
  Heights = {4}
  MaxAPs = 1
  ScrollOff = 1
  MaxTicks = 2
  MaxStatus = 1
PROPERTIES ScanSettles
