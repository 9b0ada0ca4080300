SPECIFICATION Spec
CONSTANTS
  home = home
  cafe = cafe
  oldpass = oldpass
  newpass = newpass
  Ssids = {home, cafe}
  Passes = {oldpass, newpass}
  Procs = {p1, p2}
  MaxAsked = 3
  Asked <- MCAsked
  Stored <- MCStored
CHECK_DEADLOCK FALSE
PROPERTY
  RollbackRestores
