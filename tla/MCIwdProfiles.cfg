SPECIFICATION Spec
CONSTANTS
  home = home
  cafe = cafe
  oldpass = oldpass
  newpass = newpass
  Ssids = {home, cafe}
  Passes = {oldpass, newpass}
  Procs = {p1, p2}
  MaxAsked = 4
  Asked <- MCAsked
  Stored <- MCStored
SYMMETRY Symmetry
CHECK_DEADLOCK FALSE
INVARIANTS
  TypeOK
  CutOnlyByFailure
PROPERTIES
  PatchKeeps
  PatchMoves
