SPECIFICATION Spec
CONSTANTS
  Handlers = {h1}
  Interfaces = {wlan0}
  TTL = 1
  MaxTime = 1
  MaxRuns = 2
INVARIANT HiddenNeverServed
