SPECIFICATION Spec
CONSTANTS
  Handlers = {h1, h2}
  Interfaces = {wlan0, wlan1}
  TTL = 1
  MaxTime = 2
  MaxRuns = 2
SYMMETRY Symmetry
INVARIANTS
  TypeOK
  OneEntryPerInterface
  ServedFresh
  HiddenNotScanned
  PersistedWhenQuiet
PROPERTY IsScanService
