SPECIFICATION Spec
CONSTANTS
  Handlers = {h1, h2}
  Profiles = {home, cafe}
  Manual = {byhand}
  Radios = {radio0, radio1}
  Pickable = {radio0, radio1}
SYMMETRY Symmetry
CHECK_DEADLOCK FALSE
INVARIANTS
  TypeOK
  ActivateExclusive
  RenameSavesFirst
  QuietSaved
PROPERTY
  CommitsOwn
