SPECIFICATION Spec
CONSTANTS
  Handlers = {h1}
  Profiles = {home, cafe}
  Manual = {}
  Radios = {radio0}
  Pickable = {radio0}
CHECK_DEADLOCK FALSE
INVARIANT RenameSurvivesExpiry
