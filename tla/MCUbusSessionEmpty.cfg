SPECIFICATION Spec
CONSTANTS
  Callers = {c1, c2}
  MaxLogins = 1
INVARIANT NoEmptySession
