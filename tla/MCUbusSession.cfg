SPECIFICATION FairSpec
CONSTANTS
  Callers = {c1, c2}
  MaxLogins = 3
INVARIANTS
  TypeOK
  OneLoginPerRefusal
  RetryUsesAnotherSession
PROPERTIES
  FreshSessionKept
  CallReturns
