SPECIFICATION FairSpec
CONSTANTS
  u1 = u1
  Users = {u1}
  Browsers = {b1, b2}
  Owner <- MCOwner
  None = None
  MaxVersion = 1
  Qualified = {0}
  MaxSessions = 2
  MaxCrashes = 1
INVARIANTS TypeOK LoginKept
PROPERTIES SessionsPromised SessionsEnd
CHECK_DEADLOCK FALSE
