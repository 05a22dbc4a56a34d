SPECIFICATION FairSpec
CONSTANTS
  u1 = u1
  u2 = u2
  Callers = {c1, c2}
  Users = {u1, u2}
  None = None
  FailCooldownMin = 2
  FailCooldownMax = 3
  AuthCooldown = 3
  Waits = {1}
  MaxVersion <- MCMaxVersion
  MaxCooldown = 3
  MaxFaults = 2
INVARIANTS TypeOK OneRequestPerUser CooldownHolds
PROPERTIES ReadsPromised Recovers
