SPECIFICATION Spec
CONSTANTS
  u1 = u1
  member = member
  admin = admin
  Clients = {c1, c2}
  Users = {u1}
  Owner <- MCOwner
  Notifiers = {n1}
  Broadcasters = {b1}
  Answers <- MCAnswers
  AdminRoles = {admin}
  Configured <- MCConfigured
  ReadGrants <- MCReadGrants
  Homes <- MCHomes
  EventDirs <- MCEventDirs
  Capacity = 1
  MaxChanges = 1
  MaxEvents = 1
  NoAnswer = NoAnswer
  Anyone = Anyone
  Everybody = Everybody
  NoFilter = NoFilter
  None = None
INVARIANT NoSendOnClosed
CHECK_DEADLOCK FALSE
