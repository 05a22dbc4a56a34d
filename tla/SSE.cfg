SPECIFICATION FairSpec
CONSTANTS
  u1 = u1
  member = member
  admin = admin
  Clients = {c1}
  Users = {u1}
  Owner <- MCOwner
  Notifiers = {n1}
  Broadcasters = {b1, b2}
  Answers <- MCAnswers
  AdminRoles = {admin}
  Configured <- MCConfigured
  ReadGrants <- MCReadGrants
  Homes <- MCHomes
  EventDirs <- MCEventDirs
  Capacity = 1
  MaxChanges = 1
  MaxEvents = 2
  NoAnswer = NoAnswer
  Anyone = Anyone
  Everybody = Everybody
  NoFilter = NoFilter
  None = None
INVARIANTS TypeOK NothingForeign
PROPERTIES StreamPromised FilterConverges BroadcastEnds LeaversClosed
CHECK_DEADLOCK FALSE
