SPECIFICATION Spec
CONSTANTS
  u1 = u1
  member = member
  admin = admin
  Users = {u1}
  Roles = {member, admin}
  Names = {"public", "user", "alice", "bob"}
  DirName <- MCDirName
  Settings = {"max_file_size", "max_concurrent_uploads"}
  Default <- MCDefault
  Contents <- MCContents
  Template <- MCTemplate
  Environments <- MCEnvironments
  Answers <- MCAnswers
  Requests = {r1, r2}
  RequestDirs <- MCRequestDirs
  OldDirs <- MCOldDirs
  Files = {f1}
  MaxSize = 1
  DirectorySize = 1
  RangeSpecs <- MCRangeSpecs
  Unset = Unset
  AnyRole = AnyRole
  NoAnswer = NoAnswer
  NoDir = NoDir
  Unparsable = Unparsable
  Bad = Bad
  Absent = Absent
  NoEnv = NoEnv
  NoConfig = NoConfig
  NoFile = NoFile
  NoRow = NoRow
  NoHash = NoHash
INVARIANTS TypeOK ContentTrue ActedWithPermission ListedIsAllowed SnapshotAgrees
PROPERTY UsableConfig
SYMMETRY Symmetry
CHECK_DEADLOCK FALSE
