SPECIFICATION Spec
CONSTANTS
  Users = {u1, u2}
  UploadIds = {i1, i2}
  Filenames = {plain}
  MetaNames = {}
  TopDirs = {top}
  SubDirs = {}
  FileSizes = {3}
  ChunkSizes = {2}
  MaxConcurrent = 1
  MaxChunkFileSize = 3
  MaxChunks = 2
  MaxInt = 7
  ShortChunks = FALSE
  Faults = {"create", "meta", "write", "stat", "remove"}
  CrashPoints = {"create", "save", "complete", "remove"}
  MaxRestarts = 1
  NoSession = NoSession
  NoFile = NoFile
  Torn = Torn
SYMMETRY Symmetry
INVARIANTS TypeOK SlotsNotLeaked LimitHolds RecordNotAhead PublishedWhole PublishedOnce
PROPERTY PublishedStays
