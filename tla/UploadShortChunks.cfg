SPECIFICATION Spec
CONSTANTS
  Users = {u1}
  UploadIds = {i1}
  Filenames = {plain}
  MetaNames = {}
  TopDirs = {top}
  SubDirs = {}
  FileSizes = {3}
  ChunkSizes = {2}
  MaxConcurrent = 1
  MaxChunkFileSize = 3
  MaxChunks = 2
  MaxInt = 7
  ShortChunks = TRUE
  Faults = {}
  CrashPoints = {}
  MaxRestarts = 1
  NoSession = NoSession
  NoFile = NoFile
  Torn = Torn
INVARIANT PublishedWhole
