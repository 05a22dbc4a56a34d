SPECIFICATION FairSpec
CONSTANTS
  Users = {u1, u2}
  UploadIds = {i1}
  Filenames = {plain}
  MetaNames = {}
  TopDirs = {top}
  SubDirs = {}
  FileSizes = {1, 2, 3, 4, 6}
  ChunkSizes = {1, 2, 3, 4, 5}
  MaxConcurrent = 1
  MaxChunkFileSize = 4
  MaxChunks = 3
  MaxInt = 7
  ShortChunks = FALSE
  Faults = {"create", "write", "stat"}
  CrashPoints = {"create", "save", "complete", "remove"}
  MaxRestarts = 2
  NoSession = NoSession
  NoFile = NoFile
  Torn = Torn
INVARIANTS ChunksCoverFile Resumable
PROPERTIES KeepsPromise ExpiredVanish SlotComesBack
