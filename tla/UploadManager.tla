--------------------------- MODULE UploadManager ---------------------------
(***************************************************************************)
(* Chunked uploads: internal/storage/upload_manager.go, driven by the      *)
(* handlers of internal/handler/chunk.go.                                  *)
(*                                                                         *)
(* Every operation of UploadManager runs under um.mu, so an operation is   *)
(* one atomic step with respect to the others.  It is not atomic with      *)
(* respect to the disk: each os call can fail, and the process can die     *)
(* between two of them.  The state is therefore split in memory (lost by a *)
(* restart) and disk (kept): the .temp file that collects the bytes, the   *)
(* .meta file that remembers the session, and the published files.         *)
(*                                                                         *)
(* An upload ID is a fresh UUID, so the files of an upload are functions   *)
(* of the ID.  A byte of a file is its offset: a file is the set of the    *)
(* offsets that were ever written, a hole is an offset below the size that *)
(* was not.  Permission to write the directory is checked before the       *)
(* manager is called and is not part of this component.                    *)
(***************************************************************************)
EXTENDS Integers, Sequences, FiniteSets, SequencesExt

CONSTANTS
  Users,             \* user IDs
  UploadIds,         \* the UUIDs uuid.New() can return
  Filenames,         \* names a client may declare
  MetaNames,         \* those that end in ".meta" and whose content is a JSON
                     \* object without an expires_at in the future
  TopDirs,           \* config.Storage.Directories[i].Path
  SubDirs,           \* directories below one of them, such as user/<name>
  FileSizes,         \* file_size values requested
  ChunkSizes,        \* chunk_size values requested
  MaxConcurrent,     \* config.Storage.MaxConcurrentUploads
  MaxChunkFileSize,  \* config.Storage.MaxChunkFileSize
  MaxChunks,         \* const maxChunks
  MaxInt,            \* the largest int64
  ShortChunks,       \* TRUE: a client may send fewer bytes than the chunk holds
  Faults,            \* which os calls may fail
  CrashPoints,       \* operations in which the process may die half way
  MaxRestarts,       \* bound on the number of restarts
  NoSession, NoFile, Torn

VARIABLES
  (* memory of the process *)
  sessions,          \* um.sessions: upload ID -> session or NoSession
  userUploads,       \* um.userUploads: an absent key reads as 0
  (* disk *)
  temp,              \* <id>_<name>.temp: offsets written, or NoFile
  meta,              \* <id>_<name>.meta: a session, Torn, or NoFile
  finals,            \* files published for the upload, in order
  (* time and history *)
  age,               \* "unused", "live" before ExpiresAt, "expired" after it
  restarts,          \* number of restarts so far
  restoredUsers      \* users for whom a session was ever read back from .meta

memory == <<sessions, userUploads>>
disk == <<temp, meta, finals>>
vars == <<sessions, userUploads, temp, meta, finals, age, restarts, restoredUsers>>

Directories == TopDirs \cup SubDirs

\* models.UploadSession, without the fields that no decision reads.
Session == [userID : Users, filename : Filenames, directory : Directories,
            totalSize : Nat, chunkSize : Nat \ {0}, totalChunks : Nat \ {0},
            uploadedChunks : Seq(Nat)]

\* What os.Rename leaves under the final name.
Published == [filename : Filenames, totalSize : Nat, bytes : SUBSET Nat]

ASSUME SizesAssumption ==
  /\ FileSizes \subseteq 1..MaxInt /\ ChunkSizes \subseteq 1..MaxInt
  /\ MaxInt \in Nat /\ MaxChunkFileSize \in 0..MaxInt /\ MaxChunks \in Nat
  /\ MaxConcurrent \in Nat /\ MaxRestarts \in Nat /\ ShortChunks \in BOOLEAN

ASSUME NullsAssumption ==
  /\ NoSession \notin Session
  /\ NoFile \notin Session /\ Torn \notin Session /\ NoFile # Torn

ASSUME FiniteAssumption == IsFiniteSet(UploadIds)

-----------------------------------------------------------------------------
(* Sizes *)

\* What is left of a sum or difference of two int64 values, the largest MaxInt.
Int64(n) ==
  IF n > MaxInt THEN n - 2 * (MaxInt + 1) ELSE IF n < -MaxInt - 1 THEN n + 2 * (MaxInt + 1) ELSE n

\* Mutant: the division rounds down.
TotalChunksRoundedDown(fileSize, chunkSize) == fileSize \div chunkSize

\* (FileSize + ChunkSize - 1) / ChunkSize, where Go's division truncates.
TotalChunksOf(fileSize, chunkSize) ==
  LET sum == Int64(Int64(fileSize + chunkSize) - 1)
  IN IF sum < 0 THEN -((-sum) \div chunkSize) ELSE sum \div chunkSize

\* The size os.Stat reports for a file with these offsets written.
FileSize(bytes) == IF bytes = {} THEN 0 ELSE 1 + Max(bytes)

Offset(session, chunk) == chunk * session.chunkSize

\* The offsets a write of len bytes at the chunk's offset fills.
Span(session, chunk, len) ==
  Offset(session, chunk)..(Offset(session, chunk) + len - 1)

\* How many bytes of the file belong to the chunk: what an honest client sends.
NominalLength(session, chunk) ==
  LET rest == session.totalSize - Offset(session, chunk)
  IN IF rest <= 0 THEN 0 ELSE IF rest < session.chunkSize THEN rest ELSE session.chunkSize

\* Body lengths that reach SaveChunk: MaxBytesReader cuts at ChunkSize.
BodyLengths(session, chunk) ==
  IF ShortChunks THEN 0..session.chunkSize ELSE {NominalLength(session, chunk)}

-----------------------------------------------------------------------------
(* Lookup, slots *)

\* Only the configured directories themselves are searched, not below them,
\* and a .meta that does not parse is skipped.  The pattern <id>_*.meta would also
\* match a published file of such a name; none here begins with an upload's id.
LoadSessionFromMeta(id) ==
  IF meta[id] \in {NoFile, Torn} THEN NoSession
  ELSE IF meta[id].directory \in TopDirs THEN meta[id] ELSE NoSession

FindSession(id) ==
  IF sessions[id] # NoSession THEN sessions[id] ELSE LoadSessionFromMeta(id)

\* The history of restores, for an operation that looked id up.
NoteRestore(id) ==
  restoredUsers' = IF sessions[id] # NoSession THEN restoredUsers
                   ELSE restoredUsers \cup {FindSession(id).userID}

SessionsOf(user) == {id \in UploadIds : sessions[id] # NoSession /\ sessions[id].userID = user}

\* Mutants: the count may go below 0; the slot is kept.
ReleaseBelowZero(count, n) == count - n

ReleaseForgotten(count, n) == count

\* releaseUploadSlot called n times: the count stops at 0.
Release(count, n) == IF count <= n THEN 0 ELSE count - n

-----------------------------------------------------------------------------
Init ==
  /\ sessions = [id \in UploadIds |-> NoSession]
  /\ userUploads = [u \in Users |-> 0]
  /\ temp = [id \in UploadIds |-> NoFile]
  /\ meta = [id \in UploadIds |-> NoFile]
  /\ finals = [id \in UploadIds |-> <<>>]
  /\ age = [id \in UploadIds |-> "unused"]
  /\ restarts = 0
  /\ restoredUsers = {}

-----------------------------------------------------------------------------
(* InitChunkUpload and CreateUploadSession *)

NewSession(user, name, dir, fileSize, chunkSize) ==
  [userID |-> user, filename |-> name, directory |-> dir, totalSize |-> fileSize,
   chunkSize |-> chunkSize, totalChunks |-> TotalChunksOf(fileSize, chunkSize),
   uploadedChunks |-> <<>>]

\* Mutant: the limit is off by one.
MayCreateOneMore(user, fileSize, chunkSize) ==
  /\ userUploads[user] <= MaxConcurrent
  /\ fileSize <= MaxChunkFileSize
  /\ chunkSize \in 1..MaxChunkFileSize
  /\ TotalChunksOf(fileSize, chunkSize) \in 1..MaxChunks

MayCreate(user, fileSize, chunkSize) ==
  /\ userUploads[user] < MaxConcurrent
  /\ fileSize <= MaxChunkFileSize
  /\ chunkSize \in 1..MaxChunkFileSize
  /\ TotalChunksOf(fileSize, chunkSize) \in 1..MaxChunks

\* The session and its slot are registered before the files are made, and
\* stay registered when making them fails.
InitChunkUpload(user, name, dir, fileSize, chunkSize) ==
  LET session == NewSession(user, name, dir, fileSize, chunkSize)
  IN /\ MayCreate(user, fileSize, chunkSize)
     /\ \E id \in UploadIds :
          /\ age[id] = "unused"
          /\ age' = [age EXCEPT ![id] = "live"]
          /\ sessions' = [sessions EXCEPT ![id] = session]
          /\ userUploads' = [userUploads EXCEPT ![user] = @ + 1]
          /\ \/ /\ temp' = [temp EXCEPT ![id] = {}]
                /\ meta' = [meta EXCEPT ![id] = session]
             \/ \* os.MkdirAll or os.Create fails
                /\ "create" \in Faults
                /\ UNCHANGED <<temp, meta>>
             \/ \* saveMetaFile fails, and so may the removal of the .temp
                /\ "meta" \in Faults
                /\ \E torn \in {NoFile, Torn} : meta' = [meta EXCEPT ![id] = torn]
                /\ \/ UNCHANGED temp
                   \/ "remove" \in Faults /\ temp' = [temp EXCEPT ![id] = {}]
     /\ UNCHANGED <<finals, restarts, restoredUsers>>

-----------------------------------------------------------------------------
(* UploadChunk and SaveChunk *)

\* Mutant: a repeated chunk is stored again.
AcceptsChunkAgain(session, user, chunk, len) ==
  /\ session.userID = user
  /\ chunk \in 0..(session.totalChunks - 1)
  /\ Offset(session, chunk) + len <= session.totalSize

\* UploadChunk looks the session up, reads the body without the lock, and
\* calls SaveChunk, which repeats every check: what the first lookup read is
\* the owner and ChunkSize, which never change, so a request is any call of
\* SaveChunk at any moment.
AcceptsChunk(session, user, chunk, len) ==
  /\ session.userID = user
  /\ 0 <= chunk /\ chunk < session.totalChunks
  /\ len <= session.chunkSize
  /\ Offset(session, chunk) + len <= session.totalSize
  /\ chunk \notin ToSet(session.uploadedChunks)

WithChunk(session, chunk) ==
  [session EXCEPT !.uploadedChunks = Append(@, chunk)]

\* Mutant: the new chunk list is not saved.
SavedMetaUnchanged(id, session) == {meta[id]}

\* What saveMetaFile leaves: os.WriteFile truncates before it writes.
SavedMeta(id, session) ==
  {session} \cup (IF "meta" \in Faults THEN {meta[id], Torn} ELSE {})

\* The request is refused, repeats a chunk, or fails to open the .temp: the
\* only effect is that a session read back from .meta is now in memory.
ChunkNotStored(id, session) ==
  /\ sessions' = [sessions EXCEPT ![id] = session]
  /\ UNCHANGED <<temp, meta>>

\* Mutant: the chunk is recorded on disk before its bytes are written.
ChunkRecordedFirst(id, session, chunk, len) ==
  /\ "write" \in Faults
  /\ sessions' = [sessions EXCEPT ![id] = session]
  /\ meta' = [meta EXCEPT ![id] = WithChunk(session, chunk)]
  /\ UNCHANGED temp

\* file.Write fails after k bytes.
ChunkWriteFails(id, session, chunk, len) ==
  /\ "write" \in Faults
  /\ sessions' = [sessions EXCEPT ![id] = session]
  /\ \E k \in 0..(len - 1) :
       temp' = [temp EXCEPT ![id] = @ \cup Span(session, chunk, k)]
  /\ UNCHANGED meta

\* The chunk is recorded in memory whether or not saveMetaFile succeeds.
ChunkStored(id, session, chunk, len) ==
  /\ temp' = [temp EXCEPT ![id] = @ \cup Span(session, chunk, len)]
  /\ sessions' = [sessions EXCEPT ![id] = WithChunk(session, chunk)]
  /\ \E saved \in SavedMeta(id, WithChunk(session, chunk)) :
       meta' = [meta EXCEPT ![id] = saved]

SaveChunk(id, user, chunk, len) ==
  LET session == FindSession(id)
  IN /\ session # NoSession
     /\ IF AcceptsChunk(session, user, chunk, len) /\ temp[id] # NoFile
        THEN \/ ChunkStored(id, session, chunk, len)
             \/ ChunkWriteFails(id, session, chunk, len)
        ELSE ChunkNotStored(id, session)
     /\ NoteRestore(id)
     /\ UNCHANGED <<userUploads, finals, age, restarts>>

-----------------------------------------------------------------------------
(* CompleteUpload *)

\* Mutant: the chunks are not counted.
MayCompleteUncounted(id, session, user) ==
  /\ session.userID = user
  /\ temp[id] # NoFile
  /\ FileSize(temp[id]) = session.totalSize

MayComplete(id, session, user) ==
  /\ session.userID = user
  /\ Len(session.uploadedChunks) = session.totalChunks
  /\ temp[id] # NoFile
  /\ FileSize(temp[id]) = session.totalSize

\* Mutant: the file is copied and not moved.
PublishCopy(id, session) ==
  /\ finals' = [finals EXCEPT ![id] = Append(@,
         [filename |-> session.filename, totalSize |-> session.totalSize,
          bytes |-> temp[id]])]
  /\ UNCHANGED temp

Publish(id, session) ==
  /\ finals' = [finals EXCEPT ![id] = Append(@,
         [filename |-> session.filename, totalSize |-> session.totalSize,
          bytes |-> temp[id]])]
  /\ temp' = [temp EXCEPT ![id] = NoFile]

\* A failing os.Rename changes nothing.  When the os.Stat after it fails the
\* caller gets an error, and the session stays as it was.
CompleteUpload(id, user) ==
  LET session == FindSession(id)
  IN /\ session # NoSession
     /\ MayComplete(id, session, user)
     /\ Publish(id, session)
     /\ \/ /\ sessions' = [sessions EXCEPT ![id] = NoSession]
           /\ userUploads' = [userUploads EXCEPT ![session.userID] = Release(@, 1)]
           /\ \/ meta' = [meta EXCEPT ![id] = NoFile]
              \/ "remove" \in Faults /\ UNCHANGED meta
        \/ "stat" \in Faults /\ UNCHANGED <<memory, meta>>
     /\ NoteRestore(id)
     /\ UNCHANGED <<age, restarts>>

-----------------------------------------------------------------------------
(* CancelUpload and cleanup *)

\* The uploads of gone whose file an os.Remove may leave: only a log line.
Leftovers(gone) == IF "remove" \in Faults THEN SUBSET gone ELSE {{}}

\* The .temp and the .meta of every upload in gone are removed, except keepTemp
\* and keepMeta.
RemoveFiles(gone, keepTemp, keepMeta) ==
  /\ temp' = [id \in UploadIds |-> IF id \in gone \ keepTemp THEN NoFile ELSE temp[id]]
  /\ meta' = [id \in UploadIds |-> IF id \in gone \ keepMeta THEN NoFile ELSE meta[id]]

CancelUpload(id, user) ==
  LET session == FindSession(id)
  IN /\ session # NoSession
     /\ session.userID = user
     /\ sessions' = [sessions EXCEPT ![id] = NoSession]
     /\ userUploads' = [userUploads EXCEPT ![session.userID] = Release(@, 1)]
     /\ \E keepTemp \in Leftovers({id}), keepMeta \in Leftovers({id}) :
           RemoveFiles({id}, keepTemp, keepMeta)
     /\ NoteRestore(id)
     /\ UNCHANGED <<finals, age, restarts>>

\* Mutant: a session without a .meta is overlooked.
DueOnDisk ==
  {id \in UploadIds : sessions[id] # NoSession /\ age[id] = "expired" /\ meta[id] # NoFile}

\* The sessions that cleanup's own reading of the clock finds expired.
Due == {id \in UploadIds : sessions[id] # NoSession /\ age[id] = "expired"}

\* The .meta files whose expiry the walk finds passed; it reads the clock
\* again for each file, and the ids of late expire after the first reading.
Swept(late) ==
  {id \in UploadIds : meta[id] \notin {NoFile, Torn} /\ (age[id] = "expired" \/ id \in late)}

Live == {id \in UploadIds : age[id] = "live"}

PassExpiry(late) ==
  age' = [id \in UploadIds |-> IF id \in late THEN "expired" ELSE age[id]]

\* Mutant: the walk removes whatever belongs to an expired upload.
SweepFinalsOfExpired ==
  finals' = [id \in UploadIds |-> IF age[id] = "expired" THEN <<>> ELSE finals[id]]

\* A published file that is itself called *.meta is read as a session file.
SweepFinals ==
  finals' = [id \in UploadIds |->
    IF \E k \in DOMAIN finals[id] : finals[id][k].filename \in MetaNames THEN <<>> ELSE finals[id]]

Cleanup ==
  \E late \in SUBSET Live :
    /\ LET gone == Due \cup Swept(late)
       IN \E keepTemp \in Leftovers(gone), keepMeta \in Leftovers(gone) :
             RemoveFiles(gone, keepTemp, keepMeta)
    /\ SweepFinals
    /\ PassExpiry(late)
    /\ sessions' = [id \in UploadIds |-> IF id \in Due THEN NoSession ELSE sessions[id]]
    /\ userUploads' = [u \in Users |->
          Release(userUploads[u], Cardinality(Due \cap SessionsOf(u)))]
    /\ UNCHANGED <<restarts, restoredUsers>>

\* Time reaches the session's ExpiresAt.
Expire(id) ==
  /\ age[id] = "live"
  /\ age' = [age EXCEPT ![id] = "expired"]
  /\ UNCHANGED <<memory, disk, restarts, restoredUsers>>

-----------------------------------------------------------------------------
(* Restarts: NewUploadManager starts with empty maps on the disk it finds *)

LoseMemory ==
  /\ restarts < MaxRestarts
  /\ restarts' = restarts + 1
  /\ sessions' = [id \in UploadIds |-> NoSession]
  /\ userUploads' = [u \in Users |-> 0]
  /\ UNCHANGED restoredUsers

Restart ==
  /\ LoseMemory
  /\ UNCHANGED <<disk, age>>

\* The process dies after os.Create and before the .meta is written.
CrashInCreate(user, fileSize, chunkSize) ==
  /\ "create" \in CrashPoints
  /\ MayCreate(user, fileSize, chunkSize)
  /\ \E id \in UploadIds, torn \in {NoFile, Torn} :
       /\ age[id] = "unused"
       /\ age' = [age EXCEPT ![id] = "live"]
       /\ temp' = [temp EXCEPT ![id] = {}]
       /\ meta' = [meta EXCEPT ![id] = torn]
  /\ LoseMemory
  /\ UNCHANGED finals

\* The process dies in SaveChunk: part of the bytes is written, or all of
\* them and the .meta is truncated.
CrashInSaveChunk(id, user, chunk, len) ==
  LET session == FindSession(id)
  IN /\ "save" \in CrashPoints
     /\ session # NoSession
     /\ AcceptsChunk(session, user, chunk, len)
     /\ temp[id] # NoFile
     /\ \/ /\ \E k \in 0..len :
                temp' = [temp EXCEPT ![id] = @ \cup Span(session, chunk, k)]
           /\ UNCHANGED meta
        \/ /\ temp' = [temp EXCEPT ![id] = @ \cup Span(session, chunk, len)]
           /\ meta' = [meta EXCEPT ![id] = Torn]
     /\ LoseMemory
     /\ UNCHANGED <<finals, age>>

\* The process dies after the rename and before the .meta is removed.
CrashInComplete(id, user) ==
  LET session == FindSession(id)
  IN /\ "complete" \in CrashPoints
     /\ session # NoSession
     /\ MayComplete(id, session, user)
     /\ Publish(id, session)
     /\ LoseMemory
     /\ UNCHANGED <<meta, age>>

\* removeSession removes the .temp first, the walk removes the .meta first:
\* the process dies between the two, for the upload half.
CrashInCancel(id, user) ==
  LET session == FindSession(id)
  IN /\ "remove" \in CrashPoints
     /\ session # NoSession
     /\ session.userID = user
     /\ RemoveFiles({id}, {}, {id})
     /\ LoseMemory
     /\ UNCHANGED <<finals, age>>

CrashInCleanup ==
  /\ "remove" \in CrashPoints
  /\ \E done \in SUBSET (Due \cup Swept({})) :
       \E half \in (Due \cup Swept({})) \ done :
         RemoveFiles(done \cup {half}, {half} \ Due, {half} \cap Due)
  /\ LoseMemory
  /\ UNCHANGED <<finals, age>>

-----------------------------------------------------------------------------
\* Chunk numbers a request may carry: one below and one above the valid range.
ChunkNumbers(id) ==
  IF FindSession(id) = NoSession THEN {} ELSE (-1)..FindSession(id).totalChunks

Next ==
  \/ \E user \in Users, name \in Filenames, dir \in Directories,
        fileSize \in FileSizes, chunkSize \in ChunkSizes :
          InitChunkUpload(user, name, dir, fileSize, chunkSize)
  \/ \E id \in UploadIds, user \in Users : \E chunk \in ChunkNumbers(id) :
        \E len \in BodyLengths(FindSession(id), chunk) : SaveChunk(id, user, chunk, len)
  \/ \E id \in UploadIds, user \in Users : CompleteUpload(id, user)
  \/ \E id \in UploadIds, user \in Users : CancelUpload(id, user)
  \/ Cleanup
  \/ \E id \in UploadIds : Expire(id)
  \/ Restart
  \/ \E user \in Users, fileSize \in FileSizes, chunkSize \in ChunkSizes :
        CrashInCreate(user, fileSize, chunkSize)
  \/ \E id \in UploadIds, user \in Users : \E chunk \in ChunkNumbers(id) :
        \E len \in BodyLengths(FindSession(id), chunk) : CrashInSaveChunk(id, user, chunk, len)
  \/ \E id \in UploadIds, user \in Users : CrashInComplete(id, user)
  \/ \E id \in UploadIds, user \in Users : CrashInCancel(id, user)
  \/ CrashInCleanup

Spec == Init /\ [][Next]_vars

\* startCleanupRoutine calls cleanup on every tick for as long as the process
\* runs, and time passes: each session reaches its ExpiresAt.
Fairness == WF_vars(Cleanup) /\ \A id \in UploadIds : WF_vars(Expire(id))

FairSpec == Spec /\ Fairness
-----------------------------------------------------------------------------
(* Properties *)

SessionOr(null) == {null} \cup Session

\* Every variable keeps its type; in particular no slot count goes below 0.
TypeOK ==
  /\ sessions \in [UploadIds -> SessionOr(NoSession)]
  /\ userUploads \in [Users -> Nat]
  /\ temp \in [UploadIds -> {NoFile} \cup SUBSET Nat]
  /\ meta \in [UploadIds -> {Torn} \cup SessionOr(NoFile)]
  /\ finals \in [UploadIds -> Seq(Published)]
  /\ age \in [UploadIds -> {"unused", "live", "expired"}]
  /\ restarts \in 0..MaxRestarts
  /\ restoredUsers \subseteq Users

\* A slot is never leaked: the count userUploads keeps for a user is at most
\* the number of the user's sessions in memory, whatever fails or restarts.
\* A user without a session is never refused with ErrMaxConcurrentUploads.
SlotsNotLeaked ==
  \A u \in Users : userUploads[u] <= Cardinality(SessionsOf(u))

\* As long as no session of the user was read back from a .meta file (which
\* does not count it), the count is exact, so max_concurrent_uploads holds.
LimitHolds ==
  \A u \in Users \ restoredUsers :
    /\ userUploads[u] = Cardinality(SessionsOf(u))
    /\ Cardinality(SessionsOf(u)) <= MaxConcurrent

\* The .meta on disk is never ahead of the session in memory: it describes
\* the same upload, with a prefix of the chunks recorded.
RecordNotAhead ==
  \A id \in UploadIds :
    sessions[id] # NoSession /\ meta[id] \notin {NoFile, Torn} =>
      /\ IsPrefix(meta[id].uploadedChunks, sessions[id].uploadedChunks)
      /\ meta[id] = [sessions[id] EXCEPT !.uploadedChunks = meta[id].uploadedChunks]

\* A published file has every byte of its declared size (the comment of
\* CompleteUpload: a matching size guarantees completeness), across failed and
\* repeated writes, failing .meta writes, restarts and crashes.
PublishedWhole ==
  \A id \in UploadIds : \A k \in DOMAIN finals[id] :
    finals[id][k].bytes = 0..(finals[id][k].totalSize - 1)

\* An upload is published at most once, even when CompleteUpload reported an
\* error or the process died after the rename and the client retries.
PublishedOnce == \A id \in UploadIds : Len(finals[id]) <= 1

\* A published file stays as it is: no later operation on uploads, no cleanup
\* and no restart removes or changes it.
PublishedStays == [][\A id \in UploadIds : IsPrefix(finals[id], finals'[id])]_finals

\* The chunk count computed by InitChunkUpload in int64 arithmetic covers the
\* declared size, and no chunk is superfluous.
ChunksCoverFile ==
  \A id \in UploadIds : sessions[id] # NoSession =>
    LET s == sessions[id]
    IN /\ (s.totalChunks - 1) * s.chunkSize < s.totalSize
       /\ s.totalSize <= s.totalChunks * s.chunkSize

\* An upload in progress can be resumed after a restart, with every chunk the
\* server recorded: the lookup on disk finds the session that is in memory.
\* ("saved together with temp, for without .meta no session can be restored
\* after a restart", says CreateUploadSession.)
Resumable ==
  \A id \in Live : sessions[id] # NoSession /\ temp[id] # NoFile =>
    LoadSessionFromMeta(id) = sessions[id]

\* Every upload that expires is in the end forgotten for good, in memory and as
\* a session on disk, even one whose files were never made.
ExpiredVanish ==
  <>[](\A id \in UploadIds : age[id] = "expired" =>
         sessions[id] = NoSession /\ LoadSessionFromMeta(id) = NoSession)

\* A user who has reached the limit gets a slot back without doing anything.
SlotComesBack ==
  \A u \in Users : userUploads[u] >= MaxConcurrent ~> userUploads[u] < MaxConcurrent

-----------------------------------------------------------------------------
(* What the client sees of an upload, and the promise it implements *)

ClientView(id) ==
  LET found == FindSession(id)
  IN IF finals[id] # <<>> THEN [status |-> "published", expected |-> 0, received |-> {}]
     ELSE IF age[id] = "unused" THEN [status |-> "none", expected |-> 0, received |-> {}]
     ELSE IF found = NoSession THEN [status |-> "closed", expected |-> 0, received |-> {}]
     ELSE [status |-> "open", expected |-> found.totalChunks,
           received |-> ToSet(found.uploadedChunks)]

\* Only a .meta that could not be saved lets a restart set an upload back.
Promise == INSTANCE UploadPromise WITH
             upload <- [id \in UploadIds |-> ClientView(id)],
             MayForget <- "meta" \in Faults

\* Chunked uploads keep the promise of UploadPromise: an upload is published only
\* with every chunk, never comes back once it is closed or published, and never
\* loses a recorded chunk while it is open, unless saving its .meta may fail.
KeepsPromise == Promise!Spec
=============================================================================
