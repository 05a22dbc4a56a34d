------------------------ MODULE UploadManagerProofs ------------------------
(***************************************************************************)
(* Theorems about UploadManager, for every value of its constants: types,  *)
(* the global slots, the content of published files and the sizes of       *)
(* sessions.                                                               *)
(***************************************************************************)
EXTENDS UploadManager, FiniteSetTheorems, FunctionTheorems, TLAPS

-----------------------------------------------------------------------------
(* Type correctness *)

\* The lookup finds a session or nothing.
LEMMA FindSessionType ==
  ASSUME TypeOK, NEW id \in UploadIds
  PROVE  FindSession(id) \in {NoSession} \cup Session
BY DEF TypeOK, FindSession, LoadSessionFromMeta, SessionOr

\* A session made by InitChunkUpload is a session.
LEMMA NewSessionType ==
  ASSUME NEW user \in Users, NEW name \in Filenames, NEW dir \in Directories,
         NEW fileSize \in FileSizes, NEW chunkSize \in ChunkSizes,
         MayCreate(user, fileSize, chunkSize)
  PROVE  NewSession(user, name, dir, fileSize, chunkSize) \in Session
<1>1. fileSize \in Nat /\ chunkSize \in Nat \ {0}
  BY SizesAssumption
<1>2. TotalChunksOf(fileSize, chunkSize) \in Nat \ {0}
  BY SizesAssumption DEF MayCreate
<1> QED
  BY <1>1, <1>2 DEF NewSession, Session

\* The bytes of a chunk that is accepted lie at offsets 0 and above.
LEMMA SpanType ==
  ASSUME NEW s \in Session, NEW chunk \in Nat, NEW len \in Nat
  PROVE  Span(s, chunk, len) \in SUBSET Nat
<1>1. s.chunkSize \in Nat
  BY DEF Session
<1>2. chunk * s.chunkSize \in Nat
  BY <1>1
<1> QED
  BY <1>2 DEF Span, Offset

LEMMA ReleaseType ==
  ASSUME NEW count \in Nat, NEW n \in Nat
  PROVE  Release(count, n) \in Nat /\ Release(count, n) <= count
BY DEF Release

\* The arguments of a chunk request have the types SaveChunk relies on.
LEMMA RequestType ==
  ASSUME TypeOK, NEW id \in UploadIds, NEW chunk \in ChunkNumbers(id),
         NEW len \in BodyLengths(FindSession(id), chunk)
  PROVE  /\ FindSession(id) \in Session
         /\ chunk \in Int /\ len \in Nat
<1>1. FindSession(id) \in Session
  BY FindSessionType DEF ChunkNumbers
<1>2. chunk \in Int
  BY <1>1 DEF ChunkNumbers, Session
<1>3. len \in Nat
  <2> DEFINE s == FindSession(id)
             rest == s.totalSize - chunk * s.chunkSize
  <2>1. s.chunkSize \in Nat /\ s.totalSize \in Nat
    BY <1>1 DEF Session
  <2>2. rest \in Int
    BY <1>2, <2>1
  <2>3. NominalLength(s, chunk) \in Nat
    BY <2>1, <2>2 DEF NominalLength, Offset
  <2> QED
    BY <2>1, <2>3 DEF BodyLengths
<1> QED
  BY <1>1, <1>2, <1>3

LEMMA CreateType ==
  ASSUME TypeOK, NEW user \in Users, NEW name \in Filenames, NEW dir \in Directories,
         NEW fileSize \in FileSizes, NEW chunkSize \in ChunkSizes,
         InitChunkUpload(user, name, dir, fileSize, chunkSize)
  PROVE  TypeOK'
<1> DEFINE session == NewSession(user, name, dir, fileSize, chunkSize)
<1>1. session \in Session
  BY NewSessionType DEF InitChunkUpload
<1>2. PICK id \in UploadIds :
        /\ age' = [age EXCEPT ![id] = "live"]
        /\ sessions' = [sessions EXCEPT ![id] = session]
        /\ userUploads' = [userUploads EXCEPT ![user] = @ + 1]
        /\ temp' = temp \/ temp' = [temp EXCEPT ![id] = {}]
        /\ \E m \in {session, Torn, NoFile, meta[id]} : meta' = [meta EXCEPT ![id] = m]
  <2>1. \A i \in UploadIds : meta = [meta EXCEPT ![i] = meta[i]]
    BY DEF TypeOK
  <2> QED
    BY <2>1 DEF InitChunkUpload, TypeOK
<1>3. UNCHANGED <<finals, restarts, restoredUsers>>
  BY DEF InitChunkUpload
<1> HIDE DEF session
<1>4. /\ sessions' \in [UploadIds -> SessionOr(NoSession)]
      /\ meta' \in [UploadIds -> {Torn} \cup SessionOr(NoFile)]
  BY <1>1, <1>2 DEF TypeOK, SessionOr
<1>5. temp' \in [UploadIds -> {NoFile} \cup SUBSET Nat]
  BY <1>2 DEF TypeOK
<1>6. userUploads' \in [Users -> Nat] /\ age' \in [UploadIds -> {"unused", "live", "expired"}]
  BY <1>2 DEF TypeOK
<1> QED
  BY <1>3, <1>4, <1>5, <1>6 DEF TypeOK

\* Recording an accepted chunk yields a session again.
LEMMA WithChunkType ==
  ASSUME NEW s \in Session, NEW chunk \in Nat
  PROVE  WithChunk(s, chunk) \in Session
<1> DEFINE chunks == Append(s.uploadedChunks, chunk)
<1>1. chunks \in Seq(Nat)
  BY DEF Session
<1> HIDE DEF chunks
<1>2. [s EXCEPT !.uploadedChunks = chunks] \in Session
  BY <1>1 DEF Session
<1> QED
  BY <1>2 DEF WithChunk, chunks

LEMMA SaveChunkType ==
  ASSUME TypeOK, NEW id \in UploadIds, NEW user \in Users, NEW chunk \in ChunkNumbers(id),
         NEW len \in BodyLengths(FindSession(id), chunk),
         SaveChunk(id, user, chunk, len)
  PROVE  TypeOK'
<1> DEFINE session == FindSession(id)
<1>1. session \in Session /\ chunk \in Int /\ len \in Nat
  BY RequestType
<1>2. restoredUsers' \subseteq Users
  BY <1>1 DEF SaveChunk, NoteRestore, TypeOK, Session
<1>3. CASE ChunkNotStored(id, session)
  BY <1>1, <1>2, <1>3 DEF SaveChunk, ChunkNotStored, TypeOK, SessionOr
<1>4. CASE /\ AcceptsChunk(session, user, chunk, len)
           /\ temp[id] # NoFile
           /\ ChunkStored(id, session, chunk, len)
  <2>1. chunk \in Nat
    BY <1>1, <1>4 DEF AcceptsChunk
  <2>2. WithChunk(session, chunk) \in Session /\ Span(session, chunk, len) \in SUBSET Nat
    BY <1>1, <2>1, WithChunkType, SpanType
  <2>3. SavedMeta(id, WithChunk(session, chunk)) \subseteq {Torn} \cup SessionOr(NoFile)
    BY <2>2 DEF SavedMeta, TypeOK, SessionOr
  <2> HIDE DEF session
  <2> QED
    BY <1>2, <1>4, <2>2, <2>3 DEF SaveChunk, ChunkStored, TypeOK, SessionOr
<1>5. CASE /\ AcceptsChunk(session, user, chunk, len)
           /\ temp[id] # NoFile
           /\ ChunkWriteFails(id, session, chunk, len)
  <2>1. chunk \in Nat
    BY <1>1, <1>5 DEF AcceptsChunk
  <2>2. \A k \in 0..(len - 1) : Span(session, chunk, k) \in SUBSET Nat
    BY <1>1, <2>1, SpanType
  <2> HIDE DEF session
  <2> QED
    BY <1>1, <1>2, <1>5, <2>2 DEF SaveChunk, ChunkWriteFails, TypeOK, SessionOr
<1> QED
  BY <1>3, <1>4, <1>5 DEF SaveChunk

\* What CompleteUpload publishes is a published file.
LEMMA PublishType ==
  ASSUME TypeOK, NEW id \in UploadIds, NEW s \in Session, NEW user \in Users,
         MayComplete(id, s, user), Publish(id, s)
  PROVE  /\ finals' \in [UploadIds -> Seq(Published)]
         /\ temp' \in [UploadIds -> {NoFile} \cup SUBSET Nat]
<1>1. [filename |-> s.filename, totalSize |-> s.totalSize, bytes |-> temp[id]] \in Published
  BY DEF Published, Session, TypeOK, MayComplete
<1> QED
  BY <1>1 DEF Publish, TypeOK

LEMMA CompleteType ==
  ASSUME TypeOK, NEW id \in UploadIds, NEW user \in Users, CompleteUpload(id, user)
  PROVE  TypeOK'
<1> DEFINE session == FindSession(id)
<1>1. session \in Session
  BY FindSessionType DEF CompleteUpload
<1>2. restoredUsers' \subseteq Users
  BY <1>1 DEF CompleteUpload, NoteRestore, TypeOK, Session
<1>3. /\ finals' \in [UploadIds -> Seq(Published)]
      /\ temp' \in [UploadIds -> {NoFile} \cup SUBSET Nat]
  BY <1>1, PublishType DEF CompleteUpload
<1>4. session.userID \in Users /\ Release(userUploads[session.userID], 1) \in Nat
  BY <1>1, ReleaseType DEF Session, TypeOK
<1> HIDE DEF session
<1> QED
  BY <1>1, <1>2, <1>3, <1>4 DEF CompleteUpload, memory, TypeOK, SessionOr, session

LEMMA RemoveFilesType ==
  ASSUME TypeOK, NEW gone, NEW keepTemp, NEW keepMeta, RemoveFiles(gone, keepTemp, keepMeta)
  PROVE  /\ temp' \in [UploadIds -> {NoFile} \cup SUBSET Nat]
         /\ meta' \in [UploadIds -> {Torn} \cup SessionOr(NoFile)]
BY DEF RemoveFiles, TypeOK, SessionOr

LEMMA CancelType ==
  ASSUME TypeOK, NEW id \in UploadIds, NEW user \in Users, CancelUpload(id, user)
  PROVE  TypeOK'
<1> DEFINE session == FindSession(id)
<1>1. session \in Session
  BY FindSessionType DEF CancelUpload
<1>2. restoredUsers' \subseteq Users
  BY <1>1 DEF CancelUpload, NoteRestore, TypeOK, Session
<1>3. /\ temp' \in [UploadIds -> {NoFile} \cup SUBSET Nat]
      /\ meta' \in [UploadIds -> {Torn} \cup SessionOr(NoFile)]
  BY RemoveFilesType DEF CancelUpload
<1>4. session.userID \in Users /\ Release(userUploads[session.userID], 1) \in Nat
  BY <1>1, ReleaseType DEF Session, TypeOK
<1> HIDE DEF session
<1> QED
  BY <1>1, <1>2, <1>3, <1>4 DEF CancelUpload, TypeOK, SessionOr, session

LEMMA CleanupType ==
  ASSUME TypeOK, Cleanup
  PROVE  TypeOK'
<1>1. /\ temp' \in [UploadIds -> {NoFile} \cup SUBSET Nat]
      /\ meta' \in [UploadIds -> {Torn} \cup SessionOr(NoFile)]
  BY RemoveFilesType DEF Cleanup
<1>2. finals' \in [UploadIds -> Seq(Published)]
  BY DEF Cleanup, SweepFinals, TypeOK
<1>3. userUploads' \in [Users -> Nat]
  <2>1. \A u \in Users : Cardinality(Due \cap SessionsOf(u)) \in Nat
    BY FiniteAssumption, FS_Subset, FS_CardinalityType DEF Due
  <2>2. \A u \in Users : Release(userUploads[u], Cardinality(Due \cap SessionsOf(u))) \in Nat
    BY <2>1, ReleaseType DEF TypeOK
  <2> QED
    BY <2>2 DEF Cleanup
<1>4. sessions' \in [UploadIds -> SessionOr(NoSession)]
  BY DEF Cleanup, TypeOK, SessionOr
<1>5. age' \in [UploadIds -> {"unused", "live", "expired"}]
  BY DEF Cleanup, PassExpiry, TypeOK
<1> QED
  BY <1>1, <1>2, <1>3, <1>4, <1>5 DEF Cleanup, TypeOK

\* Losing the memory leaves well-typed memory.
LEMMA LoseMemoryType ==
  ASSUME TypeOK, LoseMemory
  PROVE  /\ sessions' \in [UploadIds -> SessionOr(NoSession)]
         /\ userUploads' \in [Users -> Nat]
         /\ restarts' \in 0..MaxRestarts
         /\ restoredUsers' \subseteq Users
BY SizesAssumption DEF LoseMemory, TypeOK, SessionOr

LEMMA CrashInCreateType ==
  ASSUME TypeOK, NEW user \in Users, NEW fileSize \in FileSizes, NEW chunkSize \in ChunkSizes,
         CrashInCreate(user, fileSize, chunkSize)
  PROVE  TypeOK'
BY LoseMemoryType DEF CrashInCreate, TypeOK, SessionOr

LEMMA CrashInSaveChunkType ==
  ASSUME TypeOK, NEW id \in UploadIds, NEW user \in Users, NEW chunk \in ChunkNumbers(id),
         NEW len \in BodyLengths(FindSession(id), chunk),
         CrashInSaveChunk(id, user, chunk, len)
  PROVE  TypeOK'
<1> DEFINE session == FindSession(id)
<1>1. session \in Session /\ chunk \in Nat /\ len \in Nat
  BY RequestType DEF CrashInSaveChunk, AcceptsChunk
<1>2. \A k \in Nat : Span(session, chunk, k) \in SUBSET Nat
  BY <1>1, SpanType
<1> HIDE DEF session
<1>3. temp' \in [UploadIds -> {NoFile} \cup SUBSET Nat]
  <2>1. \A k \in 0..len : Span(session, chunk, k) \in SUBSET Nat
    BY <1>1, <1>2
  <2>2. \E k \in 0..len :
          temp' = [temp EXCEPT ![id] = temp[id] \cup Span(session, chunk, k)]
    BY <1>1 DEF CrashInSaveChunk, session
  <2>3. temp[id] \in SUBSET Nat
    BY DEF CrashInSaveChunk, TypeOK
  <2> QED
    BY <2>1, <2>2, <2>3 DEF TypeOK
<1>4. meta' \in [UploadIds -> {Torn} \cup SessionOr(NoFile)]
  BY DEF CrashInSaveChunk, TypeOK, SessionOr
<1> QED
  BY <1>3, <1>4, LoseMemoryType DEF CrashInSaveChunk, TypeOK

LEMMA CrashInCompleteType ==
  ASSUME TypeOK, NEW id \in UploadIds, NEW user \in Users, CrashInComplete(id, user)
  PROVE  TypeOK'
<1>1. FindSession(id) \in Session
  BY FindSessionType DEF CrashInComplete
<1>2. /\ finals' \in [UploadIds -> Seq(Published)]
      /\ temp' \in [UploadIds -> {NoFile} \cup SUBSET Nat]
  BY <1>1, PublishType DEF CrashInComplete
<1> QED
  BY <1>2, LoseMemoryType DEF CrashInComplete, TypeOK

\* Every step of the component preserves the types.
LEMMA TypeStep ==
  ASSUME TypeOK, [Next]_vars
  PROVE  TypeOK'
<1>1. CASE Next
  <2>1. CASE \E user \in Users, name \in Filenames, dir \in Directories,
                fileSize \in FileSizes, chunkSize \in ChunkSizes :
                  InitChunkUpload(user, name, dir, fileSize, chunkSize)
    BY <2>1, CreateType
  <2>2. CASE \E id \in UploadIds, user \in Users : \E chunk \in ChunkNumbers(id) :
               \E len \in BodyLengths(FindSession(id), chunk) : SaveChunk(id, user, chunk, len)
    BY <2>2, SaveChunkType
  <2>3. CASE \E id \in UploadIds, user \in Users : CompleteUpload(id, user)
    BY <2>3, CompleteType
  <2>4. CASE \E id \in UploadIds, user \in Users : CancelUpload(id, user)
    BY <2>4, CancelType
  <2>5. CASE Cleanup
    BY <2>5, CleanupType
  <2>6. CASE \E id \in UploadIds : Expire(id)
    BY <2>6 DEF Expire, memory, disk, TypeOK
  <2>7. CASE Restart
    BY <2>7, LoseMemoryType DEF Restart, disk, TypeOK
  <2>8. CASE \E user \in Users, fileSize \in FileSizes, chunkSize \in ChunkSizes :
               CrashInCreate(user, fileSize, chunkSize)
    BY <2>8, CrashInCreateType
  <2>9. CASE \E id \in UploadIds, user \in Users : \E chunk \in ChunkNumbers(id) :
               \E len \in BodyLengths(FindSession(id), chunk) :
                 CrashInSaveChunk(id, user, chunk, len)
    BY <2>9, CrashInSaveChunkType
  <2>10. CASE \E id \in UploadIds, user \in Users : CrashInComplete(id, user)
    BY <2>10, CrashInCompleteType
  <2>11. CASE \E id \in UploadIds, user \in Users : CrashInCancel(id, user)
    BY <2>11, LoseMemoryType, RemoveFilesType DEF CrashInCancel, TypeOK
  <2>12. CASE CrashInCleanup
    BY <2>12, LoseMemoryType, RemoveFilesType DEF CrashInCleanup, TypeOK
  <2> QED
    BY <1>1, <2>1, <2>2, <2>3, <2>4, <2>5, <2>6, <2>7, <2>8, <2>9, <2>10, <2>11, <2>12 DEF Next
<1>2. CASE UNCHANGED vars
  BY <1>2 DEF vars, TypeOK
<1> QED
  BY <1>1, <1>2

\* The upload manager never leaves its types: in particular no per-user count
\* of releaseUploadSlot goes below zero, and every .meta that parses is a
\* session with at least one chunk.
THEOREM TypeCorrect == Spec => []TypeOK
<1>1. Init => TypeOK
  BY SizesAssumption DEF Init, TypeOK, SessionOr
<1>2. TypeOK /\ [Next]_vars => TypeOK'
  BY TypeStep
<1> QED
  BY <1>1, <1>2, PTL DEF Spec

-----------------------------------------------------------------------------
(* Slots: SlotsNotLeaked needs that a fresh upload ID has no session yet *)

\* An upload ID that uuid.New() has not returned yet has left no trace.
FreshIdsUnused ==
  \A id \in UploadIds : age[id] = "unused" =>
    sessions[id] = NoSession /\ meta[id] = NoFile /\ temp[id] = NoFile /\ finals[id] = <<>>

SlotInv == TypeOK /\ FreshIdsUnused /\ SlotsNotLeaked

\* Every step keeps the traceless IDs traceless: all but InitChunkUpload and
\* the crash in it act on an upload that is found, hence not fresh.
LEMMA FoundIsNotFresh ==
  ASSUME FreshIdsUnused, NEW id \in UploadIds, FindSession(id) # NoSession
  PROVE  age[id] # "unused"
BY DEF FreshIdsUnused, FindSession, LoadSessionFromMeta

LEMMA FreshIdsStep ==
  ASSUME TypeOK, FreshIdsUnused, [Next]_vars
  PROVE  FreshIdsUnused'
<1> SUFFICES ASSUME NEW i \in UploadIds, age'[i] = "unused"
             PROVE  /\ sessions'[i] = NoSession /\ meta'[i] = NoFile
                    /\ temp'[i] = NoFile /\ finals'[i] = <<>>
  BY DEF FreshIdsUnused
<1> USE DEF TypeOK
<1>1. CASE Next
  <2>1. ASSUME NEW user \in Users, NEW name \in Filenames, NEW dir \in Directories,
               NEW fileSize \in FileSizes, NEW chunkSize \in ChunkSizes,
               InitChunkUpload(user, name, dir, fileSize, chunkSize)
        PROVE  /\ sessions'[i] = NoSession /\ meta'[i] = NoFile
               /\ temp'[i] = NoFile /\ finals'[i] = <<>>
    <3>1. PICK id \in UploadIds :
            /\ age' = [age EXCEPT ![id] = "live"]
            /\ sessions' = [sessions EXCEPT ![id] = NewSession(user, name, dir, fileSize, chunkSize)]
            /\ temp' = temp \/ temp' = [temp EXCEPT ![id] = {}]
            /\ meta' = meta \/ \E m : meta' = [meta EXCEPT ![id] = m]
      BY <2>1 DEF InitChunkUpload
    <3>2. i # id /\ age[i] = "unused"
      BY <3>1
    <3> QED
      BY <2>1, <3>1, <3>2 DEF InitChunkUpload, FreshIdsUnused
  <2>2. ASSUME NEW id \in UploadIds, NEW user \in Users, NEW chunk \in ChunkNumbers(id),
               NEW len \in BodyLengths(FindSession(id), chunk), SaveChunk(id, user, chunk, len)
        PROVE  /\ sessions'[i] = NoSession /\ meta'[i] = NoFile
               /\ temp'[i] = NoFile /\ finals'[i] = <<>>
    <3>1. age[i] = "unused" /\ i # id
      BY <2>2, FoundIsNotFresh DEF SaveChunk
    <3> QED
      BY <2>2, <3>1 DEF SaveChunk, ChunkStored, ChunkWriteFails, ChunkNotStored, FreshIdsUnused
  <2>3. ASSUME NEW id \in UploadIds, NEW user \in Users, CompleteUpload(id, user)
        PROVE  /\ sessions'[i] = NoSession /\ meta'[i] = NoFile
               /\ temp'[i] = NoFile /\ finals'[i] = <<>>
    <3>1. age[i] = "unused" /\ i # id
      BY <2>3, FoundIsNotFresh DEF CompleteUpload
    <3> QED
      BY <2>3, <3>1 DEF CompleteUpload, Publish, memory, FreshIdsUnused
  <2>4. ASSUME NEW id \in UploadIds, NEW user \in Users, CancelUpload(id, user)
        PROVE  /\ sessions'[i] = NoSession /\ meta'[i] = NoFile
               /\ temp'[i] = NoFile /\ finals'[i] = <<>>
    <3>1. age[i] = "unused" /\ i # id
      BY <2>4, FoundIsNotFresh DEF CancelUpload
    <3> QED
      BY <2>4, <3>1 DEF CancelUpload, RemoveFiles, FreshIdsUnused
  <2>5. CASE Cleanup
    <3>1. age[i] = "unused"
      BY <2>5 DEF Cleanup, PassExpiry
    <3> QED
      BY <2>5, <3>1 DEF Cleanup, RemoveFiles, SweepFinals, Due, FreshIdsUnused
  <2>6. ASSUME NEW id \in UploadIds, Expire(id)
        PROVE  /\ sessions'[i] = NoSession /\ meta'[i] = NoFile
               /\ temp'[i] = NoFile /\ finals'[i] = <<>>
    BY <2>6 DEF Expire, memory, disk, FreshIdsUnused
  <2>7. CASE Restart
    BY <2>7 DEF Restart, LoseMemory, disk, FreshIdsUnused
  <2>8. ASSUME NEW user \in Users, NEW fileSize \in FileSizes, NEW chunkSize \in ChunkSizes,
               CrashInCreate(user, fileSize, chunkSize)
        PROVE  /\ sessions'[i] = NoSession /\ meta'[i] = NoFile
               /\ temp'[i] = NoFile /\ finals'[i] = <<>>
    BY <2>8 DEF CrashInCreate, LoseMemory, FreshIdsUnused
  <2>9. ASSUME NEW id \in UploadIds, NEW user \in Users, NEW chunk \in ChunkNumbers(id),
               NEW len \in BodyLengths(FindSession(id), chunk),
               CrashInSaveChunk(id, user, chunk, len)
        PROVE  /\ sessions'[i] = NoSession /\ meta'[i] = NoFile
               /\ temp'[i] = NoFile /\ finals'[i] = <<>>
    <3>1. age[i] = "unused" /\ i # id
      BY <2>9, FoundIsNotFresh DEF CrashInSaveChunk
    <3> QED
      BY <2>9, <3>1 DEF CrashInSaveChunk, LoseMemory, FreshIdsUnused
  <2>10. ASSUME NEW id \in UploadIds, NEW user \in Users, CrashInComplete(id, user)
         PROVE  /\ sessions'[i] = NoSession /\ meta'[i] = NoFile
                /\ temp'[i] = NoFile /\ finals'[i] = <<>>
    <3>1. age[i] = "unused" /\ i # id
      BY <2>10, FoundIsNotFresh DEF CrashInComplete
    <3> QED
      BY <2>10, <3>1 DEF CrashInComplete, Publish, LoseMemory, FreshIdsUnused
  <2>11. ASSUME NEW id \in UploadIds, NEW user \in Users, CrashInCancel(id, user)
         PROVE  /\ sessions'[i] = NoSession /\ meta'[i] = NoFile
                /\ temp'[i] = NoFile /\ finals'[i] = <<>>
    BY <2>11 DEF CrashInCancel, RemoveFiles, LoseMemory, FreshIdsUnused
  <2>12. CASE CrashInCleanup
    BY <2>12 DEF CrashInCleanup, RemoveFiles, LoseMemory, FreshIdsUnused
  <2> QED
    BY <1>1, <2>1, <2>2, <2>3, <2>4, <2>5, <2>6, <2>7, <2>8, <2>9, <2>10, <2>11, <2>12 DEF Next
<1>2. CASE UNCHANGED vars
  BY <1>2 DEF vars, FreshIdsUnused
<1> QED
  BY <1>1, <1>2

\* If the sessions S lose at most those in gone, and the count drops by as
\* many releases as gone holds of S, the count stays below the sessions left.
LEMMA SlotArithmetic ==
  ASSUME NEW S, IsFiniteSet(S), NEW S1, IsFiniteSet(S1), NEW gone, S \ gone \subseteq S1,
         NEW n \in Nat, n <= Cardinality(S), NEW n1 \in Nat,
         n1 <= Release(n, Cardinality(S \cap gone))
  PROVE  n1 <= Cardinality(S1)
<1>1. /\ IsFiniteSet(S \ gone)
      /\ Cardinality(S \ gone) = Cardinality(S) - Cardinality(S \cap gone)
  BY FS_Difference
<1>2. Cardinality(S \ gone) <= Cardinality(S1)
  BY FS_Subset
<1>3. /\ Cardinality(S) \in Nat /\ Cardinality(S1) \in Nat
      /\ Cardinality(S \cap gone) \in Nat /\ Cardinality(S \ gone) \in Nat
  BY <1>1, FS_CardinalityType, FS_Intersection
<1> QED
  BY <1>1, <1>2, <1>3 DEF Release

\* One session removed and one release, for its user.
LEMMA OneReleaseKeepsSlots ==
  ASSUME TypeOK, TypeOK', SlotsNotLeaked, NEW id \in UploadIds, NEW owner \in Users,
         sessions[id] # NoSession => sessions[id].userID = owner,
         sessions' = [sessions EXCEPT ![id] = NoSession],
         userUploads' = [userUploads EXCEPT ![owner] = Release(@, 1)]
  PROVE  SlotsNotLeaked'
<1> SUFFICES ASSUME NEW u \in Users
             PROVE  userUploads'[u] <= Cardinality(SessionsOf(u)')
  BY DEF SlotsNotLeaked
<1>1. IsFiniteSet(SessionsOf(u)) /\ IsFiniteSet(SessionsOf(u)')
  BY FiniteAssumption, FS_Subset DEF SessionsOf
<1>2. SessionsOf(u) \ {id} \subseteq SessionsOf(u)'
  BY DEF SessionsOf, TypeOK
<1>3. /\ userUploads[u] \in Nat /\ userUploads'[u] \in Nat
      /\ userUploads[u] <= Cardinality(SessionsOf(u))
  BY DEF TypeOK, SlotsNotLeaked
<1>4. CASE u = owner
  <2>1. userUploads'[u] = Release(userUploads[u], 1)
    BY <1>4 DEF TypeOK
  <2>2. Cardinality(SessionsOf(u) \cap {id}) \in 0..1
    <3>1. Cardinality(SessionsOf(u) \cap {id}) <= Cardinality({id}) /\ Cardinality({id}) = 1
      BY FS_Singleton, FS_Intersection
    <3>2. Cardinality(SessionsOf(u) \cap {id}) \in Nat
      BY FS_Singleton, FS_Intersection, FS_CardinalityType
    <3> QED
      BY <3>1, <3>2
  <2>3. userUploads'[u] <= Release(userUploads[u], Cardinality(SessionsOf(u) \cap {id}))
    BY <1>3, <2>1, <2>2 DEF Release
  <2> QED
    BY <1>1, <1>2, <1>3, <2>3, SlotArithmetic
<1>5. CASE u # owner
  <2>1. userUploads'[u] = userUploads[u] /\ id \notin SessionsOf(u)
    BY <1>5 DEF TypeOK, SessionsOf
  <2>2. Cardinality(SessionsOf(u) \cap {id}) = 0
    BY <2>1, FS_EmptySet, SessionsOf(u) \cap {id} = {}
  <2>3. userUploads'[u] <= Release(userUploads[u], Cardinality(SessionsOf(u) \cap {id}))
    BY <1>3, <2>1, <2>2 DEF Release
  <2> QED
    BY <1>1, <1>2, <1>3, <2>3, SlotArithmetic
<1> QED
  BY <1>4, <1>5

\* No session removed and no count raised.
LEMMA GrowthKeepsSlots ==
  ASSUME TypeOK, TypeOK', SlotsNotLeaked,
         \A u \in Users : SessionsOf(u) \subseteq SessionsOf(u)' /\ userUploads'[u] = userUploads[u]
  PROVE  SlotsNotLeaked'
<1> SUFFICES ASSUME NEW u \in Users
             PROVE  userUploads'[u] <= Cardinality(SessionsOf(u)')
  BY DEF SlotsNotLeaked
<1>1. IsFiniteSet(SessionsOf(u)) /\ IsFiniteSet(SessionsOf(u)')
  BY FiniteAssumption, FS_Subset DEF SessionsOf
<1>2. Cardinality(SessionsOf(u)) <= Cardinality(SessionsOf(u)')
  BY <1>1, FS_Subset
<1>3. Cardinality(SessionsOf(u)) \in Nat /\ Cardinality(SessionsOf(u)') \in Nat
  BY <1>1, FS_CardinalityType
<1> QED
  BY <1>2, <1>3 DEF SlotsNotLeaked, TypeOK

\* A session that is found has an owner, the one of the session in memory.
LEMMA FoundOwner ==
  ASSUME TypeOK, NEW id \in UploadIds, FindSession(id) # NoSession
  PROVE  /\ FindSession(id).userID \in Users
         /\ sessions[id] # NoSession => FindSession(id).userID = sessions[id].userID
<1>1. FindSession(id) \in Session
  BY FindSessionType
<1> QED
  BY <1>1 DEF FindSession, Session

LEMMA CreateKeepsSlots ==
  ASSUME SlotInv, TypeOK', NEW user \in Users, NEW name \in Filenames, NEW dir \in Directories,
         NEW fileSize \in FileSizes, NEW chunkSize \in ChunkSizes,
         InitChunkUpload(user, name, dir, fileSize, chunkSize)
  PROVE  SlotsNotLeaked'
<1> DEFINE session == NewSession(user, name, dir, fileSize, chunkSize)
<1>1. session \in Session /\ session.userID = user
  BY NewSessionType DEF InitChunkUpload, NewSession
<1>2. PICK id \in UploadIds :
        /\ age[id] = "unused"
        /\ sessions' = [sessions EXCEPT ![id] = session]
        /\ userUploads' = [userUploads EXCEPT ![user] = @ + 1]
  BY DEF InitChunkUpload
<1>3. sessions[id] = NoSession
  BY <1>2 DEF SlotInv, FreshIdsUnused
<1> HIDE DEF session
<1> SUFFICES ASSUME NEW u \in Users
             PROVE  userUploads'[u] <= Cardinality(SessionsOf(u)')
  BY DEF SlotsNotLeaked
<1>4. IsFiniteSet(SessionsOf(u)) /\ Cardinality(SessionsOf(u)) \in Nat
  BY FiniteAssumption, FS_Subset, FS_CardinalityType DEF SessionsOf
<1>5. CASE u = user
  <2>1. SessionsOf(u)' = SessionsOf(u) \cup {id} /\ id \notin SessionsOf(u)
    BY <1>1, <1>2, <1>3, <1>5, NullsAssumption DEF SessionsOf, SlotInv, TypeOK
  <2>2. Cardinality(SessionsOf(u)') = Cardinality(SessionsOf(u)) + 1
    BY <1>4, <2>1, FS_AddElement
  <2>3. userUploads'[u] = userUploads[u] + 1
    BY <1>2, <1>5 DEF SlotInv, TypeOK
  <2> QED
    BY <1>4, <2>2, <2>3 DEF SlotInv, TypeOK, SlotsNotLeaked
<1>6. CASE u # user
  <2>1. SessionsOf(u)' = SessionsOf(u)
    BY <1>1, <1>2, <1>3, <1>6 DEF SessionsOf, SlotInv, TypeOK
  <2>2. userUploads'[u] = userUploads[u]
    BY <1>2, <1>6 DEF SlotInv, TypeOK
  <2> QED
    BY <2>1, <2>2 DEF SlotInv, SlotsNotLeaked
<1> QED
  BY <1>5, <1>6

LEMMA SaveChunkKeepsSlots ==
  ASSUME SlotInv, TypeOK', NEW id \in UploadIds, NEW user \in Users, NEW chunk \in ChunkNumbers(id),
         NEW len \in BodyLengths(FindSession(id), chunk), SaveChunk(id, user, chunk, len)
  PROVE  SlotsNotLeaked'
<1> DEFINE session == FindSession(id)
<1>1. session \in Session
  BY FindSessionType DEF SaveChunk, SlotInv
<1>2. \E s \in Session : s.userID = session.userID /\ sessions' = [sessions EXCEPT ![id] = s]
  <2>1. CASE sessions' = [sessions EXCEPT ![id] = session]
    BY <1>1, <2>1
  <2>2. CASE chunk \in Nat /\ sessions' = [sessions EXCEPT ![id] = WithChunk(session, chunk)]
    <3>1. WithChunk(session, chunk) \in Session
      BY <1>1, <2>2, WithChunkType
    <3>2. WithChunk(session, chunk).userID = session.userID
      BY <1>1 DEF WithChunk, Session
    <3> QED
      BY <2>2, <3>1, <3>2
  <2>3. AcceptsChunk(session, user, chunk, len) => chunk \in Nat
    BY RequestType DEF AcceptsChunk, SlotInv
  <2> QED
    BY <2>1, <2>2, <2>3 DEF SaveChunk, ChunkStored, ChunkWriteFails, ChunkNotStored
<1>3. sessions[id] # NoSession => session.userID = sessions[id].userID
  BY FoundOwner DEF SaveChunk, SlotInv
<1> HIDE DEF session
<1>4. \A u \in Users : SessionsOf(u) \subseteq SessionsOf(u)'
  BY <1>1, <1>2, <1>3, NullsAssumption DEF SessionsOf, SlotInv, TypeOK
<1> QED
  BY <1>4, GrowthKeepsSlots DEF SaveChunk, SlotInv

LEMMA CleanupKeepsSlots ==
  ASSUME SlotInv, TypeOK', Cleanup
  PROVE  SlotsNotLeaked'
<1> SUFFICES ASSUME NEW u \in Users
             PROVE  userUploads'[u] <= Cardinality(SessionsOf(u)')
  BY DEF SlotsNotLeaked
<1>1. IsFiniteSet(SessionsOf(u)) /\ IsFiniteSet(SessionsOf(u)')
  BY FiniteAssumption, FS_Subset DEF SessionsOf
<1>2. SessionsOf(u) \ Due \subseteq SessionsOf(u)'
  BY DEF Cleanup, SessionsOf, SlotInv, TypeOK
<1>3. userUploads'[u] = Release(userUploads[u], Cardinality(SessionsOf(u) \cap Due))
  <2>1. Due \cap SessionsOf(u) = SessionsOf(u) \cap Due
    OBVIOUS
  <2> QED
    BY <2>1 DEF Cleanup
<1>4. /\ userUploads[u] \in Nat /\ userUploads'[u] \in Nat
      /\ userUploads[u] <= Cardinality(SessionsOf(u))
  BY DEF SlotInv, TypeOK, SlotsNotLeaked
<1>5. userUploads'[u] <= Release(userUploads[u], Cardinality(SessionsOf(u) \cap Due))
  BY <1>3, <1>4
<1> QED
  BY <1>1, <1>2, <1>4, <1>5, SlotArithmetic

\* After a restart every count is 0.
LEMMA LoseMemoryKeepsSlots ==
  ASSUME TypeOK', LoseMemory
  PROVE  SlotsNotLeaked'
<1> SUFFICES ASSUME NEW u \in Users
             PROVE  userUploads'[u] <= Cardinality(SessionsOf(u)')
  BY DEF SlotsNotLeaked
<1>1. userUploads'[u] = 0
  BY DEF LoseMemory
<1>2. Cardinality(SessionsOf(u)') \in Nat
  BY FiniteAssumption, FS_Subset, FS_CardinalityType DEF SessionsOf
<1> QED
  BY <1>1, <1>2

LEMMA SlotStep ==
  ASSUME SlotInv, [Next]_vars
  PROVE  SlotInv'
<1>1. TypeOK' /\ FreshIdsUnused'
  BY TypeStep, FreshIdsStep DEF SlotInv
<1>2. SlotsNotLeaked'
  <2>1. CASE Next
    <3>1. CASE \E user \in Users, name \in Filenames, dir \in Directories,
                  fileSize \in FileSizes, chunkSize \in ChunkSizes :
                    InitChunkUpload(user, name, dir, fileSize, chunkSize)
      BY <1>1, <3>1, CreateKeepsSlots
    <3>2. CASE \E id \in UploadIds, user \in Users : \E chunk \in ChunkNumbers(id) :
                 \E len \in BodyLengths(FindSession(id), chunk) : SaveChunk(id, user, chunk, len)
      BY <1>1, <3>2, SaveChunkKeepsSlots
    <3>3. ASSUME NEW id \in UploadIds, NEW user \in Users, CompleteUpload(id, user)
          PROVE  SlotsNotLeaked'
      <4>1. CASE UNCHANGED memory
        BY <1>1, <4>1, GrowthKeepsSlots DEF memory, SessionsOf, SlotInv
      <4>2. CASE /\ sessions' = [sessions EXCEPT ![id] = NoSession]
                 /\ userUploads' = [userUploads EXCEPT ![FindSession(id).userID] = Release(@, 1)]
        BY <1>1, <3>3, <4>2, FoundOwner, OneReleaseKeepsSlots DEF CompleteUpload, SlotInv
      <4> QED
        BY <3>3, <4>1, <4>2 DEF CompleteUpload
    <3>4. ASSUME NEW id \in UploadIds, NEW user \in Users, CancelUpload(id, user)
          PROVE  SlotsNotLeaked'
      BY <1>1, <3>4, FoundOwner, OneReleaseKeepsSlots DEF CancelUpload, SlotInv
    <3>5. CASE Cleanup
      BY <1>1, <3>5, CleanupKeepsSlots
    <3>6. CASE \E id \in UploadIds : Expire(id)
      BY <1>1, <3>6, GrowthKeepsSlots DEF Expire, memory, SessionsOf, SlotInv
    <3>7. CASE LoseMemory
      BY <1>1, <3>7, LoseMemoryKeepsSlots
    <3> QED
      BY <2>1, <3>1, <3>2, <3>3, <3>4, <3>5, <3>6, <3>7
      DEF Next, Restart, CrashInCreate, CrashInSaveChunk, CrashInComplete, CrashInCancel, CrashInCleanup
  <2>2. CASE UNCHANGED vars
    BY <1>1, <2>2, GrowthKeepsSlots DEF vars, SessionsOf, SlotInv
  <2> QED
    BY <2>1, <2>2
<1> QED
  BY <1>1, <1>2 DEF SlotInv

LEMMA SlotInit == Init => SlotInv
<1>1. Init => TypeOK
  BY SizesAssumption DEF Init, TypeOK, SessionOr
<1>2. Init => FreshIdsUnused
  BY DEF Init, FreshIdsUnused
<1>3. Init => SlotsNotLeaked
  <2> SUFFICES ASSUME Init, NEW u \in Users
               PROVE  userUploads[u] <= Cardinality(SessionsOf(u))
    BY DEF SlotsNotLeaked
  <2>1. userUploads[u] = 0
    BY DEF Init
  <2>2. Cardinality(SessionsOf(u)) \in Nat
    BY FiniteAssumption, FS_Subset, FS_CardinalityType DEF SessionsOf
  <2> QED
    BY <2>1, <2>2
<1> QED
  BY <1>1, <1>2, <1>3 DEF SlotInv

\* userUploads never exceeds the sessions a user has in memory, whatever os
\* call fails and wherever the process dies: releaseUploadSlot is called once
\* for every session that goes away, and only then.
THEOREM SlotsNeverLeak == Spec => []SlotsNotLeaked
<1>1. SlotInv => SlotsNotLeaked
  BY DEF SlotInv
<1> QED
  BY <1>1, SlotInit, SlotStep, PTL DEF Spec

-----------------------------------------------------------------------------
(* What ExpiredVanish and SlotComesBack rest on *)

\* An upload that no lookup finds any more, in memory or on disk.
Forgotten(id) == age[id] # "unused" /\ FindSession(id) = NoSession

\* Only operations on an upload that is found, and the creation of a fresh one, put
\* a session anywhere.
LEMMA ForgottenStep ==
  ASSUME TypeOK, [Next]_vars, NEW i \in UploadIds, Forgotten(i)
  PROVE  Forgotten(i)'
<1> USE DEF TypeOK
<1> SUFFICES /\ age'[i] # "unused" /\ sessions'[i] = NoSession
             /\ meta'[i] = meta[i] \/ meta'[i] \in {NoFile, Torn}
  BY DEF Forgotten, FindSession, LoadSessionFromMeta
<1>0. age[i] # "unused" /\ sessions[i] = NoSession /\ FindSession(i) = NoSession
  BY DEF Forgotten, FindSession
<1>1. ASSUME NEW user \in Users, NEW name \in Filenames, NEW dir \in Directories,
             NEW fileSize \in FileSizes, NEW chunkSize \in ChunkSizes,
             InitChunkUpload(user, name, dir, fileSize, chunkSize)
      PROVE  /\ age'[i] # "unused" /\ sessions'[i] = NoSession
             /\ meta'[i] = meta[i] \/ meta'[i] \in {NoFile, Torn}
  <2>1. PICK id \in UploadIds :
          /\ age[id] = "unused" /\ age' = [age EXCEPT ![id] = "live"]
          /\ sessions' = [sessions EXCEPT ![id] = NewSession(user, name, dir, fileSize, chunkSize)]
          /\ meta' = meta \/ \E m : meta' = [meta EXCEPT ![id] = m]
    BY <1>1 DEF InitChunkUpload
  <2> QED
    BY <1>0, <2>1
<1>2. ASSUME NEW id \in UploadIds, NEW user \in Users, NEW chunk, NEW len, SaveChunk(id, user, chunk, len)
      PROVE  /\ age'[i] # "unused" /\ sessions'[i] = NoSession
             /\ meta'[i] = meta[i] \/ meta'[i] \in {NoFile, Torn}
  BY <1>0, <1>2 DEF SaveChunk, ChunkStored, ChunkWriteFails, ChunkNotStored
<1>3. ASSUME NEW id \in UploadIds, NEW user \in Users, CompleteUpload(id, user) \/ CancelUpload(id, user)
      PROVE  /\ age'[i] # "unused" /\ sessions'[i] = NoSession
             /\ meta'[i] = meta[i] \/ meta'[i] \in {NoFile, Torn}
  <2>1. CASE CompleteUpload(id, user)
    BY <1>0, <2>1 DEF CompleteUpload, memory
  <2>2. CASE CancelUpload(id, user)
    BY <1>0, <2>2 DEF CancelUpload, RemoveFiles
  <2> QED
    BY <1>3, <2>1, <2>2
<1>4. CASE Cleanup
  BY <1>0, <1>4 DEF Cleanup, RemoveFiles, PassExpiry
<1>5. CASE (\E id \in UploadIds : Expire(id)) \/ Restart
  BY <1>0, <1>5 DEF Expire, memory, disk, Restart, LoseMemory
<1>6. ASSUME NEW user \in Users, NEW fileSize \in FileSizes, NEW chunkSize \in ChunkSizes,
             CrashInCreate(user, fileSize, chunkSize)
      PROVE  /\ age'[i] # "unused" /\ sessions'[i] = NoSession
             /\ meta'[i] = meta[i] \/ meta'[i] \in {NoFile, Torn}
  BY <1>0, <1>6 DEF CrashInCreate, LoseMemory
<1>7. ASSUME NEW id \in UploadIds, NEW user \in Users, NEW chunk, NEW len,
             CrashInSaveChunk(id, user, chunk, len)
      PROVE  /\ age'[i] # "unused" /\ sessions'[i] = NoSession
             /\ meta'[i] = meta[i] \/ meta'[i] \in {NoFile, Torn}
  BY <1>0, <1>7 DEF CrashInSaveChunk, LoseMemory
<1>8. ASSUME NEW id \in UploadIds, NEW user \in Users, CrashInComplete(id, user) \/ CrashInCancel(id, user)
      PROVE  /\ age'[i] # "unused" /\ sessions'[i] = NoSession
             /\ meta'[i] = meta[i] \/ meta'[i] \in {NoFile, Torn}
  BY <1>0, <1>8 DEF CrashInComplete, CrashInCancel, RemoveFiles, LoseMemory
<1>9. CASE CrashInCleanup
  BY <1>0, <1>9 DEF CrashInCleanup, RemoveFiles, LoseMemory
<1>10. CASE UNCHANGED vars
  BY <1>0, <1>10 DEF vars, memory, disk
<1> QED
  BY <1>1, <1>2, <1>3, <1>4, <1>5, <1>6, <1>7, <1>8, <1>9, <1>10 DEF Next

\* What a tick of cleanup leaves of what has expired when it begins.
LEMMA CleanupForgets ==
  ASSUME TypeOK, Cleanup, "remove" \notin Faults, NEW id \in UploadIds, age[id] = "expired"
  PROVE  Forgotten(id)'
<1>1. PICK late \in SUBSET Live :
        /\ meta' = [i \in UploadIds |-> IF i \in Due \cup Swept(late) THEN NoFile ELSE meta[i]]
        /\ sessions' = [i \in UploadIds |-> IF i \in Due THEN NoSession ELSE sessions[i]]
        /\ age' = [i \in UploadIds |-> IF i \in late THEN "expired" ELSE age[i]]
  BY DEF Cleanup, RemoveFiles, Leftovers, PassExpiry
<1>2. sessions'[id] = NoSession /\ age'[id] # "unused"
  BY <1>1 DEF Due
<1>3. meta'[id] \in {NoFile, Torn}
  BY <1>1 DEF Swept
<1> QED
  BY <1>2, <1>3 DEF Forgotten, FindSession, LoadSessionFromMeta

\* Forgetting an upload is final: when neither memory nor the lookup on disk has it, no
\* request, crash or restart brings it back; and where removals do not fail, one tick of
\* cleanup forgets all that had expired before it, sessions without files included.
THEOREM UploadForgetsForGood ==
  Spec => [][\A id \in UploadIds :
               /\ Forgotten(id) => Forgotten(id)'
               /\ Cleanup /\ "remove" \notin Faults /\ age[id] = "expired" => Forgotten(id)']_vars
<1>1. TypeOK /\ [Next]_vars =>
        [\A id \in UploadIds :
           /\ Forgotten(id) => Forgotten(id)'
           /\ Cleanup /\ "remove" \notin Faults /\ age[id] = "expired" => Forgotten(id)']_vars
  BY ForgottenStep, CleanupForgets
<1> QED
  BY <1>1, TypeCorrect, PTL DEF Spec

\* A tick of cleanup gives all slots back to a user whose uploads have expired, though
\* files may fail to go, a restore may have taken no slot and a count may be 0 already.
THEOREM UploadCleanupFreesSlots ==
  Spec => [][Cleanup => \A u \in Users :
               (\A id \in SessionsOf(u) : age[id] = "expired") => userUploads'[u] = 0]_vars
<1>1. SlotInv /\ SlotInv' =>
        [Cleanup => \A u \in Users :
           (\A id \in SessionsOf(u) : age[id] = "expired") => userUploads'[u] = 0]_vars
  <2> SUFFICES ASSUME SlotInv, SlotInv', Cleanup, NEW u \in Users,
                      \A id \in SessionsOf(u) : age[id] = "expired"
               PROVE  userUploads'[u] = 0
    OBVIOUS
  <2>1. sessions' = [id \in UploadIds |-> IF id \in Due THEN NoSession ELSE sessions[id]]
    BY DEF Cleanup
  <2>2. SessionsOf(u)' = {}
    BY <2>1 DEF SessionsOf, Due
  <2>3. userUploads'[u] \in Nat /\ userUploads'[u] <= Cardinality(SessionsOf(u)')
    BY DEF SlotInv, SlotsNotLeaked, TypeOK
  <2>4. Cardinality({}) = 0
    BY FS_EmptySet
  <2> QED
    BY <2>2, <2>3, <2>4
<1>2. Spec => []SlotInv
  BY SlotInit, SlotStep, PTL DEF Spec
<1> QED
  BY <1>1, <1>2, PTL

-----------------------------------------------------------------------------
(* Sizes *)

\* The number of chunks is the size divided by the chunk size, rounded up.
RightChunkCount(s) ==
  /\ (s.totalChunks - 1) * s.chunkSize < s.totalSize
  /\ s.totalSize <= s.totalChunks * s.chunkSize

\* Division in the integers: the facts about \div that the provers need.
LEMMA DivisionBounds ==
  ASSUME NEW a \in Nat, NEW b \in Nat \ {0}
  PROVE  /\ a \div b \in Nat
         /\ (a \div b) * b <= a
         /\ a < ((a \div b) + 1) * b
OBVIOUS

\* What int64 makes of fileSize + chunkSize - 1 either is exact, though its sum may
\* have wrapped on the way, or is negative, and then gives no chunk count that
\* CreateUploadSession accepts.
LEMMA ChunkCountOfRequest ==
  ASSUME NEW fileSize \in 1..MaxInt, NEW chunkSize \in 1..MaxInt,
         TotalChunksOf(fileSize, chunkSize) \in 1..MaxChunks
  PROVE  LET n == TotalChunksOf(fileSize, chunkSize)
         IN /\ (n - 1) * chunkSize < fileSize
            /\ fileSize <= n * chunkSize
<1> DEFINE sum == Int64(Int64(fileSize + chunkSize) - 1)
           n == TotalChunksOf(fileSize, chunkSize)
<1>1. MaxInt \in Nat /\ fileSize \in Nat \ {0} /\ chunkSize \in Nat \ {0} /\ sum \in Int
  BY SizesAssumption DEF Int64
<1>2. ~ (sum < 0)
  <2> SUFFICES ASSUME sum < 0
               PROVE  FALSE
    OBVIOUS
  <2>1. -sum \in Nat
    BY <1>1
  <2> HIDE DEF sum
  <2>2. (-sum) \div chunkSize \in Nat
    BY <1>1, <2>1, DivisionBounds
  <2>3. TotalChunksOf(fileSize, chunkSize) = -((-sum) \div chunkSize)
    BY DEF TotalChunksOf, sum
  <2> QED
    BY <2>2, <2>3, SizesAssumption
<1>3. sum = fileSize + chunkSize - 1
  BY <1>1, <1>2 DEF Int64
<1>4. n = sum \div chunkSize
  BY <1>2 DEF TotalChunksOf
<1> HIDE DEF sum, n
<1>5. n \in Nat /\ n * chunkSize <= sum /\ sum < (n + 1) * chunkSize
  BY <1>1, <1>2, <1>4, DivisionBounds
<1>6. /\ (n + 1) * chunkSize = n * chunkSize + chunkSize
      /\ (n - 1) * chunkSize = n * chunkSize - chunkSize
      /\ n * chunkSize \in Int
  BY <1>1, <1>5
<1>7. (n - 1) * chunkSize < fileSize /\ fileSize <= n * chunkSize
  BY <1>1, <1>3, <1>5, <1>6
<1> QED
  BY <1>7 DEF n

\* A list of distinct chunk numbers as long as the number of chunks has all.
LEMMA AllChunksListed ==
  ASSUME NEW chunks \in Seq(Nat), NEW n \in Nat, Len(chunks) = n,
         ToSet(chunks) \subseteq 0..(n - 1),
         \A i, j \in DOMAIN chunks : chunks[i] = chunks[j] => i = j
  PROVE  ToSet(chunks) = 0..(n - 1)
<1>1. DOMAIN chunks = 1..n
  OBVIOUS
<1>2. chunks \in [1..n -> 0..(n - 1)]
  BY <1>1 DEF ToSet
<1>3. chunks \in Injection(1..n, 0..(n - 1))
  BY <1>1, <1>2, Fun_IsInj
<1>4. IsFiniteSet(0..(n - 1)) /\ Cardinality(0..(n - 1)) = Cardinality(1..n)
  <2>1. IsFiniteSet(0..(n - 1)) /\ Cardinality(0..(n - 1)) = n
    BY FS_Interval, n - 1 \in Int, 0 \in Int
  <2>2. Cardinality(1..n) = n
    BY FS_Interval, n \in Int, 1 \in Int
  <2> QED
    BY <2>1, <2>2
<1>5. chunks \in Surjection(1..n, 0..(n - 1))
  BY <1>3, <1>4, FS_Injection
<1> QED
  BY <1>1, <1>2, <1>5 DEF Surjection, ToSet

\* The chunks of a session tile the file.
LEMMA ChunksTile ==
  ASSUME NEW s \in Session, RightChunkCount(s), NEW bytes \in SUBSET Nat,
         bytes \subseteq 0..(s.totalSize - 1),
         \A chunk \in 0..(s.totalChunks - 1) :
           Span(s, chunk, NominalLength(s, chunk)) \subseteq bytes
  PROVE  bytes = 0..(s.totalSize - 1)
<1> SUFFICES ASSUME NEW b \in 0..(s.totalSize - 1)
             PROVE  b \in bytes
  OBVIOUS
<1> DEFINE c == b \div s.chunkSize
<1>1. /\ s.totalSize \in Nat /\ s.chunkSize \in Nat \ {0} /\ s.totalChunks \in Nat \ {0}
      /\ b \in Nat
  BY DEF Session
<1>2. c \in Nat /\ c * s.chunkSize <= b /\ b < (c + 1) * s.chunkSize
  BY <1>1, DivisionBounds
<1> HIDE DEF c
<1>3. (c + 1) * s.chunkSize = c * s.chunkSize + s.chunkSize /\ c * s.chunkSize \in Nat
  BY <1>1, <1>2
<1>4. c < s.totalChunks
  <2> SUFFICES ASSUME c >= s.totalChunks
               PROVE  FALSE
    BY <1>1, <1>2
  <2>1. c * s.chunkSize >= s.totalChunks * s.chunkSize
    BY <1>1, <1>2
  <2>2. b < s.totalChunks * s.chunkSize /\ s.totalChunks * s.chunkSize \in Nat
    BY <1>1 DEF RightChunkCount
  <2> QED
    BY <1>1, <1>2, <1>3, <2>1, <2>2
<1>5. b \in Span(s, c, NominalLength(s, c))
  BY <1>1, <1>2, <1>3 DEF Span, Offset, NominalLength
<1> QED
  BY <1>1, <1>2, <1>4, <1>5

-----------------------------------------------------------------------------
(* The inductive invariant *)

\* What a session, in memory or on disk, says of the .temp file: the chunks it
\* lists are distinct, and their bytes are in the file if there is one.
Sound(s, bytes) ==
  /\ RightChunkCount(s)
  /\ \A i, j \in DOMAIN s.uploadedChunks : s.uploadedChunks[i] = s.uploadedChunks[j] => i = j
  /\ ToSet(s.uploadedChunks) \subseteq 0..(s.totalChunks - 1)
  /\ bytes # NoFile =>
       /\ bytes \subseteq 0..(s.totalSize - 1)
       /\ \A chunk \in ToSet(s.uploadedChunks) :
            Span(s, chunk, NominalLength(s, chunk)) \subseteq bytes

ContentOf(id) ==
  /\ sessions[id] # NoSession => Sound(sessions[id], temp[id])
  /\ meta[id] \notin {NoFile, Torn} => Sound(meta[id], temp[id])
  /\ sessions[id] # NoSession /\ meta[id] \notin {NoFile, Torn} =>
       sessions[id].totalSize = meta[id].totalSize

ContentInv ==
  /\ TypeOK /\ FreshIdsUnused
  /\ \A id \in UploadIds : ContentOf(id)
  /\ PublishedWhole

\* A session that is found is sound.
LEMMA FoundIsSound ==
  ASSUME ContentInv, NEW id \in UploadIds, FindSession(id) # NoSession
  PROVE  /\ FindSession(id) \in Session
         /\ Sound(FindSession(id), temp[id])
         /\ sessions[id] # NoSession => FindSession(id) = sessions[id]
         /\ meta[id] \notin {NoFile, Torn} => FindSession(id).totalSize = meta[id].totalSize
<1>1. FindSession(id) \in Session
  BY FindSessionType DEF ContentInv
<1> QED
  BY <1>1 DEF ContentInv, ContentOf, FindSession, LoadSessionFromMeta

\* An upload that is only looked up, or loses a file or a record.
LEMMA LosingKeepsContent ==
  ASSUME ContentInv, NEW id \in UploadIds,
         sessions'[id] \in {sessions[id], NoSession, FindSession(id)},
         meta'[id] \in {meta[id], NoFile, Torn},
         temp'[id] \in {temp[id], NoFile}
  PROVE  ContentOf(id)'
<1>1. FindSession(id) # NoSession =>
        /\ Sound(FindSession(id), temp[id])
        /\ meta[id] \notin {NoFile, Torn} => FindSession(id).totalSize = meta[id].totalSize
  BY FoundIsSound
<1>2. ContentOf(id)
  BY DEF ContentInv
<1>3. \A s : Sound(s, temp[id]) => Sound(s, temp'[id])
  BY DEF Sound
<1> QED
  BY <1>1, <1>2, <1>3 DEF ContentOf

\* Bytes of the file may be written without being recorded.
LEMMA WritingKeepsSound ==
  ASSUME NEW s \in Session, NEW bytes, bytes # NoFile, Sound(s, bytes),
         NEW extra \in SUBSET (0..(s.totalSize - 1))
  PROVE  Sound(s, bytes \cup extra)
BY DEF Sound

\* The bytes of an accepted chunk are bytes of the file.
LEMMA SpanInFile ==
  ASSUME NEW s \in Session, NEW user, NEW chunk \in Int, NEW len \in Nat,
         AcceptsChunk(s, user, chunk, len), NEW k \in 0..len
  PROVE  Span(s, chunk, k) \subseteq 0..(s.totalSize - 1)
<1>1. chunk \in Nat /\ s.chunkSize \in Nat /\ s.totalSize \in Nat
  BY DEF AcceptsChunk, Session
<1>2. chunk * s.chunkSize \in Nat
  BY <1>1
<1> QED
  BY <1>1, <1>2 DEF AcceptsChunk, Span, Offset

\* Recording a chunk whose bytes were all written.
LEMMA RecordingKeepsSound ==
  ASSUME NEW s \in Session, NEW bytes \in SUBSET Nat, NEW chunk \in 0..(s.totalChunks - 1),
         chunk \notin ToSet(s.uploadedChunks), Sound(s, bytes),
         Span(s, chunk, NominalLength(s, chunk)) \subseteq bytes
  PROVE  Sound(WithChunk(s, chunk), bytes)
<1> DEFINE r == WithChunk(s, chunk)
           old == s.uploadedChunks
<1>1. /\ r.totalChunks = s.totalChunks /\ r.totalSize = s.totalSize
      /\ r.chunkSize = s.chunkSize /\ r.uploadedChunks = Append(old, chunk)
  BY DEF WithChunk, Session
<1>2. old \in Seq(Nat) /\ chunk \in Nat
  BY DEF Session
<1>3. /\ DOMAIN Append(old, chunk) = 1..(Len(old) + 1) /\ DOMAIN old = 1..Len(old)
      /\ \A i \in 1..Len(old) : Append(old, chunk)[i] = old[i]
      /\ Append(old, chunk)[Len(old) + 1] = chunk /\ Len(old) \in Nat
  BY <1>2
<1> HIDE DEF r
<1>4. \A i, j \in DOMAIN old : old[i] = old[j] => i = j
  BY DEF Sound
<1>5. \A i \in DOMAIN old : old[i] # chunk
  BY DEF ToSet
<1>6. \A i, j \in DOMAIN r.uploadedChunks : r.uploadedChunks[i] = r.uploadedChunks[j] => i = j
  BY <1>1, <1>3, <1>4, <1>5
<1>7. ToSet(r.uploadedChunks) = ToSet(old) \cup {chunk}
  BY <1>1, <1>3 DEF ToSet
<1>8. RightChunkCount(r)
  BY <1>1 DEF Sound, RightChunkCount
<1>9. \A c : Span(r, c, NominalLength(r, c)) = Span(s, c, NominalLength(s, c))
  BY <1>1 DEF Span, NominalLength, Offset
<1>10. Sound(r, bytes)
  BY <1>1, <1>6, <1>7, <1>8, <1>9 DEF Sound
<1> QED
  BY <1>10 DEF r

\* A new session records nothing.
LEMMA NewSessionSound ==
  ASSUME NEW user \in Users, NEW name \in Filenames, NEW dir \in Directories,
         NEW fileSize \in FileSizes, NEW chunkSize \in ChunkSizes,
         MayCreate(user, fileSize, chunkSize), NEW bytes \in {NoFile, {}}
  PROVE  Sound(NewSession(user, name, dir, fileSize, chunkSize), bytes)
<1> DEFINE s == NewSession(user, name, dir, fileSize, chunkSize)
<1>1. fileSize \in 1..MaxInt /\ chunkSize \in 1..MaxInt
  BY SizesAssumption
<1>2. RightChunkCount(s)
  BY <1>1, ChunkCountOfRequest DEF MayCreate, RightChunkCount, NewSession
<1>3. s.uploadedChunks = <<>>
  BY DEF NewSession
<1> HIDE DEF s
<1>4. Sound(s, bytes)
  BY <1>2, <1>3 DEF Sound, ToSet
<1> QED
  BY <1>4 DEF s

LEMMA CreateKeepsContent ==
  ASSUME ContentInv, NEW user \in Users, NEW name \in Filenames, NEW dir \in Directories,
         NEW fileSize \in FileSizes, NEW chunkSize \in ChunkSizes,
         InitChunkUpload(user, name, dir, fileSize, chunkSize), NEW i \in UploadIds
  PROVE  ContentOf(i)'
<1> DEFINE s == NewSession(user, name, dir, fileSize, chunkSize)
<1>1. \A bytes \in {NoFile, {}} : Sound(s, bytes)
  BY NewSessionSound DEF InitChunkUpload
<1> HIDE DEF s
<1>2. PICK id \in UploadIds :
        /\ age[id] = "unused"
        /\ sessions' = [sessions EXCEPT ![id] = s]
        /\ temp' = temp \/ temp' = [temp EXCEPT ![id] = {}]
        /\ meta' = meta \/ \E m \in {s, Torn, NoFile} : meta' = [meta EXCEPT ![id] = m]
  BY DEF InitChunkUpload, s
<1>3. temp[id] = NoFile /\ meta[id] = NoFile
  BY <1>2 DEF ContentInv, FreshIdsUnused
<1>4. CASE i = id
  <2>1. sessions'[i] = s /\ temp'[i] \in {NoFile, {}} /\ meta'[i] \in {s, Torn, NoFile}
    BY <1>2, <1>3, <1>4 DEF ContentInv, TypeOK
  <2> QED
    BY <1>1, <2>1 DEF ContentOf
<1>5. CASE i # id
  <2>1. sessions'[i] = sessions[i] /\ temp'[i] = temp[i] /\ meta'[i] = meta[i]
    BY <1>2, <1>5 DEF ContentInv, TypeOK
  <2> QED
    BY <2>1, LosingKeepsContent
<1> QED
  BY <1>4, <1>5

LEMMA SaveChunkKeepsContent ==
  ASSUME ContentInv, ~ShortChunks, NEW id \in UploadIds, NEW user \in Users,
         NEW chunk \in ChunkNumbers(id), NEW len \in BodyLengths(FindSession(id), chunk),
         SaveChunk(id, user, chunk, len), NEW i \in UploadIds
  PROVE  ContentOf(i)'
<1> DEFINE s == FindSession(id)
<1>1. s \in Session /\ chunk \in Int /\ len \in Nat
  BY RequestType DEF ContentInv
<1>2. /\ Sound(s, temp[id])
      /\ sessions[id] # NoSession => s = sessions[id]
      /\ meta[id] \notin {NoFile, Torn} => s.totalSize = meta[id].totalSize
  BY FoundIsSound DEF SaveChunk
<1>3. len = NominalLength(s, chunk)
  BY DEF BodyLengths
<1> HIDE DEF s
<1>4. CASE i # id
  <2>1. sessions'[i] = sessions[i] /\ temp'[i] = temp[i] /\ meta'[i] = meta[i]
    BY <1>4 DEF SaveChunk, ChunkStored, ChunkWriteFails, ChunkNotStored, ContentInv, TypeOK
  <2> QED
    BY <2>1, LosingKeepsContent
<1>5. CASE i = id /\ ChunkNotStored(id, s)
  <2>1. sessions'[i] = s /\ temp'[i] = temp[i] /\ meta'[i] = meta[i]
    BY <1>5 DEF ChunkNotStored, ContentInv, TypeOK
  <2> QED
    BY <1>5, <2>1, LosingKeepsContent DEF s
<1>6. CASE /\ i = id /\ AcceptsChunk(s, user, chunk, len)
           /\ temp[id] # NoFile /\ ChunkWriteFails(id, s, chunk, len)
  <2>1. PICK k \in 0..(len - 1) : temp' = [temp EXCEPT ![id] = @ \cup Span(s, chunk, k)]
    BY <1>6 DEF ChunkWriteFails
  <2>2. temp'[i] = temp[i] \cup Span(s, chunk, k) /\ sessions'[i] = s /\ meta'[i] = meta[i]
    BY <1>6, <2>1 DEF ChunkWriteFails, ContentInv, TypeOK
  <2>3. Span(s, chunk, k) \subseteq 0..(s.totalSize - 1)
    BY <1>1, <1>6, SpanInFile
  <2>4. Sound(s, temp'[i])
    BY <1>1, <1>2, <1>6, <2>2, <2>3, WritingKeepsSound
  <2>5. meta[i] \notin {NoFile, Torn} => Sound(meta[i], temp'[i])
    <3> SUFFICES ASSUME meta[i] \notin {NoFile, Torn}
                 PROVE  Sound(meta[i], temp'[i])
      OBVIOUS
    <3>1. meta[i] \in Session /\ Sound(meta[i], temp[i]) /\ meta[i].totalSize = s.totalSize
      BY <1>2, <1>6 DEF ContentInv, ContentOf, TypeOK, SessionOr
    <3>2. Span(s, chunk, k) \in SUBSET (0..(meta[i].totalSize - 1))
      BY <2>3, <3>1
    <3>3. Sound(meta[i], temp[i] \cup Span(s, chunk, k))
      BY <1>6, <3>1, <3>2, WritingKeepsSound
    <3> QED
      BY <2>2, <3>3
  <2> QED
    BY <1>2, <1>6, <2>2, <2>4, <2>5 DEF ContentOf
<1>7. CASE /\ i = id /\ AcceptsChunk(s, user, chunk, len)
           /\ temp[id] # NoFile /\ ChunkStored(id, s, chunk, len)
  <2> DEFINE r == WithChunk(s, chunk)
             span == Span(s, chunk, len)
  <2>1. temp'[i] = temp[i] \cup span /\ sessions'[i] = r
    BY <1>7 DEF ChunkStored, ContentInv, TypeOK
  <2>2. meta'[i] \in {r, meta[i], Torn}
    BY <1>7 DEF ChunkStored, SavedMeta, ContentInv, TypeOK
  <2>3. span \subseteq 0..(s.totalSize - 1)
    BY <1>1, <1>7, SpanInFile
  <2>4. temp[i] \in SUBSET Nat /\ temp'[i] \in SUBSET Nat
    BY <1>7, <2>1, <2>3 DEF ContentInv, TypeOK
  <2>5. Sound(s, temp'[i])
    <3>1. span \in SUBSET (0..(s.totalSize - 1)) /\ Sound(s, temp[i]) /\ temp[i] # NoFile
      BY <1>2, <1>7, <2>3
    <3>2. Sound(s, temp[i] \cup span)
      BY <1>1, <3>1, WritingKeepsSound
    <3> QED
      BY <2>1, <3>2
  <2>6. Sound(r, temp'[i])
    <3>1. chunk \in 0..(s.totalChunks - 1) /\ chunk \notin ToSet(s.uploadedChunks)
      BY <1>1, <1>7 DEF AcceptsChunk, Session
    <3>2. Span(s, chunk, NominalLength(s, chunk)) \subseteq temp'[i]
      BY <1>3, <2>1
    <3> QED
      BY <1>1, <2>4, <2>5, <3>1, <3>2, RecordingKeepsSound
  <2>7. r.totalSize = s.totalSize
    BY <1>1 DEF WithChunk, Session
  <2>8. meta[i] \notin {NoFile, Torn} => Sound(meta[i], temp'[i])
    <3> SUFFICES ASSUME meta[i] \notin {NoFile, Torn}
                 PROVE  Sound(meta[i], temp'[i])
      OBVIOUS
    <3>1. meta[i] \in Session /\ Sound(meta[i], temp[i]) /\ meta[i].totalSize = s.totalSize
      BY <1>2, <1>7 DEF ContentInv, ContentOf, TypeOK, SessionOr
    <3>2. span \in SUBSET (0..(meta[i].totalSize - 1))
      BY <2>3, <3>1
    <3>3. Sound(meta[i], temp[i] \cup span)
      BY <1>7, <3>1, <3>2, WritingKeepsSound
    <3> QED
      BY <2>1, <3>3
  <2> HIDE DEF r, span
  <2> QED
    BY <1>2, <1>7, <2>1, <2>2, <2>6, <2>7, <2>8 DEF ContentOf
<1> QED
  BY <1>4, <1>5, <1>6, <1>7 DEF SaveChunk, s

LEMMA CrashInCreateKeepsContent ==
  ASSUME ContentInv, NEW user \in Users, NEW fileSize \in FileSizes, NEW chunkSize \in ChunkSizes,
         CrashInCreate(user, fileSize, chunkSize), NEW i \in UploadIds
  PROVE  ContentOf(i)'
<1>1. PICK id \in UploadIds, torn \in {NoFile, Torn} :
        /\ temp' = [temp EXCEPT ![id] = {}]
        /\ meta' = [meta EXCEPT ![id] = torn]
  BY DEF CrashInCreate
<1>2. sessions'[i] = NoSession
  BY DEF CrashInCreate, LoseMemory
<1>3. CASE i = id
  BY <1>1, <1>2, <1>3 DEF ContentOf, ContentInv, TypeOK
<1>4. CASE i # id
  <2>1. temp'[i] = temp[i] /\ meta'[i] = meta[i]
    BY <1>1, <1>4 DEF ContentInv, TypeOK
  <2> QED
    BY <1>2, <2>1, LosingKeepsContent
<1> QED
  BY <1>3, <1>4

LEMMA CrashInSaveChunkKeepsContent ==
  ASSUME ContentInv, NEW id \in UploadIds, NEW user \in Users, NEW chunk \in ChunkNumbers(id),
         NEW len \in BodyLengths(FindSession(id), chunk),
         CrashInSaveChunk(id, user, chunk, len), NEW i \in UploadIds
  PROVE  ContentOf(i)'
<1> DEFINE s == FindSession(id)
<1>1. s \in Session /\ chunk \in Int /\ len \in Nat
  BY RequestType DEF ContentInv
<1>2. meta[id] \notin {NoFile, Torn} => s.totalSize = meta[id].totalSize
  BY FoundIsSound DEF CrashInSaveChunk
<1>3. AcceptsChunk(s, user, chunk, len) /\ temp[id] # NoFile
  BY DEF CrashInSaveChunk
<1> HIDE DEF s
<1>4. PICK k \in 0..len :
        /\ temp' = [temp EXCEPT ![id] = @ \cup Span(s, chunk, k)]
        /\ meta' = meta \/ meta' = [meta EXCEPT ![id] = Torn]
  BY <1>1 DEF CrashInSaveChunk, s
<1>5. sessions'[i] = NoSession
  BY DEF CrashInSaveChunk, LoseMemory
<1>6. CASE i # id
  <2>1. temp'[i] = temp[i] /\ meta'[i] = meta[i]
    BY <1>4, <1>6 DEF ContentInv, TypeOK
  <2> QED
    BY <1>5, <2>1, LosingKeepsContent
<1>7. CASE i = id
  <2>1. temp'[i] = temp[i] \cup Span(s, chunk, k) /\ meta'[i] \in {meta[i], Torn}
    BY <1>4, <1>7 DEF ContentInv, TypeOK
  <2>2. meta[i] \notin {NoFile, Torn} => Sound(meta[i], temp'[i])
    <3> SUFFICES ASSUME meta[i] \notin {NoFile, Torn}
                 PROVE  Sound(meta[i], temp'[i])
      OBVIOUS
    <3>1. meta[i] \in Session /\ Sound(meta[i], temp[i]) /\ meta[i].totalSize = s.totalSize
      BY <1>2, <1>7 DEF ContentInv, ContentOf, TypeOK, SessionOr
    <3>2. Span(s, chunk, k) \in SUBSET (0..(meta[i].totalSize - 1))
      BY <1>1, <1>3, <3>1, SpanInFile
    <3>3. Sound(meta[i], temp[i] \cup Span(s, chunk, k))
      BY <1>3, <1>7, <3>1, <3>2, WritingKeepsSound
    <3> QED
      BY <2>1, <3>3
  <2> QED
    BY <1>5, <2>1, <2>2 DEF ContentOf
<1> QED
  BY <1>6, <1>7

\* CompleteUpload publishes a whole file: the list has all chunks, each chunk
\* has its bytes in the .temp file, and nothing lies beyond the declared size.
LEMMA PublishKeepsWhole ==
  ASSUME ContentInv, NEW id \in UploadIds, NEW user \in Users, FindSession(id) # NoSession,
         MayComplete(id, FindSession(id), user), Publish(id, FindSession(id))
  PROVE  PublishedWhole'
<1> DEFINE s == FindSession(id)
           f == [filename |-> s.filename, totalSize |-> s.totalSize, bytes |-> temp[id]]
<1>1. s \in Session /\ Sound(s, temp[id])
  BY FoundIsSound
<1>2. temp[id] # NoFile /\ Len(s.uploadedChunks) = s.totalChunks
  BY DEF MayComplete
<1> HIDE DEF s
<1>3. ToSet(s.uploadedChunks) = 0..(s.totalChunks - 1)
  BY <1>1, <1>2, AllChunksListed DEF Sound, Session
<1>4. temp[id] \in SUBSET Nat
  BY <1>2 DEF ContentInv, TypeOK
<1>5. temp[id] = 0..(s.totalSize - 1)
  BY <1>1, <1>2, <1>3, <1>4, ChunksTile DEF Sound
<1>6. finals' = [finals EXCEPT ![id] = Append(@, f)]
  BY DEF Publish, s
<1>7. f.bytes = 0..(f.totalSize - 1)
  BY <1>5
<1> HIDE DEF f
<1> SUFFICES ASSUME NEW i \in UploadIds, NEW k \in DOMAIN finals'[i]
             PROVE  finals'[i][k].bytes = 0..(finals'[i][k].totalSize - 1)
  BY DEF PublishedWhole
<1>8. finals[i] \in Seq(Published)
  BY DEF ContentInv, TypeOK
<1>9. CASE i = id
  <2>1. finals'[i] = Append(finals[i], f)
    BY <1>6, <1>9 DEF ContentInv, TypeOK
  <2>2. k \in 1..(Len(finals[i]) + 1) /\ Len(finals[i]) \in Nat
    BY <1>8, <2>1
  <2>3. CASE k = Len(finals[i]) + 1
    BY <1>7, <1>8, <2>1, <2>3
  <2>4. CASE k \in 1..Len(finals[i])
    <3>1. finals'[i][k] = finals[i][k] /\ k \in DOMAIN finals[i]
      BY <1>8, <2>1, <2>4
    <3> QED
      BY <3>1 DEF ContentInv, PublishedWhole
  <2> QED
    BY <2>2, <2>3, <2>4
<1>10. CASE i # id
  <2>1. finals'[i] = finals[i]
    BY <1>6, <1>10 DEF ContentInv, TypeOK
  <2> QED
    BY <2>1 DEF ContentInv, PublishedWhole
<1> QED
  BY <1>9, <1>10

LEMMA ContentStep ==
  ASSUME ContentInv, ~ShortChunks, [Next]_vars
  PROVE  ContentInv'
<1>1. TypeOK' /\ FreshIdsUnused'
  BY TypeStep, FreshIdsStep DEF ContentInv
<1>2. ASSUME NEW i \in UploadIds
      PROVE  ContentOf(i)'
  <2>1. CASE \E user \in Users, name \in Filenames, dir \in Directories,
                fileSize \in FileSizes, chunkSize \in ChunkSizes :
                  InitChunkUpload(user, name, dir, fileSize, chunkSize)
    BY <2>1, CreateKeepsContent
  <2>2. CASE \E id \in UploadIds, user \in Users : \E chunk \in ChunkNumbers(id) :
               \E len \in BodyLengths(FindSession(id), chunk) : SaveChunk(id, user, chunk, len)
    BY <2>2, SaveChunkKeepsContent
  <2>3. CASE \E id \in UploadIds, user \in Users : CompleteUpload(id, user)
    <3>1. /\ sessions'[i] \in {sessions[i], NoSession}
          /\ meta'[i] \in {meta[i], NoFile} /\ temp'[i] \in {temp[i], NoFile}
      BY <2>3 DEF CompleteUpload, Publish, memory, ContentInv, TypeOK
    <3> QED
      BY <3>1, LosingKeepsContent
  <2>4. CASE \E id \in UploadIds, user \in Users : CancelUpload(id, user)
    <3>1. /\ sessions'[i] \in {sessions[i], NoSession}
          /\ meta'[i] \in {meta[i], NoFile} /\ temp'[i] \in {temp[i], NoFile}
      BY <2>4 DEF CancelUpload, RemoveFiles, ContentInv, TypeOK
    <3> QED
      BY <3>1, LosingKeepsContent
  <2>5. CASE Cleanup
    <3>1. /\ sessions'[i] \in {sessions[i], NoSession}
          /\ meta'[i] \in {meta[i], NoFile} /\ temp'[i] \in {temp[i], NoFile}
      BY <2>5 DEF Cleanup, RemoveFiles, ContentInv, TypeOK
    <3> QED
      BY <3>1, LosingKeepsContent
  <2>6. CASE UNCHANGED <<memory, disk>>
    BY <2>6, LosingKeepsContent DEF memory, disk
  <2>7. CASE Restart
    BY <2>7, LosingKeepsContent DEF Restart, LoseMemory, disk
  <2>8. CASE \E user \in Users, fileSize \in FileSizes, chunkSize \in ChunkSizes :
               CrashInCreate(user, fileSize, chunkSize)
    BY <2>8, CrashInCreateKeepsContent
  <2>9. CASE \E id \in UploadIds, user \in Users : \E chunk \in ChunkNumbers(id) :
               \E len \in BodyLengths(FindSession(id), chunk) :
                 CrashInSaveChunk(id, user, chunk, len)
    BY <2>9, CrashInSaveChunkKeepsContent
  <2>10. CASE \E id \in UploadIds, user \in Users : CrashInComplete(id, user)
    <3>1. sessions'[i] = NoSession /\ meta'[i] = meta[i] /\ temp'[i] \in {temp[i], NoFile}
      BY <2>10 DEF CrashInComplete, Publish, LoseMemory, ContentInv, TypeOK
    <3> QED
      BY <3>1, LosingKeepsContent
  <2>11. CASE CrashInCleanup \/ \E id \in UploadIds, user \in Users : CrashInCancel(id, user)
    <3>1. /\ sessions'[i] = NoSession
          /\ meta'[i] \in {meta[i], NoFile} /\ temp'[i] \in {temp[i], NoFile}
      BY <2>11 DEF CrashInCancel, CrashInCleanup, RemoveFiles, LoseMemory, ContentInv, TypeOK
    <3> QED
      BY <3>1, LosingKeepsContent
  <2> QED
    BY <2>1, <2>2, <2>3, <2>4, <2>5, <2>6, <2>7, <2>8, <2>9, <2>10, <2>11
    DEF Next, Expire, vars, memory, disk
<1>3. PublishedWhole'
  <2>1. CASE finals' = finals
    BY <2>1 DEF ContentInv, PublishedWhole
  <2>2. ASSUME NEW id \in UploadIds, NEW user \in Users,
               CompleteUpload(id, user) \/ CrashInComplete(id, user)
        PROVE  PublishedWhole'
    BY <2>2, PublishKeepsWhole DEF CompleteUpload, CrashInComplete
  <2>3. CASE SweepFinals
    BY <2>3 DEF SweepFinals, ContentInv, PublishedWhole
  <2> QED
    BY <2>1, <2>2, <2>3
    DEF Next, InitChunkUpload, SaveChunk, CancelUpload, Cleanup, Expire, Restart, CrashInCreate,
        CrashInSaveChunk, CrashInCancel, CrashInCleanup, disk, vars
<1> QED
  BY <1>1, <1>2, <1>3 DEF ContentInv

LEMMA ContentInit == Init => ContentInv
<1> SUFFICES ASSUME Init
             PROVE  ContentInv
  OBVIOUS
<1>1. TypeOK
  BY SizesAssumption DEF Init, TypeOK, SessionOr
<1>2. FreshIdsUnused /\ PublishedWhole
  BY DEF Init, FreshIdsUnused, PublishedWhole
<1>3. \A id \in UploadIds : ContentOf(id)
  BY DEF Init, ContentOf
<1> QED
  BY <1>1, <1>2, <1>3 DEF ContentInv

\* If clients send each chunk at its nominal length, a file published by
\* CompleteUpload has every byte, whatever os call fails, wherever the process
\* dies, and in whatever order chunks arrive, fail, repeat and resume.
THEOREM PublishedFilesWhole ==
  ASSUME ~ShortChunks
  PROVE  Spec => []PublishedWhole
<1>1. Init => ContentInv
  BY ContentInit
<1>2. ContentInv /\ [Next]_vars => ContentInv'
  BY ContentStep
<1>3. ContentInv => PublishedWhole
  BY DEF ContentInv
<1> QED
  BY <1>1, <1>2, <1>3, PTL DEF Spec

-----------------------------------------------------------------------------
(* Sizes of sessions, for any client *)

SizesOf(id) ==
  /\ sessions[id] # NoSession => RightChunkCount(sessions[id])
  /\ meta[id] \notin {NoFile, Torn} => RightChunkCount(meta[id])

SizesInv == TypeOK /\ \A id \in UploadIds : SizesOf(id)

\* An upload whose session is kept, dropped, or read back.
LEMMA LookupKeepsSizes ==
  ASSUME SizesInv, NEW id \in UploadIds,
         sessions'[id] \in {sessions[id], NoSession, FindSession(id)},
         meta'[id] \in {meta[id], NoFile, Torn}
  PROVE  SizesOf(id)'
BY DEF SizesInv, SizesOf, FindSession, LoadSessionFromMeta

LEMMA SaveChunkKeepsSizes ==
  ASSUME SizesInv, NEW id \in UploadIds, NEW user \in Users, NEW chunk \in ChunkNumbers(id),
         NEW len \in BodyLengths(FindSession(id), chunk),
         SaveChunk(id, user, chunk, len), NEW i \in UploadIds
  PROVE  SizesOf(i)'
<1> DEFINE s == FindSession(id)
           r == WithChunk(s, chunk)
<1>1. s \in Session /\ (s # NoSession => RightChunkCount(s))
  BY RequestType DEF SizesInv, SizesOf, FindSession, LoadSessionFromMeta
<1>2. s # NoSession => RightChunkCount(r)
  BY <1>1 DEF RightChunkCount, WithChunk, Session
<1>3. s # NoSession
  BY DEF SaveChunk
<1> HIDE DEF r, s
<1>4. CASE i # id
  <2>1. sessions'[i] = sessions[i] /\ meta'[i] = meta[i]
    BY <1>4 DEF SaveChunk, ChunkStored, ChunkWriteFails, ChunkNotStored, SizesInv, TypeOK
  <2> QED
    BY <2>1, LookupKeepsSizes
<1>5. CASE i = id
  <2>1. sessions'[i] \in {s, r} /\ meta'[i] \in {r, meta[i], Torn}
    BY <1>5 DEF SaveChunk, ChunkStored, ChunkWriteFails, ChunkNotStored, SavedMeta, SizesInv,
                TypeOK, s, r
  <2> QED
    BY <1>1, <1>2, <1>3, <2>1 DEF SizesInv, SizesOf
<1> QED
  BY <1>4, <1>5

LEMMA CreateKeepsSizes ==
  ASSUME SizesInv, NEW user \in Users, NEW name \in Filenames, NEW dir \in Directories,
         NEW fileSize \in FileSizes, NEW chunkSize \in ChunkSizes,
         InitChunkUpload(user, name, dir, fileSize, chunkSize), NEW i \in UploadIds
  PROVE  SizesOf(i)'
<1> DEFINE s == NewSession(user, name, dir, fileSize, chunkSize)
<1>1. RightChunkCount(s)
  BY NewSessionSound DEF InitChunkUpload, Sound
<1> HIDE DEF s
<1>2. PICK id \in UploadIds :
        /\ sessions' = [sessions EXCEPT ![id] = s]
        /\ meta' = meta \/ \E m \in {s, Torn, NoFile} : meta' = [meta EXCEPT ![id] = m]
  BY DEF InitChunkUpload, s
<1>3. sessions'[i] \in {s, sessions[i]} /\ meta'[i] \in {s, meta[i], Torn, NoFile}
  BY <1>2 DEF SizesInv, TypeOK
<1> QED
  BY <1>1, <1>3 DEF SizesInv, SizesOf

LEMMA SizesStep ==
  ASSUME SizesInv, [Next]_vars
  PROVE  SizesInv'
<1> SUFFICES ASSUME NEW i \in UploadIds
             PROVE  SizesOf(i)'
  BY TypeStep DEF SizesInv
<1>1. CASE \E user \in Users, name \in Filenames, dir \in Directories,
              fileSize \in FileSizes, chunkSize \in ChunkSizes :
                InitChunkUpload(user, name, dir, fileSize, chunkSize)
  BY <1>1, CreateKeepsSizes
<1>2. CASE \E id \in UploadIds, user \in Users : \E chunk \in ChunkNumbers(id) :
             \E len \in BodyLengths(FindSession(id), chunk) : SaveChunk(id, user, chunk, len)
  BY <1>2, SaveChunkKeepsSizes
<1>3. CASE \E id \in UploadIds, user \in Users : CompleteUpload(id, user) \/ CancelUpload(id, user)
  <2>1. sessions'[i] \in {sessions[i], NoSession} /\ meta'[i] \in {meta[i], NoFile}
    BY <1>3 DEF CompleteUpload, CancelUpload, RemoveFiles, memory, SizesInv, TypeOK
  <2> QED
    BY <2>1, LookupKeepsSizes
<1>4. CASE Cleanup
  <2>1. sessions'[i] \in {sessions[i], NoSession} /\ meta'[i] \in {meta[i], NoFile}
    BY <1>4 DEF Cleanup, RemoveFiles, SizesInv, TypeOK
  <2> QED
    BY <2>1, LookupKeepsSizes
<1>5. CASE LoseMemory /\ \E id \in UploadIds, torn \in {Torn, NoFile} :
             meta' = meta \/ meta' = [meta EXCEPT ![id] = torn]
  <2>1. sessions'[i] = NoSession /\ meta'[i] \in {meta[i], NoFile, Torn}
    BY <1>5 DEF LoseMemory, SizesInv, TypeOK
  <2> QED
    BY <2>1, LookupKeepsSizes
<1>6. CASE LoseMemory /\ \E gone, keepTemp, keepMeta : RemoveFiles(gone, keepTemp, keepMeta)
  <2>1. sessions'[i] = NoSession /\ meta'[i] \in {meta[i], NoFile}
    BY <1>6 DEF LoseMemory, RemoveFiles
  <2> QED
    BY <2>1, LookupKeepsSizes
<1>7. CASE UNCHANGED <<sessions, meta>>
  BY <1>7, LookupKeepsSizes
<1>8. CASE Restart \/ \E id \in UploadIds, user \in Users : CrashInComplete(id, user)
  BY <1>5, <1>8 DEF Restart, CrashInComplete, disk
<1>9. CASE \/ \E user \in Users, fileSize \in FileSizes, chunkSize \in ChunkSizes :
                CrashInCreate(user, fileSize, chunkSize)
           \/ \E id \in UploadIds, user \in Users : \E chunk \in ChunkNumbers(id) :
                \E len \in BodyLengths(FindSession(id), chunk) :
                  CrashInSaveChunk(id, user, chunk, len)
  BY <1>5, <1>9 DEF CrashInCreate, CrashInSaveChunk
<1>10. CASE CrashInCleanup \/ \E id \in UploadIds, user \in Users : CrashInCancel(id, user)
  BY <1>6, <1>10 DEF CrashInCleanup, CrashInCancel
<1> QED
  BY <1>1, <1>2, <1>3, <1>4, <1>7, <1>8, <1>9, <1>10 DEF Next, Expire, memory, disk, vars

\* The chunk count of every session in memory is the declared size divided by
\* the chunk size, rounded up: the int64 sum of InitChunkUpload may wrap, but
\* then CreateUploadSession refuses the request.
THEOREM ChunksCoverFiles == Spec => []ChunksCoverFile
<1>1. Init => SizesInv
  BY ContentInit DEF Init, ContentInv, SizesInv, SizesOf
<1>2. SizesInv /\ [Next]_vars => SizesInv'
  BY SizesStep
<1>3. SizesInv => ChunksCoverFile
  BY DEF SizesInv, SizesOf, RightChunkCount, ChunksCoverFile
<1> QED
  BY <1>1, <1>2, <1>3, PTL DEF Spec
=============================================================================
