------------------------ MODULE UploadPromiseProofs ------------------------
(***************************************************************************)
(* Theorems about the life of an upload, for every value of the constants  *)
(* of UploadManager: its limit, its record on disk, its publication, and   *)
(* the promise of UploadPromise, which the manager implements.             *)
(***************************************************************************)
EXTENDS UploadManagerProofs, SequenceTheorems

-----------------------------------------------------------------------------
(* Prefixes *)

LEMMA PrefixByIndex ==
  ASSUME NEW S, NEW s \in Seq(S), NEW t \in Seq(S)
  PROVE  IsPrefix(s, t) <=> Len(s) <= Len(t) /\ \A i \in 1..Len(s) : s[i] = t[i]
<1>1. SubSeq(s, 1, Len(s)) = s
  BY SubSeqFull
<1>2. ASSUME Len(s) <= Len(t)
      PROVE  SubSeq(t, 1, Len(s)) = s <=> \A i \in 1..Len(s) : s[i] = t[i]
  <2> DEFINE p == SubSeq(t, 1, Len(s))
  <2>1. \A i \in 1..Len(s) : t[i] \in S
    BY <1>2
  <2>2. p \in Seq(S) /\ Len(p) = Len(s) /\ \A i \in 1..Len(s) : p[i] = t[i]
    <3>1. Len(s) \in Nat
      OBVIOUS
    <3> QED
      BY <2>1, <3>1, SubSeqProperties
  <2> HIDE DEF p
  <2>3. p = s <=> \A i \in 1..Len(s) : s[i] = p[i]
    BY <2>2
  <2> QED
    BY <2>2, <2>3 DEF p
<1> QED
  BY <1>1, <1>2 DEF IsPrefix

LEMMA PrefixFacts ==
  ASSUME NEW S, NEW s \in Seq(S), NEW t \in Seq(S), NEW e \in S
  PROVE  /\ IsPrefix(s, s)
         /\ IsPrefix(s, t) => IsPrefix(s, Append(t, e))
<1>1. IsPrefix(s, s)
  BY PrefixByIndex
<1>2. ASSUME IsPrefix(s, t)
      PROVE  IsPrefix(s, Append(t, e))
  <2>1. Len(s) <= Len(t) /\ \A i \in 1..Len(s) : s[i] = t[i]
    BY <1>2, PrefixByIndex
  <2>2. /\ Append(t, e) \in Seq(S) /\ Len(Append(t, e)) = Len(t) + 1
        /\ \A i \in 1..Len(t) : Append(t, e)[i] = t[i]
    BY AppendProperties
  <2>3. Len(s) <= Len(Append(t, e)) /\ \A i \in 1..Len(s) : s[i] = Append(t, e)[i]
    BY <2>1, <2>2
  <2> QED
    BY <2>2, <2>3, PrefixByIndex
<1> QED
  BY <1>1, <1>2

-----------------------------------------------------------------------------
(* Publication *)

\* An upload that is published has no .temp file left to publish.
OnceInv ==
  /\ TypeOK /\ FreshIdsUnused
  /\ \A id \in UploadIds :
       Len(finals[id]) <= 1 /\ (finals[id] # <<>> => temp[id] = NoFile)

\* Only CompleteUpload adds a file, and only cleanup may remove one.
LEMMA FinalsStep ==
  ASSUME TypeOK, [Next]_vars
  PROVE  \/ UNCHANGED finals
         \/ SweepFinals /\ \A id \in UploadIds : temp'[id] \in {temp[id], NoFile}
         \/ \E id \in UploadIds : /\ temp[id] # NoFile
                                  /\ FindSession(id) \in Session /\ Publish(id, FindSession(id))
                                  /\ Len(FindSession(id).uploadedChunks) = FindSession(id).totalChunks
<1>1. CASE \E id \in UploadIds, user \in Users : CompleteUpload(id, user) \/ CrashInComplete(id, user)
  BY <1>1, FindSessionType DEF CompleteUpload, CrashInComplete, MayComplete
<1>2. CASE Cleanup
  BY <1>2 DEF Cleanup, RemoveFiles, TypeOK
<1> QED
  BY <1>1, <1>2
  DEF Next, InitChunkUpload, SaveChunk, CancelUpload, Expire, Restart, CrashInCreate, CrashInSaveChunk,
      CrashInCancel, CrashInCleanup, vars, disk

\* A .temp file is made for a fresh upload ID only.
LEMMA TempStep ==
  ASSUME TypeOK, FreshIdsUnused, [Next]_vars, NEW i \in UploadIds, temp[i] = NoFile, temp'[i] # NoFile
  PROVE  finals[i] = <<>>
<1> USE DEF TypeOK
<1>1. age[i] = "unused" => finals[i] = <<>>
  BY DEF FreshIdsUnused
<1>2. CASE \E user \in Users, name \in Filenames, dir \in Directories,
              fileSize \in FileSizes, chunkSize \in ChunkSizes :
                InitChunkUpload(user, name, dir, fileSize, chunkSize)
  BY <1>1, <1>2 DEF InitChunkUpload
<1>3. CASE \E user \in Users, fileSize \in FileSizes, chunkSize \in ChunkSizes :
             CrashInCreate(user, fileSize, chunkSize)
  BY <1>1, <1>3 DEF CrashInCreate
<1>4. CASE \E id \in UploadIds, user \in Users : \E chunk \in ChunkNumbers(id) :
             \E len \in BodyLengths(FindSession(id), chunk) :
               SaveChunk(id, user, chunk, len) \/ CrashInSaveChunk(id, user, chunk, len)
  BY <1>4 DEF SaveChunk, CrashInSaveChunk, ChunkStored, ChunkWriteFails, ChunkNotStored
<1>5. CASE \E id \in UploadIds, user \in Users : CompleteUpload(id, user) \/ CrashInComplete(id, user)
  BY <1>5 DEF CompleteUpload, CrashInComplete, Publish
<1>6. CASE \E gone, keepTemp, keepMeta : RemoveFiles(gone, keepTemp, keepMeta)
  BY <1>6 DEF RemoveFiles
<1> QED
  BY <1>2, <1>3, <1>4, <1>5, <1>6
  DEF Next, CancelUpload, Cleanup, Expire, Restart, CrashInCancel, CrashInCleanup, vars, disk

LEMMA OnceStep ==
  ASSUME OnceInv, [Next]_vars
  PROVE  OnceInv'
<1> USE DEF OnceInv
<1>1. TypeOK' /\ FreshIdsUnused'
  BY TypeStep, FreshIdsStep
<1>2. ASSUME NEW i \in UploadIds
      PROVE  Len(finals'[i]) <= 1 /\ (finals'[i] # <<>> => temp'[i] = NoFile)
  <2>1. CASE finals'[i] = finals[i]
    BY <2>1, TempStep
  <2>2. CASE finals'[i] = <<>>
    BY <2>2
  <2>3. CASE temp[i] # NoFile /\ Publish(i, FindSession(i))
    <3>1. finals[i] = <<>> /\ temp'[i] = NoFile
      BY <2>3 DEF Publish, TypeOK
    <3>2. \E f : finals'[i] = Append(<<>>, f)
      BY <2>3, <3>1 DEF Publish, TypeOK
    <3> QED
      BY <3>1, <3>2
  <2> QED
    BY <2>1, <2>2, <2>3, FinalsStep DEF SweepFinals, Publish, TypeOK
<1> QED
  BY <1>1, <1>2

\* No upload is published twice, however often CompleteUpload fails, is retried,
\* or dies half way: the rename takes away what could be published again.
THEOREM UploadPublishedOnce == Spec => []PublishedOnce
<1>1. Init => OnceInv
  <2>1. Init => TypeOK
    BY SizesAssumption DEF Init, TypeOK, SessionOr
  <2> QED
    BY <2>1 DEF Init, OnceInv, FreshIdsUnused
<1>2. OnceInv => PublishedOnce
  BY DEF OnceInv, PublishedOnce
<1> QED
  BY <1>1, <1>2, OnceStep, PTL DEF Spec

LEMMA StaysStep ==
  ASSUME Filenames \cap MetaNames = {}, TypeOK, [Next]_vars, NEW i \in UploadIds
  PROVE  IsPrefix(finals[i], finals'[i])
<1>1. finals[i] \in Seq(Published)
  BY DEF TypeOK
<1>2. CASE finals'[i] = finals[i]
  <2>1. IsPrefix(finals[i], finals[i])
    BY <1>1, PrefixByIndex
  <2> QED
    BY <1>2, <2>1
<1>3. CASE SweepFinals
  <2>1. \A k \in DOMAIN finals[i] : finals[i][k] \in Published
    BY <1>1
  <2>2. \A k \in DOMAIN finals[i] : finals[i][k].filename \notin MetaNames
    BY <2>1 DEF Published
  <2> QED
    BY <1>2, <1>3, <2>2 DEF SweepFinals
<1>4. ASSUME temp[i] # NoFile, FindSession(i) \in Session, Publish(i, FindSession(i))
      PROVE  IsPrefix(finals[i], finals'[i])
  <2> DEFINE f == [filename |-> FindSession(i).filename, totalSize |-> FindSession(i).totalSize,
                   bytes |-> temp[i]]
  <2>1. f \in Published
    BY <1>4 DEF Published, Session, TypeOK
  <2>2. finals'[i] = Append(finals[i], f)
    BY <1>4 DEF Publish, TypeOK
  <2> HIDE DEF f
  <2> QED
    BY <1>1, <2>1, <2>2, PrefixFacts
<1> QED
  BY <1>2, <1>3, <1>4, FinalsStep DEF Publish, TypeOK

\* A published file stays for ever, unless its name ends in .meta and its content
\* is read as a session: cleanup is the only operation that could touch it.
THEOREM UploadPublishedStays ==
  ASSUME Filenames \cap MetaNames = {}
  PROVE  Spec => PublishedStays
<1>1. Init => TypeOK
  BY SizesAssumption DEF Init, TypeOK, SessionOr
<1>2. TypeOK /\ [Next]_vars => TypeOK'
  BY TypeStep
<1>3. TypeOK /\ [Next]_vars => [\A id \in UploadIds : IsPrefix(finals[id], finals'[id])]_finals
  BY StaysStep
<1> QED
  BY <1>1, <1>2, <1>3, PTL DEF Spec, PublishedStays

-----------------------------------------------------------------------------
(* The limit *)

\* The count of a user is exact, and at the limit at most.
Exact(u) ==
  /\ userUploads[u] = Cardinality(SessionsOf(u))
  /\ Cardinality(SessionsOf(u)) <= MaxConcurrent

LimitInv == TypeOK /\ FreshIdsUnused /\ \A u \in Users \ restoredUsers : Exact(u)

LEMMA SessionsFinite ==
  ASSUME NEW u
  PROVE  /\ IsFiniteSet(SessionsOf(u)) /\ Cardinality(SessionsOf(u)) \in Nat
         /\ IsFiniteSet(SessionsOf(u)') /\ Cardinality(SessionsOf(u)') \in Nat
BY FiniteAssumption, FS_Subset, FS_CardinalityType DEF SessionsOf

\* The sessions in gone go away, and each gives its slot back.
LEMMA ReleaseKeepsExact ==
  ASSUME TypeOK, NEW u \in Users, Exact(u), NEW gone, SessionsOf(u)' = SessionsOf(u) \ gone,
         userUploads'[u] = Release(userUploads[u], Cardinality(SessionsOf(u) \cap gone))
  PROVE  Exact(u)'
<1>1. /\ Cardinality(SessionsOf(u)') = Cardinality(SessionsOf(u)) - Cardinality(SessionsOf(u) \cap gone)
      /\ Cardinality(SessionsOf(u) \cap gone) \in Nat
  BY SessionsFinite, FS_Difference, FS_Intersection, FS_CardinalityType
<1> DEFINE n == Cardinality(SessionsOf(u))  k == Cardinality(SessionsOf(u) \cap gone)
            n1 == Cardinality(SessionsOf(u)')
<1>2. n \in Nat /\ n1 \in Nat /\ k \in Nat /\ n1 = n - k /\ userUploads[u] = n /\ n <= MaxConcurrent
  BY <1>1, SessionsFinite DEF Exact
<1>3. MaxConcurrent \in Nat /\ userUploads'[u] = Release(n, k)
  BY <1>2, SizesAssumption
<1> HIDE DEF n, k, n1
<1>4. userUploads'[u] = n1 /\ n1 <= MaxConcurrent
  BY <1>2, <1>3 DEF Release
<1> QED
  BY <1>4 DEF Exact, n1

\* Nothing changes for a user.
LEMMA SameSessions ==
  ASSUME NEW u \in Users, Exact(u), SessionsOf(u)' = SessionsOf(u), userUploads'[u] = userUploads[u]
  PROVE  Exact(u)'
BY DEF Exact

LEMMA CreateKeepsExact ==
  ASSUME LimitInv, NEW user \in Users, NEW name \in Filenames, NEW dir \in Directories,
         NEW fileSize \in FileSizes, NEW chunkSize \in ChunkSizes,
         InitChunkUpload(user, name, dir, fileSize, chunkSize), NEW u \in Users \ restoredUsers
  PROVE  Exact(u)'
<1> USE DEF LimitInv
<1> DEFINE session == NewSession(user, name, dir, fileSize, chunkSize)
<1>1. session \in Session /\ session.userID = user
  BY NewSessionType DEF InitChunkUpload, NewSession
<1>2. PICK id \in UploadIds :
        /\ age[id] = "unused"
        /\ sessions' = [sessions EXCEPT ![id] = session]
        /\ userUploads' = [userUploads EXCEPT ![user] = @ + 1]
  BY DEF InitChunkUpload
<1>3. sessions[id] = NoSession
  BY <1>2 DEF FreshIdsUnused
<1> HIDE DEF session
<1>4. CASE u = user
  <2>1. SessionsOf(u)' = SessionsOf(u) \cup {id} /\ id \notin SessionsOf(u)
    BY <1>1, <1>2, <1>3, <1>4, NullsAssumption DEF SessionsOf, TypeOK
  <2>2. Cardinality(SessionsOf(u)') = Cardinality(SessionsOf(u)) + 1
    BY <2>1, SessionsFinite, FS_AddElement
  <2>3. userUploads'[u] = userUploads[u] + 1 /\ userUploads[u] < MaxConcurrent
    BY <1>2, <1>4 DEF InitChunkUpload, MayCreate, TypeOK
  <2> QED
    BY <2>2, <2>3, SessionsFinite, SizesAssumption DEF Exact
<1>5. CASE u # user
  <2>1. SessionsOf(u)' = SessionsOf(u)
    BY <1>1, <1>2, <1>3, <1>5 DEF SessionsOf, TypeOK
  <2> QED
    BY <1>2, <1>5, <2>1, SameSessions DEF TypeOK
<1> QED
  BY <1>4, <1>5

LEMMA SaveChunkKeepsExact ==
  ASSUME LimitInv, NEW id \in UploadIds, NEW user \in Users, NEW chunk \in ChunkNumbers(id),
         NEW len \in BodyLengths(FindSession(id), chunk), SaveChunk(id, user, chunk, len),
         NEW u \in Users \ restoredUsers'
  PROVE  u \notin restoredUsers /\ Exact(u)'
<1> USE DEF LimitInv
<1> DEFINE session == FindSession(id)
<1>1. session \in Session
  BY FindSessionType DEF SaveChunk
<1>2. u \notin restoredUsers /\ (sessions[id] # NoSession \/ u # session.userID)
  BY DEF SaveChunk, NoteRestore
<1>3. sessions[id] # NoSession => session = sessions[id]
  BY DEF FindSession
<1>4. \E s : s # NoSession /\ s.userID = session.userID /\ sessions' = [sessions EXCEPT ![id] = s]
  <2>1. WithChunk(session, chunk).userID = session.userID
    BY <1>1 DEF WithChunk, Session
  <2>2. AcceptsChunk(session, user, chunk, len) => WithChunk(session, chunk) \in Session
    BY <1>1, RequestType, WithChunkType DEF AcceptsChunk
  <2> QED
    BY <1>1, <2>1, <2>2, NullsAssumption DEF SaveChunk, ChunkStored, ChunkWriteFails, ChunkNotStored
<1> HIDE DEF session
<1>5. SessionsOf(u)' = SessionsOf(u)
  BY <1>2, <1>3, <1>4 DEF SessionsOf, TypeOK
<1> QED
  BY <1>2, <1>5, SameSessions DEF SaveChunk

\* One session goes, with its slot.
LEMMA OneReleaseKeepsExact ==
  ASSUME LimitInv, NEW id \in UploadIds, FindSession(id) # NoSession, NoteRestore(id),
         sessions' = [sessions EXCEPT ![id] = NoSession],
         userUploads' = [userUploads EXCEPT ![FindSession(id).userID] = Release(@, 1)],
         NEW u \in Users \ restoredUsers'
  PROVE  Exact(u)'
<1> USE DEF LimitInv
<1> DEFINE owner == FindSession(id).userID
<1>1. u \notin restoredUsers /\ (sessions[id] # NoSession \/ u # owner)
  BY DEF NoteRestore
<1>2. owner \in Users /\ (sessions[id] # NoSession => owner = sessions[id].userID)
  BY FoundOwner
<1>3. userUploads' = [userUploads EXCEPT ![owner] = Release(@, 1)]
  OBVIOUS
<1> HIDE DEF owner
<1>4. SessionsOf(u)' = SessionsOf(u) \ {id}
  BY DEF SessionsOf, TypeOK
<1>5. CASE u = owner
  <2>1. SessionsOf(u) \cap {id} = {id}
    BY <1>1, <1>2, <1>5 DEF SessionsOf
  <2>2. Cardinality(SessionsOf(u) \cap {id}) = 1
    BY <2>1, FS_Singleton
  <2>3. userUploads'[u] = Release(userUploads[u], 1)
    BY <1>3, <1>5 DEF TypeOK
  <2> QED
    BY <1>1, <1>4, <2>2, <2>3, ReleaseKeepsExact
<1>6. CASE u # owner
  <2>1. id \notin SessionsOf(u)
    BY <1>2, <1>6 DEF SessionsOf
  <2>2. SessionsOf(u)' = SessionsOf(u) /\ userUploads'[u] = userUploads[u]
    BY <1>3, <1>4, <1>6, <2>1 DEF TypeOK
  <2> QED
    BY <1>1, <2>2, SameSessions
<1> QED
  BY <1>5, <1>6

LEMMA LimitStep ==
  ASSUME LimitInv, [Next]_vars
  PROVE  LimitInv'
<1> USE DEF LimitInv
<1>1. TypeOK' /\ FreshIdsUnused'
  BY TypeStep, FreshIdsStep
<1>2. ASSUME NEW u \in Users \ restoredUsers'
      PROVE  Exact(u)'
  <2>1. CASE UNCHANGED <<memory, restoredUsers>>
    BY <2>1, SameSessions DEF memory, SessionsOf
  <2>2. CASE \E user \in Users, name \in Filenames, dir \in Directories,
                fileSize \in FileSizes, chunkSize \in ChunkSizes :
                  InitChunkUpload(user, name, dir, fileSize, chunkSize)
    <3>1. u \notin restoredUsers
      BY <2>2 DEF InitChunkUpload
    <3> QED
      BY <2>2, <3>1, CreateKeepsExact
  <2>3. CASE \E id \in UploadIds, user \in Users : \E chunk \in ChunkNumbers(id) :
               \E len \in BodyLengths(FindSession(id), chunk) : SaveChunk(id, user, chunk, len)
    BY <2>3, SaveChunkKeepsExact
  <2>4. ASSUME NEW id \in UploadIds, NEW user \in Users, CompleteUpload(id, user)
        PROVE  Exact(u)'
    <3>1. CASE UNCHANGED memory
      <4>1. u \notin restoredUsers
        BY <2>4 DEF CompleteUpload, NoteRestore
      <4> QED
        BY <3>1, <4>1, SameSessions DEF memory, SessionsOf
    <3>2. CASE /\ sessions' = [sessions EXCEPT ![id] = NoSession]
               /\ userUploads' = [userUploads EXCEPT ![FindSession(id).userID] = Release(@, 1)]
      BY <2>4, <3>2, OneReleaseKeepsExact DEF CompleteUpload
    <3> QED
      BY <2>4, <3>1, <3>2 DEF CompleteUpload
  <2>5. ASSUME NEW id \in UploadIds, NEW user \in Users, CancelUpload(id, user)
        PROVE  Exact(u)'
    BY <2>5, OneReleaseKeepsExact DEF CancelUpload
  <2>6. CASE Cleanup
    <3>1. u \notin restoredUsers
      BY <2>6 DEF Cleanup
    <3>2. SessionsOf(u)' = SessionsOf(u) \ Due
      BY <2>6 DEF Cleanup, SessionsOf, TypeOK
    <3>3. userUploads'[u] = Release(userUploads[u], Cardinality(SessionsOf(u) \cap Due))
      <4>1. Due \cap SessionsOf(u) = SessionsOf(u) \cap Due
        OBVIOUS
      <4> QED
        BY <2>6, <4>1 DEF Cleanup
    <3> QED
      BY <3>1, <3>2, <3>3, ReleaseKeepsExact
  <2>7. CASE LoseMemory
    <3>1. SessionsOf(u)' = {} /\ userUploads'[u] = 0
      BY <2>7 DEF LoseMemory, SessionsOf
    <3>2. Cardinality({}) = 0
      BY FS_EmptySet
    <3> QED
      BY <3>1, <3>2, SizesAssumption DEF Exact
  <2> QED
    BY <2>1, <2>2, <2>3, <2>4, <2>5, <2>6, <2>7
    DEF Next, Expire, Restart, CrashInCreate, CrashInSaveChunk, CrashInComplete, CrashInCancel,
        CrashInCleanup, vars, memory
<1> QED
  BY <1>1, <1>2

\* max_concurrent_uploads holds for every user none of whose sessions was read back
\* from disk, for any number of users and uploads, and whatever fails or restarts.
THEOREM UploadLimitHolds == Spec => []LimitHolds
<1>1. Init => LimitInv
  <2> SUFFICES ASSUME Init PROVE LimitInv
    OBVIOUS
  <2>1. TypeOK /\ FreshIdsUnused
    BY SizesAssumption DEF Init, TypeOK, SessionOr, FreshIdsUnused
  <2>2. \A u \in Users : SessionsOf(u) = {} /\ userUploads[u] = 0
    BY DEF Init, SessionsOf
  <2>3. Cardinality({}) = 0
    BY FS_EmptySet
  <2> QED
    BY <2>1, <2>2, <2>3, SizesAssumption DEF LimitInv, Exact
<1>2. LimitInv => LimitHolds
  BY DEF LimitInv, LimitHolds, Exact
<1> QED
  BY <1>1, <1>2, LimitStep, PTL DEF Spec

-----------------------------------------------------------------------------
(* What a step does to one upload *)

IsRecord(m) == m \notin {NoFile, Torn}

\* It goes away, or stays as it is: its .meta and its .temp too while it is live.
Loses(i) ==
  /\ sessions'[i] \in {sessions[i], NoSession} /\ meta'[i] \in {meta[i], NoFile, Torn}
  /\ sessions'[i] # NoSession /\ age'[i] = "live" =>
       meta'[i] = meta[i] /\ age[i] = "live" /\ (temp'[i] # NoFile => temp[i] # NoFile)

\* InitChunkUpload.
Begins(i) ==
  /\ age[i] = "unused" /\ sessions[i] = NoSession /\ ~IsRecord(meta[i])
  /\ sessions'[i] \in Session /\ sessions'[i].uploadedChunks = <<>>
  /\ meta'[i] \in {sessions'[i], NoFile, Torn}
  /\ "meta" \notin Faults /\ temp'[i] # NoFile => meta'[i] = sessions'[i]

\* SaveChunk: the session is found, and a chunk added to it or not.
Finds(i) ==
  /\ FindSession(i) \in Session /\ sessions'[i] = FindSession(i) /\ meta'[i] = meta[i]
  /\ age'[i] = age[i] /\ (temp'[i] # NoFile => temp[i] # NoFile)

Grows(i) ==
  /\ FindSession(i) \in Session
  /\ \E chunk \in Nat :
       /\ chunk < FindSession(i).totalChunks /\ chunk \notin ToSet(FindSession(i).uploadedChunks)
       /\ sessions'[i] = WithChunk(FindSession(i), chunk)
       /\ meta'[i] \in {sessions'[i]} \cup (IF "meta" \in Faults THEN {meta[i], Torn} ELSE {})

LEMMA CreateOf ==
  ASSUME TypeOK, FreshIdsUnused, NEW user \in Users, NEW name \in Filenames, NEW dir \in Directories,
         NEW fileSize \in FileSizes, NEW chunkSize \in ChunkSizes,
         InitChunkUpload(user, name, dir, fileSize, chunkSize), NEW i \in UploadIds
  PROVE  Loses(i) \/ Begins(i)
<1> DEFINE session == NewSession(user, name, dir, fileSize, chunkSize)
<1>1. session \in Session /\ session.uploadedChunks = <<>>
  BY NewSessionType DEF InitChunkUpload, NewSession
<1>2. PICK id \in UploadIds :
        /\ age[id] = "unused" /\ age' = [age EXCEPT ![id] = "live"]
        /\ sessions' = [sessions EXCEPT ![id] = session]
        /\ \/ temp' = [temp EXCEPT ![id] = {}] /\ meta' = [meta EXCEPT ![id] = session]
           \/ temp' = temp /\ meta' = meta
           \/ /\ "meta" \in Faults /\ \E torn \in {NoFile, Torn} : meta' = [meta EXCEPT ![id] = torn]
              /\ temp' = temp \/ temp' = [temp EXCEPT ![id] = {}]
  BY DEF InitChunkUpload
<1> HIDE DEF session
<1>3. sessions[id] = NoSession /\ meta[id] = NoFile /\ temp[id] = NoFile
  BY <1>2 DEF FreshIdsUnused
<1>4. CASE i = id
  BY <1>1, <1>2, <1>3, <1>4 DEF Begins, IsRecord, TypeOK
<1>5. CASE i # id
  BY <1>2, <1>5 DEF Loses, TypeOK
<1> QED
  BY <1>4, <1>5

LEMMA SaveChunkOf ==
  ASSUME TypeOK, NEW id \in UploadIds, NEW user \in Users, NEW chunk \in ChunkNumbers(id),
         NEW len \in BodyLengths(FindSession(id), chunk), SaveChunk(id, user, chunk, len), NEW i \in UploadIds
  PROVE  Loses(i) \/ Finds(i) \/ Grows(i)
<1> USE DEF TypeOK
<1> DEFINE session == FindSession(id)
<1>1. session \in Session /\ chunk \in Int
  BY RequestType
<1>2. age' = age
  BY DEF SaveChunk
<1>3. CASE ChunkNotStored(id, session)
  BY <1>1, <1>2, <1>3 DEF ChunkNotStored, Loses, Finds
<1>4. CASE ChunkWriteFails(id, session, chunk, len) /\ temp[id] # NoFile
  BY <1>1, <1>2, <1>4 DEF ChunkWriteFails, Loses, Finds
<1>5. CASE ChunkStored(id, session, chunk, len) /\ AcceptsChunk(session, user, chunk, len) /\ temp[id] # NoFile
  <2>1. /\ chunk \in Nat /\ chunk < session.totalChunks /\ chunk \notin ToSet(session.uploadedChunks)
    BY <1>1, <1>5 DEF AcceptsChunk
  <2>2. \E saved \in SavedMeta(id, WithChunk(session, chunk)) : meta' = [meta EXCEPT ![id] = saved]
    BY <1>5 DEF ChunkStored
  <2>3. sessions' = [sessions EXCEPT ![id] = WithChunk(session, chunk)]
    BY <1>5 DEF ChunkStored
  <2> HIDE DEF session
  <2>4. CASE i = id
    <3>1. meta'[i] \in SavedMeta(i, WithChunk(session, chunk)) /\ sessions'[i] = WithChunk(session, chunk)
      BY <2>2, <2>3, <2>4
    <3>2. meta'[i] \in {sessions'[i]} \cup (IF "meta" \in Faults THEN {meta[i], Torn} ELSE {})
      BY <3>1 DEF SavedMeta
    <3>3. session = FindSession(i)
      BY <2>4 DEF session
    <3> QED
      BY <1>1, <2>1, <3>1, <3>2, <3>3 DEF Grows
  <2>5. CASE i # id
    <3>1. temp'[i] = temp[i]
      BY <1>5, <2>5 DEF ChunkStored
    <3> QED
      BY <1>2, <2>2, <2>3, <2>5, <3>1 DEF Loses
  <2> QED
    BY <2>4, <2>5
<1> QED
  BY <1>3, <1>4, <1>5 DEF SaveChunk

LEMMA LifeStep ==
  ASSUME TypeOK, FreshIdsUnused, [Next]_vars, NEW i \in UploadIds
  PROVE  Loses(i) \/ Begins(i) \/ Finds(i) \/ Grows(i)
<1> USE DEF TypeOK
<1>1. CASE \E user \in Users, name \in Filenames, dir \in Directories,
              fileSize \in FileSizes, chunkSize \in ChunkSizes :
                InitChunkUpload(user, name, dir, fileSize, chunkSize)
  BY <1>1, CreateOf
<1>2. CASE \E id \in UploadIds, user \in Users : \E chunk \in ChunkNumbers(id) :
             \E len \in BodyLengths(FindSession(id), chunk) : SaveChunk(id, user, chunk, len)
  BY <1>2, SaveChunkOf
<1>3. CASE \E id \in UploadIds, user \in Users : CompleteUpload(id, user)
  BY <1>3 DEF CompleteUpload, Publish, memory, Loses
<1>4. CASE \E id \in UploadIds, user \in Users : CancelUpload(id, user)
  BY <1>4 DEF CancelUpload, RemoveFiles, Loses
<1>5. CASE Cleanup
  <2>1. PICK late \in SUBSET Live :
          /\ \E keepTemp, keepMeta : RemoveFiles(Due \cup Swept(late), keepTemp, keepMeta)
          /\ PassExpiry(late)
          /\ sessions' = [id \in UploadIds |-> IF id \in Due THEN NoSession ELSE sessions[id]]
    BY <1>5 DEF Cleanup
  <2>2. /\ meta'[i] \in {meta[i], NoFile} /\ temp'[i] \in {temp[i], NoFile}
        /\ i \notin Due \cup Swept(late) => meta'[i] = meta[i]
    BY <2>1 DEF RemoveFiles
  <2>3. age'[i] = "live" => age[i] = "live" /\ i \notin Due \cup Swept(late)
    BY <2>1 DEF PassExpiry, Due, Swept
  <2>4. sessions'[i] \in {sessions[i], NoSession}
    BY <2>1
  <2> QED
    BY <2>2, <2>3, <2>4 DEF Loses
<1>6. CASE LoseMemory /\ meta'[i] \in {meta[i], NoFile, Torn}
  BY <1>6 DEF LoseMemory, Loses
<1>7. CASE \E id \in UploadIds : Expire(id)
  BY <1>7 DEF Expire, memory, disk, Loses
<1>8. CASE UNCHANGED vars
  BY <1>8 DEF vars, Loses
<1>9. CASE Restart \/ CrashInCleanup \/ \E id \in UploadIds, user \in Users :
             CrashInComplete(id, user) \/ CrashInCancel(id, user)
  BY <1>6, <1>9 DEF Restart, CrashInCleanup, CrashInComplete, CrashInCancel, RemoveFiles, disk
<1>10. CASE \E user \in Users, fileSize \in FileSizes, chunkSize \in ChunkSizes :
              CrashInCreate(user, fileSize, chunkSize)
  BY <1>6, <1>10 DEF CrashInCreate
<1>11. CASE \E id \in UploadIds, user \in Users : \E chunk \in ChunkNumbers(id) :
              \E len \in BodyLengths(FindSession(id), chunk) : CrashInSaveChunk(id, user, chunk, len)
  BY <1>6, <1>11 DEF CrashInSaveChunk
<1> QED
  BY <1>1, <1>2, <1>3, <1>4, <1>5, <1>7, <1>8, <1>9, <1>10, <1>11 DEF Next

-----------------------------------------------------------------------------
(* The record on disk *)

NotAhead(i) ==
  sessions[i] # NoSession /\ IsRecord(meta[i]) =>
    /\ IsPrefix(meta[i].uploadedChunks, sessions[i].uploadedChunks)
    /\ meta[i] = [sessions[i] EXCEPT !.uploadedChunks = meta[i].uploadedChunks]

LEMMA RecordsAndSessions ==
  ASSUME TypeOK, NEW i \in UploadIds
  PROVE  /\ sessions[i] # NoSession => sessions[i] \in Session
         /\ IsRecord(meta[i]) => meta[i] \in Session
         /\ FindSession(i) # NoSession =>
              \/ sessions[i] # NoSession /\ FindSession(i) = sessions[i]
              \/ sessions[i] = NoSession /\ IsRecord(meta[i]) /\ FindSession(i) = meta[i]
BY DEF TypeOK, SessionOr, IsRecord, FindSession, LoadSessionFromMeta

LEMMA NotAheadStep ==
  ASSUME TypeOK, FreshIdsUnused, [Next]_vars, NEW i \in UploadIds, NotAhead(i)
  PROVE  NotAhead(i)'
<1> DEFINE s == FindSession(i)
<1>0. NoSession \notin Session /\ NoFile \notin Session /\ Torn \notin Session
  BY NullsAssumption
<1>1. \A r \in Session : /\ r.uploadedChunks \in Seq(Nat) /\ IsPrefix(r.uploadedChunks, r.uploadedChunks)
                         /\ r = [r EXCEPT !.uploadedChunks = r.uploadedChunks]
  <2>1. \A r \in Session : r.uploadedChunks \in Seq(Nat) /\ r = [r EXCEPT !.uploadedChunks = r.uploadedChunks]
    BY DEF Session
  <2> QED
    BY <2>1, PrefixByIndex
<1>2. CASE Loses(i)
  BY <1>2 DEF Loses, NotAhead, IsRecord
<1>3. CASE Begins(i)
  BY <1>0, <1>1, <1>3 DEF Begins, NotAhead, IsRecord
<1>4. s # NoSession /\ IsRecord(meta[i]) =>
        /\ IsPrefix(meta[i].uploadedChunks, s.uploadedChunks)
        /\ meta[i] = [s EXCEPT !.uploadedChunks = meta[i].uploadedChunks]
  BY <1>1, RecordsAndSessions DEF NotAhead
<1>5. CASE Finds(i)
  BY <1>0, <1>4, <1>5 DEF Finds, NotAhead, IsRecord
<1>6. CASE Grows(i)
  <2>1. PICK chunk \in Nat :
          /\ sessions'[i] = WithChunk(s, chunk)
          /\ meta'[i] \in {sessions'[i]} \cup (IF "meta" \in Faults THEN {meta[i], Torn} ELSE {})
    BY <1>6 DEF Grows
  <2>2. s \in Session
    BY <1>6 DEF Grows
  <2>3. WithChunk(s, chunk) \in Session /\ WithChunk(s, chunk).uploadedChunks = Append(s.uploadedChunks, chunk)
    BY <2>2, WithChunkType DEF WithChunk, Session
  <2>4. \A c : [WithChunk(s, chunk) EXCEPT !.uploadedChunks = c] = [s EXCEPT !.uploadedChunks = c]
    BY <2>2 DEF WithChunk, Session
  <2> HIDE DEF s
  <2>5. CASE meta'[i] = sessions'[i]
    BY <1>1, <2>1, <2>3, <2>5 DEF NotAhead
  <2>6. CASE meta'[i] = meta[i] /\ IsRecord(meta[i])
    <3>1. /\ IsPrefix(meta[i].uploadedChunks, s.uploadedChunks)
          /\ meta[i] = [s EXCEPT !.uploadedChunks = meta[i].uploadedChunks]
      BY <1>0, <1>4, <2>2, <2>6
    <3>2. meta[i].uploadedChunks \in Seq(Nat) /\ s.uploadedChunks \in Seq(Nat)
      BY <1>1, <2>2, <2>6, RecordsAndSessions
    <3>3. IsPrefix(meta[i].uploadedChunks, Append(s.uploadedChunks, chunk))
      BY <3>1, <3>2, PrefixFacts
    <3>4. meta'[i] = [sessions'[i] EXCEPT !.uploadedChunks = meta[i].uploadedChunks]
      BY <2>1, <2>4, <2>6, <3>1
    <3> QED
      BY <2>1, <2>3, <2>6, <3>3, <3>4 DEF NotAhead
  <2>7. CASE ~IsRecord(meta'[i])
    BY <2>7 DEF NotAhead, IsRecord
  <2> QED
    BY <2>1, <2>5, <2>6, <2>7 DEF IsRecord
<1> QED
  BY <1>2, <1>3, <1>5, <1>6, LifeStep

RecordInv == TypeOK /\ FreshIdsUnused /\ \A i \in UploadIds : NotAhead(i)

LEMMA FreshInit == Init => TypeOK /\ FreshIdsUnused
BY SizesAssumption DEF Init, TypeOK, SessionOr, FreshIdsUnused

\* The .meta on disk is never ahead of memory: whatever is read back after a crash is
\* the same upload with a prefix of its chunks, however often saving it failed.
THEOREM UploadRecordNotAhead == Spec => []RecordNotAhead
<1>1. Init => RecordInv
  BY FreshInit DEF Init, RecordInv, NotAhead
<1>2. RecordInv /\ [Next]_vars => RecordInv'
  <2> SUFFICES ASSUME RecordInv, [Next]_vars PROVE RecordInv'
    OBVIOUS
  <2>1. TypeOK' /\ FreshIdsUnused'
    BY TypeStep, FreshIdsStep DEF RecordInv
  <2>2. \A i \in UploadIds : NotAhead(i)'
    BY NotAheadStep DEF RecordInv
  <2> QED
    BY <2>1, <2>2 DEF RecordInv
<1>3. RecordInv => RecordNotAhead
  BY DEF RecordInv, NotAhead, RecordNotAhead, IsRecord
<1> QED
  BY <1>1, <1>2, <1>3, PTL DEF Spec

\* If saving the .meta does not fail, it says what the session says ...
Same(i) == sessions[i] # NoSession /\ IsRecord(meta[i]) => meta[i] = sessions[i]

\* ... and is there as long as the upload can go on.
Kept(i) == sessions[i] # NoSession /\ temp[i] # NoFile /\ age[i] = "live" => IsRecord(meta[i])

LEMMA SameStep ==
  ASSUME "meta" \notin Faults, TypeOK, FreshIdsUnused, [Next]_vars, NEW i \in UploadIds, Same(i)
  PROVE  Same(i)' /\ (Kept(i) => Kept(i)')
<1>1. NoSession \notin Session /\ NoFile \notin Session /\ Torn \notin Session
  BY NullsAssumption
<1>2. CASE Loses(i)
  BY <1>2 DEF Loses, Same, Kept, IsRecord
<1>3. CASE Begins(i)
  BY <1>1, <1>3 DEF Begins, Same, Kept, IsRecord
<1>4. CASE Finds(i)
  BY <1>1, <1>4, RecordsAndSessions DEF Finds, Same, Kept, IsRecord
<1>5. CASE Grows(i)
  <2>1. meta'[i] = sessions'[i] /\ sessions'[i] \in Session
    BY <1>5, WithChunkType DEF Grows
  <2> QED
    BY <1>1, <2>1 DEF Same, Kept, IsRecord
<1> QED
  BY <1>2, <1>3, <1>4, <1>5, LifeStep

ResumeInv == TypeOK /\ FreshIdsUnused /\ \A i \in UploadIds : Same(i) /\ Kept(i)

\* If saving a .meta does not fail, an upload in one of the configured directories
\* can be resumed after a restart with every chunk recorded, whatever else fails.
THEOREM UploadResumable ==
  ASSUME "meta" \notin Faults, SubDirs \subseteq TopDirs
  PROVE  Spec => []Resumable
<1>1. Init => ResumeInv
  BY FreshInit DEF Init, ResumeInv, Same, Kept
<1>2. ResumeInv /\ [Next]_vars => ResumeInv'
  <2> SUFFICES ASSUME ResumeInv, [Next]_vars PROVE ResumeInv'
    OBVIOUS
  <2>1. TypeOK' /\ FreshIdsUnused'
    BY TypeStep, FreshIdsStep DEF ResumeInv
  <2>2. \A i \in UploadIds : Same(i)' /\ Kept(i)'
    BY SameStep DEF ResumeInv
  <2> QED
    BY <2>1, <2>2 DEF ResumeInv
<1>3. ResumeInv => Resumable
  <2> SUFFICES ASSUME ResumeInv, NEW id \in Live, sessions[id] # NoSession, temp[id] # NoFile
               PROVE  LoadSessionFromMeta(id) = sessions[id]
    BY DEF Resumable
  <2>1. id \in UploadIds /\ age[id] = "live"
    BY DEF Live
  <2>2. IsRecord(meta[id]) /\ meta[id] = sessions[id]
    BY <2>1 DEF ResumeInv, Same, Kept
  <2>3. meta[id].directory \in TopDirs
    BY <2>1, <2>2, RecordsAndSessions DEF ResumeInv, Session, Directories
  <2> QED
    BY <2>2, <2>3 DEF LoadSessionFromMeta, IsRecord
<1> QED
  BY <1>1, <1>2, <1>3, PTL DEF Spec

-----------------------------------------------------------------------------
(* The promise *)

\* The chunks of a session are chunks of the upload, each listed once.
Listed(s) ==
  /\ \A j, k \in DOMAIN s.uploadedChunks : s.uploadedChunks[j] = s.uploadedChunks[k] => j = k
  /\ ToSet(s.uploadedChunks) \subseteq 0..(s.totalChunks - 1)

BothListed(i) ==
  /\ sessions[i] # NoSession => Listed(sessions[i])
  /\ IsRecord(meta[i]) => Listed(meta[i])

LEMMA AppendListed ==
  ASSUME NEW s \in Session, Listed(s), NEW chunk \in Nat, chunk < s.totalChunks,
         chunk \notin ToSet(s.uploadedChunks)
  PROVE  /\ Listed(WithChunk(s, chunk))
         /\ ToSet(WithChunk(s, chunk).uploadedChunks) = ToSet(s.uploadedChunks) \cup {chunk}
<1> DEFINE list == s.uploadedChunks  longer == Append(list, chunk)
<1>1. list \in Seq(Nat) /\ s.totalChunks \in Nat
  BY DEF Session
<1>2. WithChunk(s, chunk).uploadedChunks = longer /\ WithChunk(s, chunk).totalChunks = s.totalChunks
  BY DEF WithChunk, Session
<1>3. /\ \A j, k \in DOMAIN list : list[j] = list[k] => j = k
      /\ ToSet(list) \subseteq 0..(s.totalChunks - 1) /\ \A j \in DOMAIN list : list[j] # chunk
  BY DEF Listed, ToSet
<1> HIDE DEF list
<1>4. /\ DOMAIN list = 1..Len(list) /\ Len(list) \in Nat /\ DOMAIN longer = 1..(Len(list) + 1)
      /\ \A j \in DOMAIN list : longer[j] = list[j]
      /\ longer[Len(list) + 1] = chunk
  BY <1>1
<1> HIDE DEF longer
<1>5. ToSet(longer) = ToSet(list) \cup {chunk}
  BY <1>4 DEF ToSet
<1>6. \A j, k \in DOMAIN longer : longer[j] = longer[k] => j = k
  BY <1>3, <1>4
<1>7. ToSet(longer) \subseteq 0..(s.totalChunks - 1)
  BY <1>1, <1>3, <1>5
<1> QED
  BY <1>2, <1>5, <1>6, <1>7 DEF Listed, list

LEMMA ListedStep ==
  ASSUME TypeOK, FreshIdsUnused, [Next]_vars, NEW i \in UploadIds, BothListed(i)
  PROVE  BothListed(i)'
<1>1. NoSession \notin Session /\ NoFile \notin Session /\ Torn \notin Session
  BY NullsAssumption
<1>2. CASE Loses(i)
  BY <1>2 DEF Loses, BothListed, IsRecord
<1>3. CASE Begins(i)
  <2>1. Listed(sessions'[i])
    BY <1>3 DEF Begins, Listed, ToSet
  <2> QED
    BY <1>3, <2>1 DEF Begins, BothListed, IsRecord
<1>4. FindSession(i) # NoSession => Listed(FindSession(i))
  BY RecordsAndSessions DEF BothListed
<1>5. CASE Finds(i)
  BY <1>1, <1>4, <1>5 DEF Finds, BothListed, IsRecord
<1>6. CASE Grows(i)
  <2>1. Listed(sessions'[i])
    BY <1>1, <1>4, <1>6, AppendListed DEF Grows
  <2> QED
    BY <1>6, <2>1 DEF Grows, BothListed, IsRecord
<1> QED
  BY <1>2, <1>3, <1>5, <1>6, LifeStep

\* What the lookup finds after a step.
Loads(m) == IF IsRecord(m) /\ m.directory \in TopDirs THEN m ELSE NoSession

LEMMA FoundNext ==
  ASSUME NEW i \in UploadIds
  PROVE  /\ FindSession(i) = IF sessions[i] # NoSession THEN sessions[i] ELSE Loads(meta[i])
         /\ FindSession(i)' = IF sessions'[i] # NoSession THEN sessions'[i] ELSE Loads(meta'[i])
BY DEF FindSession, LoadSessionFromMeta, Loads, IsRecord

\* An upload ID in use stays in use.
LEMMA AgeStep ==
  ASSUME TypeOK, [Next]_vars, NEW i \in UploadIds, age[i] # "unused"
  PROVE  age'[i] # "unused"
<1> USE DEF TypeOK
<1>1. CASE Cleanup
  BY <1>1 DEF Cleanup, PassExpiry
<1>2. CASE \E id \in UploadIds : Expire(id)
  BY <1>2 DEF Expire
<1>3. CASE \E user \in Users, name \in Filenames, dir \in Directories,
              fileSize \in FileSizes, chunkSize \in ChunkSizes :
                InitChunkUpload(user, name, dir, fileSize, chunkSize)
  BY <1>3 DEF InitChunkUpload
<1>4. CASE \E user \in Users, fileSize \in FileSizes, chunkSize \in ChunkSizes :
             CrashInCreate(user, fileSize, chunkSize)
  BY <1>4 DEF CrashInCreate
<1> QED
  BY <1>1, <1>2, <1>3, <1>4
  DEF Next, SaveChunk, CompleteUpload, CancelUpload, Restart, CrashInSaveChunk, CrashInComplete,
      CrashInCancel, CrashInCleanup, vars

PromiseInv ==
  /\ TypeOK /\ FreshIdsUnused
  /\ \A i \in UploadIds : NotAhead(i) /\ BothListed(i) /\ ("meta" \notin Faults => Same(i))

\* One upload, in one step.
Moves(i) ==
  \/ ClientView(i)' = ClientView(i)
  \/ Promise!Opens(ClientView(i), ClientView(i)')
  \/ Promise!Receives(ClientView(i), ClientView(i)')
  \/ Promise!Forgets(ClientView(i), ClientView(i)')
  \/ Promise!Publishes(ClientView(i), ClientView(i)')
  \/ Promise!Closes(ClientView(i), ClientView(i)')

\* What the client sees while nothing is published, and afterwards.
Unopened == [status |-> "none", expected |-> 0, received |-> {}]
ClosedView == [status |-> "closed", expected |-> 0, received |-> {}]
PublishedView == [status |-> "published", expected |-> 0, received |-> {}]
OpenView(s) == [status |-> "open", expected |-> s.totalChunks, received |-> ToSet(s.uploadedChunks)]

LEMMA Views ==
  ASSUME NEW i \in UploadIds
  PROVE  /\ finals[i] # <<>> => ClientView(i) = PublishedView
         /\ finals[i] = <<>> => ClientView(i) = IF age[i] = "unused" THEN Unopened
                                                ELSE IF FindSession(i) = NoSession THEN ClosedView
                                                ELSE OpenView(FindSession(i))
BY DEF ClientView, Unopened, ClosedView, PublishedView, OpenView

LEMMA ViewsNext ==
  ASSUME NEW i \in UploadIds
  PROVE  /\ finals'[i] # <<>> => ClientView(i)' = PublishedView
         /\ finals'[i] = <<>> => ClientView(i)' = IF age'[i] = "unused" THEN Unopened
                                                  ELSE IF FindSession(i)' = NoSession THEN ClosedView
                                                  ELSE OpenView(FindSession(i)')
BY DEF ClientView, Unopened, ClosedView, PublishedView, OpenView

LEMMA PromiseSteps ==
  /\ \A s : s.totalChunks \in Nat \ {0} /\ s.uploadedChunks = <<>> => Promise!Opens(Unopened, OpenView(s))
  /\ \A s, r : \A chunk \in 0..(s.totalChunks - 1) :
       /\ chunk \notin ToSet(s.uploadedChunks) /\ r.totalChunks = s.totalChunks
       /\ ToSet(r.uploadedChunks) = ToSet(s.uploadedChunks) \cup {chunk}
       => Promise!Receives(OpenView(s), OpenView(r))
  /\ \A s, r : /\ "meta" \in Faults /\ r.totalChunks = s.totalChunks
               /\ ToSet(r.uploadedChunks) \subseteq ToSet(s.uploadedChunks)
               => Promise!Forgets(OpenView(s), OpenView(r))
  /\ \A s : ToSet(s.uploadedChunks) = 0..(s.totalChunks - 1) => Promise!Publishes(OpenView(s), PublishedView)
  /\ \A s : Promise!Closes(OpenView(s), ClosedView)
  /\ Promise!Closes(Unopened, ClosedView)
<1>1. Promise!Fresh = Unopened
  BY DEF Promise!Fresh, Unopened
<1>2. [Unopened EXCEPT !.status = "closed"] = ClosedView
      /\ [Unopened EXCEPT !.status = "published"] = PublishedView
  BY DEF Unopened, ClosedView, PublishedView
<1>3. \A s : /\ OpenView(s).status = "open" /\ OpenView(s).expected = s.totalChunks
             /\ OpenView(s).received = ToSet(s.uploadedChunks)
  BY DEF OpenView
<1>4. ToSet(<<>>) = {}
  BY DEF ToSet
<1>5. \A s : s.totalChunks \in Nat \ {0} /\ s.uploadedChunks = <<>> => Promise!Opens(Unopened, OpenView(s))
  BY <1>1, <1>3, <1>4 DEF Promise!Opens, Promise!IsOpen
<1>6. ASSUME NEW s, NEW r, NEW chunk \in 0..(s.totalChunks - 1),
             chunk \notin ToSet(s.uploadedChunks), r.totalChunks = s.totalChunks,
             ToSet(r.uploadedChunks) = ToSet(s.uploadedChunks) \cup {chunk}
      PROVE  Promise!Receives(OpenView(s), OpenView(r))
  BY <1>3, <1>6 DEF Promise!Receives, Promise!IsOpen
<1>7. \A s : ToSet(s.uploadedChunks) = 0..(s.totalChunks - 1) => Promise!Publishes(OpenView(s), PublishedView)
  BY <1>1, <1>2, <1>3 DEF Promise!Publishes, Promise!IsOpen
<1>8. /\ \A s : Promise!Closes(OpenView(s), ClosedView)
      /\ Promise!Closes(Unopened, ClosedView)
  BY <1>1, <1>2, <1>3 DEF Promise!Closes, Promise!IsOpen
<1>9. ASSUME NEW s, NEW r, "meta" \in Faults, r.totalChunks = s.totalChunks,
             ToSet(r.uploadedChunks) \subseteq ToSet(s.uploadedChunks)
      PROVE  Promise!Forgets(OpenView(s), OpenView(r))
  BY <1>3, <1>9 DEF Promise!Forgets, Promise!IsOpen
<1> QED
  BY <1>5, <1>6, <1>7, <1>8, <1>9

\* What is read back from a .meta is the upload, with some of its chunks.
LEMMA SetBack ==
  ASSUME TypeOK, NEW i \in UploadIds, NotAhead(i), sessions[i] # NoSession, IsRecord(meta[i])
  PROVE  /\ meta[i].totalChunks = sessions[i].totalChunks
         /\ ToSet(meta[i].uploadedChunks) \subseteq ToSet(sessions[i].uploadedChunks)
<1>1. sessions[i] \in Session /\ meta[i] \in Session
  BY RecordsAndSessions
<1> DEFINE old == meta[i].uploadedChunks  new == sessions[i].uploadedChunks
<1>2. old \in Seq(Nat) /\ new \in Seq(Nat) /\ IsPrefix(old, new)
  BY <1>1 DEF Session, NotAhead
<1>3. meta[i].totalChunks = sessions[i].totalChunks
  BY <1>1 DEF Session, NotAhead
<1> HIDE DEF old, new
<1>4. Len(old) <= Len(new) /\ \A j \in 1..Len(old) : old[j] = new[j]
  BY <1>2, PrefixByIndex
<1>5. ToSet(old) \subseteq ToSet(new)
  BY <1>2, <1>4 DEF ToSet
<1> QED
  BY <1>3, <1>5 DEF old, new

\* Nothing is published by the step, and the upload was in use before it.
LEMMA OpenMoves ==
  ASSUME PromiseInv, [Next]_vars, NEW i \in UploadIds,
         finals[i] = <<>>, finals'[i] = <<>>, age[i] # "unused"
  PROVE  Moves(i)
<1> USE DEF PromiseInv
<1>0. NoSession \notin Session /\ NoFile \notin Session /\ Torn \notin Session
  BY NullsAssumption
<1>1. age'[i] # "unused"
  BY AgeStep
<1>2. CASE Loses(i)
  <2>1. CASE FindSession(i)' \in {FindSession(i), NoSession}
    BY <1>1, <2>1, Views, ViewsNext, PromiseSteps DEF Moves
  <2>2. CASE FindSession(i)' \notin {FindSession(i), NoSession}
    <3>1. /\ sessions[i] # NoSession /\ IsRecord(meta[i])
          /\ FindSession(i) = sessions[i] /\ FindSession(i)' = meta[i]
      BY <1>2, <2>2, FoundNext DEF Loses, Loads, IsRecord
    <3>2. "meta" \in Faults
      BY <2>2, <3>1 DEF Same
    <3>3. Promise!Forgets(OpenView(sessions[i]), OpenView(meta[i]))
      BY <3>1, <3>2, SetBack, PromiseSteps
    <3> QED
      BY <1>1, <2>2, <3>1, <3>3, Views, ViewsNext DEF Moves
  <2> QED
    BY <2>1, <2>2
<1>3. CASE Finds(i)
  <2>1. FindSession(i)' = FindSession(i)
    BY <1>0, <1>3, FoundNext DEF Finds
  <2> QED
    BY <1>1, <2>1, Views, ViewsNext DEF Moves
<1>4. CASE Grows(i)
  <2> DEFINE s == FindSession(i)
  <2>1. PICK chunk \in Nat :
          /\ chunk < s.totalChunks /\ chunk \notin ToSet(s.uploadedChunks)
          /\ sessions'[i] = WithChunk(s, chunk)
    BY <1>4 DEF Grows
  <2>2. s \in Session /\ s # NoSession /\ Listed(s)
    BY <1>0, <1>4, RecordsAndSessions DEF Grows, BothListed
  <2>3. /\ WithChunk(s, chunk) \in Session /\ WithChunk(s, chunk).totalChunks = s.totalChunks
        /\ ToSet(WithChunk(s, chunk).uploadedChunks) = ToSet(s.uploadedChunks) \cup {chunk}
    BY <2>1, <2>2, WithChunkType, AppendListed DEF WithChunk, Session
  <2>4. FindSession(i)' = WithChunk(s, chunk)
    BY <1>0, <2>1, <2>3, FoundNext
  <2>5. chunk \in 0..(s.totalChunks - 1)
    BY <2>1, <2>2 DEF Session
  <2>6. Promise!Receives(OpenView(s), OpenView(WithChunk(s, chunk)))
    BY <2>1, <2>3, <2>5, PromiseSteps
  <2>7. ClientView(i) = OpenView(s)
    BY <2>2, Views
  <2>8. ClientView(i)' = OpenView(WithChunk(s, chunk))
    BY <1>0, <1>1, <2>3, <2>4, ViewsNext
  <2> QED
    BY <2>6, <2>7, <2>8 DEF Moves
<1> QED
  BY <1>2, <1>3, <1>4, LifeStep DEF Begins

\* The upload was not in use before the step.
LEMMA FreshMoves ==
  ASSUME PromiseInv, PromiseInv', [Next]_vars, NEW i \in UploadIds,
         finals'[i] = <<>>, age[i] = "unused"
  PROVE  Moves(i)
<1> USE DEF PromiseInv
<1>0. NoSession \notin Session
  BY NullsAssumption
<1>1. finals[i] = <<>> /\ sessions[i] = NoSession /\ meta[i] = NoFile
  BY DEF FreshIdsUnused
<1>2. ClientView(i) = Unopened
  BY <1>1, Views
<1>3. FindSession(i) = NoSession
  BY <1>1, FoundNext DEF Loads, IsRecord
<1>4. CASE age'[i] = "unused"
  BY <1>2, <1>4, ViewsNext DEF Moves
<1>5. CASE age'[i] # "unused" /\ Loses(i)
  <2>1. FindSession(i)' = NoSession
    BY <1>1, <1>5, FoundNext DEF Loses, Loads, IsRecord
  <2> QED
    BY <1>2, <1>5, <2>1, ViewsNext, PromiseSteps DEF Moves
<1>6. CASE age'[i] # "unused" /\ Begins(i)
  <2>1. /\ FindSession(i)' = sessions'[i] /\ sessions'[i] # NoSession
        /\ sessions'[i].totalChunks \in Nat \ {0} /\ sessions'[i].uploadedChunks = <<>>
    BY <1>0, <1>6, FoundNext DEF Begins, Session
  <2>2. Promise!Opens(Unopened, OpenView(sessions'[i]))
    BY <2>1, PromiseSteps
  <2>3. ClientView(i)' = OpenView(sessions'[i])
    BY <1>6, <2>1, ViewsNext
  <2> QED
    BY <1>2, <2>2, <2>3 DEF Moves
<1> QED
  BY <1>0, <1>3, <1>4, <1>5, <1>6, LifeStep DEF Finds, Grows

\* The upload is published by the step.
LEMMA PublishMoves ==
  ASSUME PromiseInv, [Next]_vars, NEW i \in UploadIds, finals[i] = <<>>, finals'[i] # <<>>
  PROVE  Moves(i)
<1> USE DEF PromiseInv
<1>1. /\ FindSession(i) \in Session
      /\ Len(FindSession(i).uploadedChunks) = FindSession(i).totalChunks
  BY FinalsStep DEF SweepFinals, Publish, TypeOK
<1> DEFINE s == FindSession(i)
<1>2. s # NoSession /\ age[i] # "unused" /\ Listed(s)
  BY <1>1, NullsAssumption, FoundIsNotFresh, RecordsAndSessions DEF BothListed
<1>3. ToSet(s.uploadedChunks) = 0..(s.totalChunks - 1)
  <2>1. s.uploadedChunks \in Seq(Nat) /\ s.totalChunks \in Nat
    BY <1>1 DEF Session
  <2> QED
    BY <1>1, <1>2, <2>1, AllChunksListed DEF Listed
<1>4. ClientView(i) = OpenView(s) /\ ClientView(i)' = PublishedView
  BY <1>2, Views, ViewsNext
<1> QED
  BY <1>3, <1>4, PromiseSteps DEF Moves

LEMMA PromiseStep ==
  ASSUME Filenames \cap MetaNames = {}, PromiseInv, [Next]_vars
  PROVE  PromiseInv' /\ Promise!Next
<1>1. TypeOK' /\ FreshIdsUnused'
  BY TypeStep, FreshIdsStep DEF PromiseInv
<1>2. \A i \in UploadIds : NotAhead(i)' /\ BothListed(i)' /\ ("meta" \notin Faults => Same(i)')
  BY NotAheadStep, ListedStep, SameStep DEF PromiseInv
<1>3. PromiseInv'
  BY <1>1, <1>2 DEF PromiseInv
<1>4. ASSUME NEW i \in UploadIds
      PROVE  Moves(i)
  <2>1. CASE finals[i] # <<>>
    <3>1. finals'[i] # <<>>
      <4>1. IsPrefix(finals[i], finals'[i]) /\ finals[i] \in Seq(Published) /\ finals'[i] \in Seq(Published)
        BY <1>1, StaysStep DEF PromiseInv, TypeOK
      <4>2. Len(finals[i]) <= Len(finals'[i]) /\ Len(finals[i]) > 0
        BY <2>1, <4>1, PrefixByIndex
      <4> QED
        BY <4>1, <4>2
    <3> QED
      BY <2>1, <3>1, Views, ViewsNext DEF Moves
  <2>2. CASE finals[i] = <<>> /\ finals'[i] # <<>>
    BY <2>2, PublishMoves
  <2>3. CASE finals[i] = <<>> /\ finals'[i] = <<>>
    BY <1>3, <2>3, FreshMoves, OpenMoves
  <2> QED
    BY <2>1, <2>2, <2>3
<1>5. Promise!Next
  BY <1>4 DEF Promise!Next, Moves
<1> QED
  BY <1>3, <1>5

\* Chunked uploads implement UploadPromise, for any number of uploads and users and
\* wherever the process dies or an os call fails, provided no upload is named like
\* a .meta: an upload is published only with all of its chunks, and never comes
\* back; an open one is set back only by a restart, to chunks it had, and only
\* if saving its .meta may fail.
THEOREM UploadKeepsPromise ==
  ASSUME Filenames \cap MetaNames = {}
  PROVE  Spec => KeepsPromise
<1>1. Init => PromiseInv
  BY FreshInit DEF Init, PromiseInv, Same, NotAhead, BothListed, IsRecord
<1>2. Init => Promise!Init
  <2> SUFFICES ASSUME Init PROVE Promise!Init
    OBVIOUS
  <2>1. \A i \in UploadIds : ClientView(i) = Promise!Fresh
    BY Views DEF Init, Unopened, Promise!Fresh
  <2> QED
    BY <2>1 DEF Promise!Init
<1>3. PromiseInv /\ [Next]_vars => PromiseInv' /\ [Promise!Next]_([id \in UploadIds |-> ClientView(id)])
  BY PromiseStep
<1> QED
  BY <1>1, <1>2, <1>3, PTL DEF Spec, KeepsPromise, Promise!Spec
=============================================================================
