------------------------- MODULE FileServerProofs -------------------------
(***************************************************************************)
(* Theorems about FileServer, for every value of its constants.            *)
(***************************************************************************)
EXTENDS FileServer, PermissionProofs

-----------------------------------------------------------------------------
(* Type correctness *)

LEMMA MinOfSet ==
  ASSUME NEW S \in SUBSET Nat, S # {}
  PROVE  Min(S) \in S /\ \A n \in S : Min(S) <= n
BY LeastExists DEF Min

LEMMA MinOfTwo ==
  ASSUME NEW a \in Int, NEW b \in Int
  PROVE  Min({a, b}) = IF a <= b THEN a ELSE b
BY DEF Min

LEMMA HomeType ==
  ASSUME NEW user \in Users
  PROVE  Home(user) \in Paths /\ <<"user">> \in Paths
<1>1. DirName[user] \in Names /\ "user" \in Names
  BY NamesAssumption
<1>2. <<"user", DirName[user]>> \in Seq(Names) /\ <<"user", DirName[user]>> # <<>>
  BY <1>1
<1>3. <<"user">> \in Seq(Names) /\ <<"user">> # <<>>
  BY <1>1
<1> QED
  BY <1>2, <1>3 DEF Home, Paths

\* What a process loads is a configuration.
LEMMA LoadedType ==
  ASSUME NEW content \in {Absent, Unparsable} \cup Config, NEW e \in Environment,
         content # Absent, Loads(content, e)
  PROVE  Loaded(content, e) \in Config
<1> DEFINE d == ApplyDefaults(content)
<1>1. content \in Config
  BY DEF Loads
<1>2. d \in Config
  <2> DEFINE numbers == [s \in Settings |-> IF content.numbers[s] <= 0 THEN Default[s] ELSE content.numbers[s]]
  <2>1. numbers \in [Settings -> Int]
    BY <1>1, ConfigAssumption DEF Config
  <2>2. d = [content EXCEPT !.numbers = numbers]
    BY DEF ApplyDefaults
  <2> HIDE DEF d, numbers
  <2> QED
    BY <1>1, <2>1, <2>2 DEF Config
<1>3. \A s \in Settings : e.numbers[s] # Unset => e.numbers[s] \in Int
  BY DEF Loads, EnvReads, Environment
<1>4. e.admin \in Roles \cup {Unset} /\ {s \in Secrets : e.secrets[s] = "given"} \subseteq Fields
  BY DEF Environment, Secrets, Fields, RequiredFields
<1> HIDE DEF d
<1>5. ApplyEnvOverrides(d, e) \in Config
  BY <1>2, <1>3, <1>4 DEF ApplyEnvOverrides, Config
<1> QED
  BY <1>5 DEF Loaded, d

\* The part of TypeOK about the process, about files and about requests.
BootOK ==
  /\ file \in {Absent, Unparsable} \cup Config
  /\ phase \in {"down", "starting", "template", "loaded", "ready", "serving"}
  /\ env \in {NoEnv} \cup Environment /\ (env = NoEnv) = (phase = "down")
  /\ cfg \in {NoConfig} \cup Config
  /\ (cfg = NoConfig) = (phase \in {"down", "starting", "template"})

DataOK ==
  /\ disk \subseteq Paths
  /\ store \in [Files -> [dir : Seq(Names), size : 0..MaxSize,
                          state : {"none", "writing", "cut", "whole"}, linked : BOOLEAN]]
  /\ rows \in [Files -> {NoRow, NoHash} \cup 0..MaxSize]

Fits(q) ==
  /\ q \in Request
  /\ q.op = "none" \/ (q.user \in Users /\ q.dir \in RequestDirs)
  /\ \/ q.step \in {"idle", "allowed", "ensured"} \/ q.file \in Files
     \/ q.op \in {"download", "delete"} /\ q.step \in {"found", "opened", "reply"}

ReqOK == req \in [Requests -> Request] /\ \A r \in Requests : Fits(req[r])

LEMMA TypeParts ==
  /\ TypeOK <=> BootOK /\ DataOK /\ ReqOK
  /\ TypeOK' <=> BootOK' /\ DataOK' /\ ReqOK'
BY DEF TypeOK, BootOK, DataOK, ReqOK, Fits

LEMMA IdleFits == Fits(Idle) /\ Idle.op = "none"
<1>1. Idle \in Request
  BY FileServerAssumption DEF Idle, Request
<1>2. Idle.op = "none" /\ Idle.step = "idle"
  BY DEF Idle
<1>3. Idle.step \in {"idle", "allowed", "ensured"}
  BY <1>2
<1> QED
  BY <1>1, <1>2, <1>3, Zenon DEF Fits

LEMMA InitType == Init => TypeOK
<1> SUFFICES ASSUME Init PROVE TypeOK
  OBVIOUS
<1>2. BootOK
  BY FileServerAssumption DEF Init, BootOK
<1>3. DataOK
  BY FileServerAssumption DEF Init, DataOK
<1>4. ReqOK
  <2>1. Idle \in Request
    BY IdleFits DEF Fits
  <2> QED
    BY <2>1, IdleFits DEF Init, ReqOK
<1> QED
  BY <1>2, <1>3, <1>4, TypeParts

\* A request takes a value that fits.
LEMMA PutType ==
  ASSUME ReqOK, NEW r \in Requests, NEW q, Fits(q), req' = [req EXCEPT ![r] = q]
  PROVE  ReqOK'
BY DEF ReqOK, Fits


LEMMA EndsType ==
  ASSUME ReqOK, NEW r \in Requests, Ends(r)
  PROVE  ReqOK'
BY IdleFits, PutType DEF Ends

LEMMA GoesToType ==
  ASSUME ReqOK, NEW r \in Requests, NEW step, GoesTo(r, step),
         step \in {"allowed", "ensured", "removing", "hashing", "opened"},
         step \in {"allowed", "ensured"} \/ req[r].file \in Files
  PROVE  ReqOK'
<1> DEFINE q == [req[r] EXCEPT !.step = step]
<1>1. Fits(q)
  <2>1. req[r] \in Request /\ Fits(req[r])
    BY DEF ReqOK
  <2> QED
    BY <2>1 DEF Fits, Request
<1> HIDE DEF q
<1>2. req' = [req EXCEPT ![r] = q]
  BY DEF GoesTo, q
<1> QED
  BY <1>1, <1>2, PutType

\* What an action that leaves a part alone keeps.
LEMMA Kept ==
  /\ BootOK /\ UNCHANGED <<file, phase, env, cfg>> => BootOK'
  /\ DataOK /\ UNCHANGED <<disk, store, rows>> => DataOK'
  /\ ReqOK /\ UNCHANGED req => ReqOK'
BY DEF BootOK, DataOK, ReqOK

LEMMA BootType ==
  ASSUME TypeOK, Boot
  PROVE  TypeOK'
<1> USE TypeParts, Kept DEF boot, data
<1>1. CASE \E e \in Environments : Start(e)
  BY <1>1, FileServerAssumption DEF Start, BootOK
<1>2. CASE CreateDefaultConfig \/ WriteDefaultConfig
  <2>1. Empty \in Config
    BY DEF Empty, Config
  <2>2. Template \in {Unparsable} \cup Config
    BY FileServerAssumption
  <2>3. BootOK'
    BY <1>2, <2>1, <2>2 DEF CreateDefaultConfig, WriteDefaultConfig, BootOK
  <2> QED
    BY <1>2, <2>3 DEF CreateDefaultConfig, WriteDefaultConfig
<1>3. CASE LoadConfig
  <2>1. env \in Environment
    BY <1>3 DEF LoadConfig, BootOK
  <2>2. Loaded(file, env) \in Config
    BY <1>3, <2>1, LoadedType DEF LoadConfig, BootOK
  <2>3. BootOK'
    BY <1>3, <2>2, FileServerAssumption DEF LoadConfig, BootOK
  <2> QED
    BY <1>3, <2>3 DEF LoadConfig
<1>4. CASE MakeDirectory
  <2> DEFINE missing == {i \in DOMAIN cfg.dirs : cfg.dirs[i].path \notin disk}
             path == cfg.dirs[Min(missing)].path
  <2>1. cfg \in Config
    BY <1>4 DEF MakeDirectory, BootOK
  <2>2. cfg.dirs \in Seq(DirectoryConfig) /\ missing \in SUBSET Nat
    BY <2>1 DEF Config
  <2>3. missing # {} => path \in Seq(Names)
    <3>1. missing # {} => Min(missing) \in DOMAIN cfg.dirs
      BY <2>2, MinOfSet
    <3>2. \A i \in DOMAIN cfg.dirs : cfg.dirs[i] \in DirectoryConfig
      BY <2>2
    <3> QED
      BY <3>1, <3>2 DEF DirectoryConfig
  <2>4. BootOK'
    BY <1>4 DEF MakeDirectory, BootOK
  <2>5. DataOK'
    <3>1. disk' \subseteq Paths
      <4>1. CASE missing = {}
        BY <1>4, <4>1 DEF MakeDirectory, DataOK
      <4>2. CASE missing # {}
        <5>1. disk' = disk \cup {SubSeq(path, 1, n) : n \in 1..Len(path)}
          BY <1>4, <4>2 DEF MakeDirectory
        <5> HIDE DEF path
        <5>2. \A n \in 1..Len(path) : SubSeq(path, 1, n) \in Paths
          BY <2>3, <4>2 DEF Paths
        <5> QED
          BY <5>1, <5>2 DEF DataOK
      <4> QED
        BY <4>1, <4>2
    <3> QED
      BY <1>4, <3>1 DEF MakeDirectory, DataOK
  <2> QED
    BY <1>4, <2>4, <2>5 DEF MakeDirectory
<1>5. CASE Serve \/ BootFails
  <2>1. BootOK'
    BY <1>5, FileServerAssumption DEF Serve, BootFails, BootOK
  <2> QED
    BY <1>5, <2>1 DEF Serve, BootFails
<1>6. CASE Crash
  <2>1. BootOK'
    BY <1>6, FileServerAssumption DEF Crash, BootOK, Serving
  <2>2. DataOK'
    <3>1. UNCHANGED <<disk, rows>>
      BY <1>6, FileServerAssumption DEF Crash, DataOK
    <3>2. \A f \in Files : [store[f] EXCEPT !.state = "cut"]
             \in [dir : Seq(Names), size : 0..MaxSize,
                  state : {"none", "writing", "cut", "whole"}, linked : BOOLEAN]
      BY DEF DataOK
    <3> QED
      BY <1>6, <3>1, <3>2 DEF Crash, DataOK
  <2>3. ReqOK'
    BY <1>6, IdleFits DEF Crash, ReqOK, Fits
  <2> QED
    BY <2>1, <2>2, <2>3
<1> QED
  BY <1>1, <1>2, <1>3, <1>4, <1>5, <1>6 DEF Boot

\* An entry of the store that changes in some field.
LEMMA StoreType ==
  ASSUME DataOK, NEW f \in Files, NEW g,
         g \in [dir : Seq(Names), size : 0..MaxSize,
               state : {"none", "writing", "cut", "whole"}, linked : BOOLEAN],
         store' = [store EXCEPT ![f] = g], UNCHANGED <<disk, rows>>
  PROVE  DataOK'
BY DEF DataOK

LEMMA BeginType ==
  ASSUME TypeOK, NEW r \in Requests, NEW op \in DOMAIN Needs, NEW user \in Users,
         NEW ans \in Answers, NEW dir \in RequestDirs, Begin(r, op, user, ans, dir)
  PROVE  TypeOK'
<1> USE TypeParts, Kept DEF boot, data
<1> DEFINE q == [Idle EXCEPT !.step = "allowed", !.op = op, !.user = user, !.ans = ans, !.dir = dir]
<1>1. Fits(q)
  <2>1. op \in {"upload", "list", "download", "delete"}
    BY DEF Needs
  <2>2. dir \in Seq(Names) /\ ans \in {NoAnswer} \cup SUBSET Roles
    BY FileServerAssumption DEF Paths
  <2> QED
    BY <2>1, <2>2, IdleFits DEF Fits, Request
<1>2. req' = [req EXCEPT ![r] = q] /\ UNCHANGED <<boot, data>>
  BY DEF Begin
<1> HIDE DEF q
<1>3. ReqOK'
  BY <1>1, <1>2, PutType
<1> QED
  BY <1>2, <1>3

LEMMA UploadType ==
  ASSUME TypeOK, NEW r \in Requests, Upload(r)
  PROVE  TypeOK'
<1> USE TypeParts, Kept DEF boot, data
<1> DEFINE f == req[r].file
           Entry == [dir : Seq(Names), size : 0..MaxSize,
                     state : {"none", "writing", "cut", "whole"}, linked : BOOLEAN]
<1>1. req[r] \in Request /\ Fits(req[r]) /\ store \in [Files -> Entry]
  BY DEF ReqOK, DataOK
<1>2. req[r].step \in {"copying", "removing", "hashing", "saving"} => f \in Files
  BY <1>1 DEF Fits
<1>3. req[r].want \in 0..MaxSize /\ req[r].dir \in Seq(Names) /\ req[r].hash \in {NoRow, NoHash} \cup 0..MaxSize
  BY <1>1 DEF Request
<1>4. CASE EnsureUserDirectory(r)
  <2>1. req[r].user \in Users
    BY <1>1, <1>4 DEF EnsureUserDirectory, At, Fits
  <2>2. DataOK'
    BY <1>4, <2>1, HomeType DEF EnsureUserDirectory, DataOK
  <2> QED
    BY <1>4, <2>2, GoesToType DEF EnsureUserDirectory
<1>5. CASE \E g \in Files, n \in 0..MaxSize : CreateFile(r, g, n)
  <2>1. PICK g \in Files, n \in 0..MaxSize : CreateFile(r, g, n)
    BY <1>5
  <2> DEFINE q == [req[r] EXCEPT !.step = "copying", !.file = g, !.want = n]
             e == [dir |-> req[r].dir, size |-> 0, state |-> "writing", linked |-> TRUE]
  <2>2. Fits(q)
    BY <1>1, <2>1 DEF CreateFile, At, Fits, Request
  <2>3. e \in Entry
    BY <1>3, FileServerAssumption
  <2>4. req' = [req EXCEPT ![r] = q] /\ store' = [store EXCEPT ![g] = e] /\ UNCHANGED <<boot, disk, rows>>
    BY <2>1 DEF CreateFile
  <2> HIDE DEF q, e
  <2> QED
    BY <2>2, <2>3, <2>4, PutType, StoreType
<1>6. CASE CopyPiece(r) \/ CopyEnds(r)
  <2>1. f \in Files /\ UNCHANGED <<boot, disk, rows>>
    BY <1>2, <1>6 DEF CopyPiece, CopyEnds, At
  <2>2. PICK g \in Entry : store' = [store EXCEPT ![f] = g]
    <3>1. CASE CopyPiece(r)
      <4>1. [store[f] EXCEPT !.size = @ + 1] \in Entry
        <5>1. store[f] \in Entry /\ store[f].size \in 0..MaxSize
          BY <1>1, <2>1
        <5>2. store[f].size + 1 \in 0..MaxSize
          BY <5>1, <1>3, <3>1, FileServerAssumption DEF CopyPiece
        <5> QED
          BY <5>1, <5>2
      <4> QED
        BY <4>1, <3>1 DEF CopyPiece
    <3>2. CASE CopyEnds(r)
      <4>1. [store[f] EXCEPT !.state = "whole"] \in Entry
        BY <1>1, <2>1
      <4> QED
        BY <4>1, <3>2 DEF CopyEnds
    <3> QED
      BY <3>1, <3>2, <1>6
  <2>3. DataOK'
    BY <2>1, <2>2, StoreType
  <2>4. ReqOK'
    BY <1>6, <2>1, GoesToType DEF CopyPiece, CopyEnds
  <2> QED
    BY <2>1, <2>3, <2>4
<1>7. CASE CopyFails(r)
  BY <1>2, <1>7, GoesToType DEF CopyFails, At
<1>8. CASE RemoveFailed(r)
  <2>1. f \in Files /\ UNCHANGED <<boot, disk, rows>> /\ Ends(r)
    BY <1>2, <1>8 DEF RemoveFailed, At
  <2>2. PICK left \in {FALSE, store[f].linked} :
          store' = [store EXCEPT ![f].linked = left, ![f].state = "cut"]
    BY <1>8 DEF RemoveFailed
  <2> DEFINE g == [store[f] EXCEPT !.linked = left, !.state = "cut"]
  <2>3. g \in Entry
    BY <1>1, <2>1
  <2>4. store' = [store EXCEPT ![f] = g]
    BY <1>1, <2>1, <2>2
  <2> HIDE DEF g
  <2> QED
    BY <2>1, <2>3, <2>4, StoreType, EndsType
<1>9. CASE HashFile(r)
  <2>1. PICK h \in {NoHash} \cup {store[g].size : g \in {f} \cap Linked(req[r].dir)} :
          req' = [req EXCEPT ![r].step = "saving", ![r].hash = h]
    BY <1>9 DEF HashFile
  <2>2. h \in {NoHash} \cup 0..MaxSize
    BY <1>1, <1>2, <1>9 DEF HashFile, Linked
  <2> DEFINE q == [req[r] EXCEPT !.step = "saving", !.hash = h]
  <2>3. Fits(q)
    BY <1>1, <1>2, <1>9, <2>2 DEF HashFile, Fits, Request
  <2>4. req' = [req EXCEPT ![r] = q] /\ UNCHANGED <<boot, data>>
    BY <1>9, <2>1 DEF HashFile
  <2> HIDE DEF q
  <2> QED
    BY <2>3, <2>4, PutType
<1>10. CASE SaveFileMetadata(r)
  <2>1. DataOK'
    BY <1>3, <1>10 DEF SaveFileMetadata, DataOK
  <2> QED
    BY <1>10, <2>1, EndsType DEF SaveFileMetadata
<1> QED
  BY <1>4, <1>5, <1>6, <1>7, <1>8, <1>9, <1>10 DEF Upload

\* One request's record changes, and nothing else.
LEMMA OnlyRequestType ==
  ASSUME TypeOK, NEW r \in Requests, NEW q, Fits(q), req' = [req EXCEPT ![r] = q],
         UNCHANGED <<boot, data>>
  PROVE  TypeOK'
BY TypeParts, Kept, PutType DEF boot, data

\* A request that has got to a file or a directory fits.
LEMMA LedFits ==
  ASSUME NEW q \in Request, NEW p, Fits(p), q.op = p.op, q.user = p.user, q.dir = p.dir,
         \/ q.file \in Files
         \/ q.op \in {"download", "delete"} /\ q.step \in {"found", "opened", "reply"}
  PROVE  Fits(q)
BY Zenon DEF Fits

LEMMA ListingType ==
  ASSUME TypeOK, NEW r \in Requests, ListRow(r) \/ \E f \in Files : ListEntry(r, f)
  PROVE  TypeOK'
<1>1. req[r] \in Request /\ Fits(req[r]) /\ DataOK
  BY TypeParts DEF ReqOK
<1>2. CASE ListRow(r)
  <2>1. req[r].file \in Files
    BY <1>1, <1>2 DEF ListRow, At, Fits
  <2>2. PICK h \in {NoRow, rows[req[r].file]} :
          req' = [req EXCEPT ![r].step = "reply", ![r].hash = h]
    BY <1>2 DEF ListRow
  <2>3. h \in {NoRow, NoHash} \cup 0..MaxSize
    BY <1>1, <2>1 DEF DataOK
  <2> DEFINE q == [req[r] EXCEPT !.step = "reply", !.hash = h]
  <2>4. Fits(q)
    BY <1>1, <2>1, <2>3 DEF Fits, Request
  <2>5. req' = [req EXCEPT ![r] = q]
    BY <2>2
  <2> HIDE DEF q
  <2> QED
    BY <1>2, <2>4, <2>5, OnlyRequestType DEF ListRow
<1>3. CASE \E f \in Files : ListEntry(r, f)
  <2>1. PICK f \in Files : ListEntry(r, f)
    BY <1>3
  <2>2. store[f].size \in Nat
    BY <1>1, FileServerAssumption DEF DataOK
  <2>3. Arriving(f) \in BOOLEAN
    BY DEF Arriving
  <2> DEFINE early == Arriving(f)
             q == [req[r] EXCEPT !.step = "entries", !.file = f, !.size = store[f].size,
                                 !.early = early]
  <2> HIDE DEF early
  <2>4. Fits(q)
    BY <1>1, <2>2, <2>3 DEF Fits, Request, early
  <2>5. req' = [req EXCEPT ![r] = q]
    BY <2>1 DEF ListEntry, early
  <2> HIDE DEF q
  <2> QED
    BY <2>1, <2>4, <2>5, OnlyRequestType DEF ListEntry
<1> QED
  BY <1>2, <1>3

\* A range within the size of the file.
LEMMA RangeInFile ==
  ASSUME NEW spec \in RangeSpecs, NEW size \in Nat, ParseRange(spec, size) # <<>>
  PROVE  LET range == ParseRange(spec, size)
         IN range \in Nat \X Nat /\ range[1] <= range[2] /\ range[2] < size
<1> DEFINE from == IF spec[1] = Unset THEN size - spec[2] ELSE spec[1]
           to == IF spec[1] = Unset \/ spec[2] = Unset THEN size - 1 ELSE spec[2]
<1>1. /\ spec[1] \in Nat \cup {Unset} /\ spec[2] \in Nat \cup {Unset}
      /\ spec[1] = Unset => spec[2] # Unset
  BY FileServerAssumption
<1>2. from \in Int /\ to \in Int
  BY <1>1, ConfigAssumption
<1>3. ParseRange(spec, size) = IF from < 0 \/ to >= size \/ from > to THEN <<>> ELSE <<from, to>>
  BY DEF ParseRange
<1> HIDE DEF from, to
<1> QED
  BY <1>2, <1>3

LEMMA DownloadType ==
  ASSUME TypeOK, NEW r \in Requests, Download(r)
  PROVE  TypeOK'
<1>1. req[r] \in Request /\ Fits(req[r]) /\ DataOK /\ req[r].size \in Nat
  BY TypeParts, FileServerAssumption DEF ReqOK, Request
<1>2. \A f \in Files : /\ store[f].size \in 0..MaxSize /\ store[f].size \in Int
                     /\ store[f].dir \in Seq(Names)
  BY <1>1, FileServerAssumption DEF DataOK
<1>9. ASSUME NEW from \in Int, NEW n \in Int
      PROVE  Sent(r, from, n) \in Int
  <2>1. CASE req[r].file = NoFile
    BY <2>1 DEF Sent
  <2>2. CASE req[r].file # NoFile
    <3>1. req[r].file \in Files
      BY <1>1, <2>2 DEF Request
    <3>2. store[req[r].file].size - from \in Int
      BY <1>2, <3>1
    <3> QED
      BY <2>2, <3>2, MinOfTwo DEF Sent
  <2> QED
    BY <2>1, <2>2
<1>3. CASE \E f \in Files : Stat(r, f)
  <2>1. PICK f \in Files : Stat(r, f)
    BY <1>3
  <2> DEFINE early == Arriving(f)
             q == [req[r] EXCEPT !.step = "found", !.target = store[f].dir, !.file = f,
                                 !.size = store[f].size, !.early = early]
  <2>2. early \in BOOLEAN
    BY DEF Arriving
  <2> HIDE DEF early
  <2>5. store[f].size \in Nat /\ store[f].dir \in Seq(Names)
    BY <1>2, FileServerAssumption
  <2>6. q \in Request /\ q.op = req[r].op /\ q.user = req[r].user /\ q.dir = req[r].dir /\ q.file = f
    BY <1>1, <2>2, <2>5 DEF Request
  <2>4. req' = [req EXCEPT ![r] = q]
    BY <2>1 DEF Stat, early
  <2>3. Fits(q)
    <3> HIDE DEF q
    <3> QED
      BY <1>1, <2>6, LedFits
  <2> HIDE DEF q
  <2> QED
    BY <2>1, <2>3, <2>4, OnlyRequestType DEF Stat
<1>8. CASE \E dir \in disk : StatDirectory(r, dir)
  <2>1. PICK dir \in disk : StatDirectory(r, dir)
    BY <1>8
  <2> DEFINE q == [req[r] EXCEPT !.step = "found", !.target = dir, !.file = NoFile, !.size = DirectorySize]
  <2>2. dir \in Seq(Names) /\ DirectorySize \in Nat /\ req[r].op = "download"
    BY <1>1, <2>1, FileServerAssumption DEF DataOK, Paths, StatDirectory, At
  <2>5. q \in Request /\ q.op = req[r].op /\ q.user = req[r].user /\ q.dir = req[r].dir /\ q.step = "found"
    BY <1>1, <2>2 DEF Request
  <2>4. req' = [req EXCEPT ![r] = q]
    BY <2>1 DEF StatDirectory
  <2>3. Fits(q)
    <3> HIDE DEF q
    <3> QED
      BY <1>1, <2>2, <2>5, LedFits
  <2> HIDE DEF q
  <2> QED
    BY <2>1, <2>3, <2>4, OnlyRequestType DEF StatDirectory
<1>4. CASE Open(r)
  <2> DEFINE q == [req[r] EXCEPT !.step = "opened"]
  <2>1. Fits(q)
    BY <1>1, <1>4 DEF Open, At, Fits, Request
  <2>2. req' = [req EXCEPT ![r] = q] /\ UNCHANGED <<boot, data>>
    BY <1>4 DEF Open, GoesTo
  <2> HIDE DEF q
  <2> QED
    BY <2>1, <2>2, OnlyRequestType
<1>5. ASSUME At(r, "download", "opened"), UNCHANGED <<boot, data>>,
             NEW answered \in Int \X Int \X Int,
             req' = [req EXCEPT ![r].step = "reply", ![r].answered = answered]
      PROVE  TypeOK'
  <2> DEFINE q == [req[r] EXCEPT !.step = "reply", !.answered = answered]
  <2>1. Fits(q)
    BY <1>1, <1>5 DEF At, Fits, Request
  <2>2. req' = [req EXCEPT ![r] = q]
    BY <1>5
  <2> HIDE DEF q
  <2> QED
    BY <1>5, <2>1, <2>2, OnlyRequestType
<1>6. CASE SendAll(r)
  <2> DEFINE answered == <<0, req[r].size, Sent(r, 0, req[r].size)>>
  <2>1. req[r].size \in Int /\ 0 \in Int
    BY <1>1
  <2>2. Sent(r, 0, req[r].size) \in Int
    BY <1>9, <2>1
  <2>3. answered \in Int \X Int \X Int
    BY <2>1, <2>2
  <2>4. /\ At(r, "download", "opened") /\ UNCHANGED <<boot, data>>
        /\ req' = [req EXCEPT ![r].step = "reply", ![r].answered = answered]
    BY <1>6 DEF SendAll
  <2> HIDE DEF answered
  <2> QED
    BY <1>5, <2>3, <2>4, Zenon
<1>7. CASE \E spec \in RangeSpecs : SendRange(r, spec)
  <2>1. PICK spec \in RangeSpecs : SendRange(r, spec)
    BY <1>7
  <2> DEFINE range == ParseRange(spec, req[r].size)
             n == range[2] - range[1] + 1
             answered == <<range[1], n, Sent(r, range[1], n)>>
  <2>2. range[1] \in Int /\ n \in Int
    BY <1>1, <2>1, RangeInFile DEF SendRange
  <2>6. /\ At(r, "download", "opened") /\ UNCHANGED <<boot, data>>
        /\ req' = [req EXCEPT ![r].step = "reply", ![r].answered = answered]
    BY <2>1 DEF SendRange
  <2>7. answered \in Int \X Int \X Int
    <3> HIDE DEF range, n
    <3>1. Sent(r, range[1], n) \in Int
      BY <1>9, <2>2
    <3> QED
      BY <2>2, <3>1
  <2> HIDE DEF answered
  <2> QED
    BY <1>5, <2>6, <2>7, Zenon
<1> QED
  BY <1>3, <1>4, <1>6, <1>7, <1>8 DEF Download

LEMMA DeleteType ==
  ASSUME TypeOK, NEW r \in Requests, Delete(r)
  PROVE  TypeOK'
<1> USE TypeParts, Kept DEF boot, data
<1>0. req[r] \in Request /\ Fits(req[r]) /\ DataOK
  BY DEF ReqOK
<1>1. CASE \E f \in Files : DeleteFile(r, f)
  <2>1. PICK f \in Files : DeleteFile(r, f)
    BY <1>1
  <2> DEFINE g == [store[f] EXCEPT !.linked = FALSE]
             q == [req[r] EXCEPT !.step = "reply", !.target = store[f].dir, !.file = f]
  <2>2. g \in [dir : Seq(Names), size : 0..MaxSize,
               state : {"none", "writing", "cut", "whole"}, linked : BOOLEAN]
    BY DEF DataOK
  <2>3. store[f].dir \in Seq(Names)
    BY DEF DataOK
  <2>6. q \in Request /\ q.op = req[r].op /\ q.user = req[r].user /\ q.dir = req[r].dir /\ q.file = f
    BY <1>0, <2>3 DEF Request
  <2>4. Fits(q)
    <3> HIDE DEF q
    <3> QED
      BY <1>0, <2>6, LedFits
  <2>5. store' = [store EXCEPT ![f] = g] /\ req' = [req EXCEPT ![r] = q]
    BY <2>1 DEF DeleteFile
  <2> HIDE DEF g, q
  <2> QED
    BY <2>1, <2>2, <2>4, <2>5, StoreType, PutType DEF DeleteFile
<1>2. CASE \E dir \in disk : DeleteDirectory(r, dir)
  <2>1. PICK dir \in disk : DeleteDirectory(r, dir)
    BY <1>2
  <2> DEFINE q == [req[r] EXCEPT !.step = "reply", !.target = dir, !.file = NoFile]
  <2>2. DataOK'
    BY <2>1 DEF DeleteDirectory, DataOK
  <2>3. dir \in Seq(Names) /\ req[r].op = "delete"
    BY <1>0, <2>1 DEF DataOK, Paths, DeleteDirectory, At
  <2>6. q \in Request /\ q.op = req[r].op /\ q.user = req[r].user /\ q.dir = req[r].dir /\ q.step = "reply"
    BY <1>0, <2>3 DEF Request
  <2>4. Fits(q)
    <3> HIDE DEF q
    <3> QED
      BY <1>0, <2>3, <2>6, LedFits
  <2>5. req' = [req EXCEPT ![r] = q]
    BY <2>1 DEF DeleteDirectory
  <2> HIDE DEF q
  <2> QED
    BY <2>1, <2>2, <2>4, <2>5, PutType DEF DeleteDirectory
<1> QED
  BY <1>1, <1>2 DEF Delete

LEMMA NextType ==
  ASSUME TypeOK, Next
  PROVE  TypeOK'
<1> USE TypeParts, Kept DEF boot, data
<1>1. CASE \E content \in {Absent} \cup Contents : EditConfig(content)
  <2>1. BootOK'
    BY <1>1, FileServerAssumption DEF EditConfig, BootOK
  <2> QED
    BY <1>1, <2>1 DEF EditConfig
<1>2. CASE \E user \in Users : LogIn(user)
  <2>1. DataOK'
    BY <1>2, HomeType DEF LogIn, DataOK
  <2> QED
    BY <1>2, <2>1 DEF LogIn
<1>3. ASSUME NEW r \in Requests, Fail(r) \/ Reply(r)
      PROVE  TypeOK'
  BY <1>3, EndsType DEF Fail, Reply
<1>4. ASSUME NEW r \in Requests, NEW user \in Users, NEW f \in Files, NEW n \in 0..MaxSize,
             NEW dir \in RequestDirs, CompleteChunkUpload(r, user, f, n, dir)
      PROVE  TypeOK'
  <2> DEFINE g == [dir |-> dir, size |-> n, state |-> "whole", linked |-> TRUE]
             q == [Idle EXCEPT !.step = "hashing", !.op = "complete", !.user = user, !.dir = dir,
                               !.file = f]
  <2>1. dir \in Seq(Names)
    BY FileServerAssumption DEF Paths
  <2>2. g \in [dir : Seq(Names), size : 0..MaxSize,
               state : {"none", "writing", "cut", "whole"}, linked : BOOLEAN]
    BY <2>1
  <2>3. Fits(q)
    BY <2>1, IdleFits DEF Fits, Request
  <2>4. /\ req' = [req EXCEPT ![r] = q] /\ store' = [store EXCEPT ![f] = g]
        /\ UNCHANGED <<boot, disk, rows>>
    BY <1>4 DEF CompleteChunkUpload
  <2> HIDE DEF g, q
  <2> QED
    BY <2>2, <2>3, <2>4, StoreType, PutType
<1> QED
  BY <1>1, <1>2, <1>3, <1>4, BootType, BeginType, UploadType, DownloadType, DeleteType, ListingType
  DEF Next

\* Nothing the process does, on whatever configuration and environment and with
\* however many requests, makes a variable leave its type.
THEOREM FilesTypeCorrect == Spec => []TypeOK
<1>1. TypeOK /\ UNCHANGED vars => TypeOK'
  BY TypeParts, Kept DEF vars, boot, data
<1> QED
  BY <1>1, InitType, NextType, PTL DEF Spec

-----------------------------------------------------------------------------
(* Permission *)

\* What CheckPermission grants, the documented rules allow.
LEMMA CheckedIsAllowed ==
  ASSUME cfg \in Config, NEW user \in Users, NEW ans, NEW dir \in Paths, NEW perm,
         CheckPermission(cfg, disk, ans, user, dir, perm)
  PROVE  MayDo(cfg, user, ans, dir, perm)
<1> DEFINE d == GetDirectoryConfig(cfg, Head(dir))
<1>1. Head(dir) = dir[1] /\ Len(dir) \in Nat /\ Len(dir) # 0
  BY DEF Paths
<1>2. d # NoDir
  BY DEF CheckPermission
<1>3. PICK i \in DOMAIN cfg.dirs : d = cfg.dirs[i] /\ d.path = <<dir[1]>>
  <2>1. cfg.dirs \in Seq(DirectoryConfig)
    BY DEF Config
  <2>2. LET c == GetDirectoryConfig(cfg, dir[1])
        IN c # NoDir => \E i \in DOMAIN cfg.dirs : c = cfg.dirs[i] /\ c.path = <<dir[1]>>
    BY <2>1, DirectoryFound
  <2> QED
    BY <1>1, <1>2, <2>2
<1>4. CASE d.type = "user_private"
  <2>1. CheckUserPrivatePermission(cfg, disk, ans, user, dir, perm)
    BY <1>4 DEF CheckPermission
  <2>2. CASE Len(dir) = 1
    BY <1>3, <1>4, <2>1, <2>2 DEF CheckUserPrivatePermission, MayDo
  <2>3. CASE Len(dir) # 1
    <3>0. \A n \in Nat : n # 0 /\ n # 1 => n > 1
      OBVIOUS
    <3>1. Len(dir) > 1
      BY <1>1, <2>3, <3>0, Zenon
    <3>2. dir[2] = DirName[user] \/ HasAdminRole(cfg, ans)
      BY <2>1, <2>3 DEF CheckUserPrivatePermission
    <3> HIDE DEF d
    <3> QED
      BY <1>3, <1>4, <3>1, <3>2 DEF HasAdminRole, MayDo
  <2> QED
    BY <2>2, <2>3
<1>5. CASE d.type # "user_private"
  <2>1. \/ perm \in StaticPermissions(d, user)
        \/ HasAdminRole(cfg, ans)
        \/ perm \in RolePermissions(d, ans)
    BY <1>5 DEF CheckPermission
  <2>2. perm \in StaticPermissions(d, user) =>
          \E g \in d.grants : perm \in g.perms /\ (g.role = AnyRole \/ g.user = user)
    BY DEF StaticPermissions
  <2>3. perm \in RolePermissions(d, ans) =>
          \E g \in d.grants : perm \in g.perms /\ ans # NoAnswer /\ g.role \in ans
    BY DEF RolePermissions
  <2> HIDE DEF d
  <2> QED
    BY <1>3, <1>5, <2>1, <2>2, <2>3 DEF HasAdminRole, MayDo
<1> QED
  BY <1>4, <1>5

\* A process that does not serve has no requests.
QuietInv == ~Serving => \A r \in Requests : req[r] = Idle

\* What a request is about stays as it is until it ends; a download and a deletion
\* are led somewhere below their directory.
SameRequest(r) ==
  \/ req'[r] = Idle
  \/ req'[r].op = "complete"
  \/ /\ req'[r].op = req[r].op /\ req'[r].user = req[r].user
     /\ req'[r].dir = req[r].dir /\ req'[r].ans = req[r].ans
     /\ \/ req'[r].target = req[r].target
        \/ /\ req[r].op \in {"download", "delete"}
           /\ req'[r].target \in Seq(Names) /\ IsPrefix(req[r].dir, req'[r].target)

\* Below a directory the rules are its own, except below the parent of the homes.
LEMMA AllowedBelow ==
  ASSUME NEW c, NEW user, NEW ans, NEW dir \in Paths, NEW perm, MayDo(c, user, ans, dir, perm),
         NEW target \in Seq(Names), IsPrefix(dir, target), c.dirs \in Seq(DirectoryConfig)
  PROVE  /\ target # <<>>
         /\ MayDo(c, user, ans, target, perm) \/ (perm = "read" /\ ParentOfHomes(c, dir))
<1>1. dir \in Seq(Names) /\ Len(dir) \in Nat /\ Len(dir) >= 1 /\ Len(target) \in Nat
  BY DEF Paths
<1>2. Len(dir) <= Len(target) /\ \A i \in 1..Len(dir) : dir[i] = target[i]
  BY <1>1, PrefixByIndex
<1>3. target # <<>> /\ dir[1] = target[1]
  BY <1>1, <1>2
<1>4. Len(dir) > 1 => Len(target) > 1 /\ dir[2] = target[2]
  BY <1>1, <1>2
<1>5. Len(dir) = 1 => dir = <<dir[1]>>
  BY <1>1, SingletonPath
<1> QED
  BY <1>1, <1>3, <1>4, <1>5 DEF MayDo, ParentOfHomes

LEMMA RequestKept ==
  ASSUME TypeOK, NEW r \in Requests,
         Fail(r) \/ Reply(r) \/ Upload(r) \/ Download(r) \/ Delete(r)
           \/ ListRow(r) \/ \E f \in Files : ListEntry(r, f)
  PROVE  \A s \in Requests : SameRequest(s)
<1>1. req \in [Requests -> Request]
  BY DEF TypeOK
<1>2. CASE Ends(r)
  BY <1>1, <1>2 DEF Ends, SameRequest
<1>3. ASSUME NEW q, req' = [req EXCEPT ![r] = q],
             q.op = req[r].op, q.user = req[r].user, q.dir = req[r].dir, q.ans = req[r].ans,
             q.target = req[r].target
      PROVE  \A s \in Requests : SameRequest(s)
  BY <1>1, <1>3 DEF SameRequest
<1>4. CASE \E step : GoesTo(r, step)
  BY <1>1, <1>4 DEF GoesTo, Request, SameRequest
<1>5. CASE \E f \in Files, n \in 0..MaxSize : CreateFile(r, f, n)
  BY <1>1, <1>5 DEF CreateFile, Request, SameRequest
<1>6. CASE HashFile(r) \/ ListRow(r)
  <2>1. PICK step, h : req' = [req EXCEPT ![r].step = step, ![r].hash = h]
    BY <1>6 DEF HashFile, ListRow
  <2> DEFINE q == [req[r] EXCEPT !.step = step, !.hash = h]
  <2>2. /\ req' = [req EXCEPT ![r] = q]
        /\ q.op = req[r].op /\ q.user = req[r].user /\ q.dir = req[r].dir /\ q.ans = req[r].ans
        /\ q.target = req[r].target
    BY <1>1, <2>1 DEF Request
  <2> HIDE DEF q
  <2> QED
    BY <1>3, <2>2
<1>7. CASE \E f \in Files : ListEntry(r, f)
  <2>1. PICK f \in Files : ListEntry(r, f)
    BY <1>7
  <2> DEFINE early == Arriving(f)
  <2> HIDE DEF early
  <2> DEFINE q == [req[r] EXCEPT !.step = "entries", !.file = f, !.size = store[f].size, !.early = early]
  <2>3. req' = [req EXCEPT ![r] = q]
    BY <2>1 DEF ListEntry, early
  <2>4. /\ q.op = req[r].op /\ q.user = req[r].user /\ q.dir = req[r].dir /\ q.ans = req[r].ans
        /\ q.target = req[r].target
    BY <1>1 DEF Request
  <2> HIDE DEF q
  <2> QED
    BY <1>3, <2>3, <2>4
<1>10. ASSUME NEW q, req' = [req EXCEPT ![r] = q], NEW dir \in Seq(Names),
              req[r].op \in {"download", "delete"}, IsPrefix(req[r].dir, dir), q.target = dir,
              q.op = req[r].op, q.user = req[r].user, q.dir = req[r].dir, q.ans = req[r].ans
       PROVE  \A s \in Requests : SameRequest(s)
  BY <1>1, <1>10 DEF SameRequest
<1>11. CASE \E f \in Files : Stat(r, f) \/ DeleteFile(r, f)
  <2>1. PICK f \in Files : Stat(r, f) \/ DeleteFile(r, f)
    BY <1>11
  <2>2. /\ req[r].op \in {"download", "delete"} /\ IsPrefix(req[r].dir, store[f].dir)
        /\ store[f].dir \in Seq(Names)
    BY <2>1 DEF Stat, DeleteFile, Beneath, At, TypeOK
  <2> DEFINE early == Arriving(f)
             dir == store[f].dir
  <2> HIDE DEF early, dir
  <2>3. PICK q : /\ req' = [req EXCEPT ![r] = q] /\ q.target = dir
                 /\ q.op = req[r].op /\ q.user = req[r].user /\ q.dir = req[r].dir /\ q.ans = req[r].ans
    <3>1. CASE Stat(r, f)
      <4> DEFINE q == [req[r] EXCEPT !.step = "found", !.target = dir, !.file = f,
                                     !.size = store[f].size, !.early = early]
      <4>1. req' = [req EXCEPT ![r] = q]
        BY <3>1 DEF Stat, early, dir
      <4>2. /\ q.op = req[r].op /\ q.user = req[r].user /\ q.dir = req[r].dir /\ q.ans = req[r].ans
            /\ q.target = dir
        BY <1>1 DEF Request
      <4> HIDE DEF q
      <4> QED
        BY <4>1, <4>2
    <3>2. CASE DeleteFile(r, f)
      <4> DEFINE q == [req[r] EXCEPT !.step = "reply", !.target = dir, !.file = f]
      <4>1. req' = [req EXCEPT ![r] = q]
        BY <3>2 DEF DeleteFile, dir
      <4>2. /\ q.op = req[r].op /\ q.user = req[r].user /\ q.dir = req[r].dir /\ q.ans = req[r].ans
            /\ q.target = dir
        BY <1>1 DEF Request
      <4> HIDE DEF q
      <4> QED
        BY <4>1, <4>2
    <3> QED
      BY <2>1, <3>1, <3>2
  <2> QED
    BY <1>10, <2>2, <2>3 DEF dir
<1>12. CASE \E dir \in disk : StatDirectory(r, dir) \/ DeleteDirectory(r, dir)
  <2>1. PICK dir \in disk : StatDirectory(r, dir) \/ DeleteDirectory(r, dir)
    BY <1>12
  <2>2. /\ req[r].op \in {"download", "delete"} /\ IsPrefix(req[r].dir, dir) /\ dir \in Seq(Names)
    BY <2>1 DEF StatDirectory, DeleteDirectory, At, TypeOK, Paths
  <2>3. PICK q : /\ req' = [req EXCEPT ![r] = q] /\ q.target = dir
                 /\ q.op = req[r].op /\ q.user = req[r].user /\ q.dir = req[r].dir /\ q.ans = req[r].ans
    <3>1. CASE StatDirectory(r, dir)
      <4> DEFINE q == [req[r] EXCEPT !.step = "found", !.target = dir, !.file = NoFile, !.size = DirectorySize]
      <4>1. req' = [req EXCEPT ![r] = q]
        BY <3>1 DEF StatDirectory
      <4>2. /\ q.op = req[r].op /\ q.user = req[r].user /\ q.dir = req[r].dir /\ q.ans = req[r].ans
            /\ q.target = dir
        BY <1>1 DEF Request
      <4> HIDE DEF q
      <4> QED
        BY <4>1, <4>2
    <3>2. CASE DeleteDirectory(r, dir)
      <4> DEFINE q == [req[r] EXCEPT !.step = "reply", !.target = dir, !.file = NoFile]
      <4>1. req' = [req EXCEPT ![r] = q]
        BY <3>2 DEF DeleteDirectory
      <4>2. /\ q.op = req[r].op /\ q.user = req[r].user /\ q.dir = req[r].dir /\ q.ans = req[r].ans
            /\ q.target = dir
        BY <1>1 DEF Request
      <4> HIDE DEF q
      <4> QED
        BY <4>1, <4>2
    <3> QED
      BY <2>1, <3>1, <3>2
  <2> QED
    BY <1>10, <2>2, <2>3
<1>8. CASE SendAll(r) \/ \E spec \in RangeSpecs : SendRange(r, spec)
  <2>1. PICK answered : req' = [req EXCEPT ![r].step = "reply", ![r].answered = answered]
    BY <1>8 DEF SendAll, SendRange
  <2> DEFINE q == [req[r] EXCEPT !.step = "reply", !.answered = answered]
  <2>2. /\ req' = [req EXCEPT ![r] = q]
        /\ q.op = req[r].op /\ q.user = req[r].user /\ q.dir = req[r].dir /\ q.ans = req[r].ans
        /\ q.target = req[r].target
    BY <1>1, <2>1 DEF Request
  <2> HIDE DEF q
  <2> QED
    BY <1>3, <2>2
<1>9. CASE UNCHANGED req
  BY <1>9 DEF SameRequest
<1> QED
  BY <1>2, <1>4, <1>5, <1>6, <1>7, <1>8, <1>9, <1>11, <1>12
  DEF Fail, Reply, Upload, Download, Delete, EnsureUserDirectory, CopyPiece, CopyEnds, CopyFails,
      RemoveFailed, SaveFileMetadata, Open

\* A step of a request is a step of one that has begun, and not of the process.
LEMMA Busy ==
  ASSUME NEW r \in Requests,
         Fail(r) \/ Reply(r) \/ Upload(r) \/ Download(r) \/ Delete(r)
           \/ ListRow(r) \/ \E f \in Files : ListEntry(r, f)
  PROVE  UNCHANGED boot /\ req[r].step # "idle"
<1>1. CASE Fail(r) \/ Reply(r) \/ ListRow(r) \/ \E f \in Files : ListEntry(r, f)
  BY <1>1 DEF Fail, Reply, ListRow, ListEntry, At
<1>2. CASE Upload(r)
  BY <1>2 DEF Upload, EnsureUserDirectory, CreateFile, CopyPiece, CopyEnds, CopyFails,
                RemoveFailed, HashFile, SaveFileMetadata, At
<1>3. CASE Download(r) \/ Delete(r)
  BY <1>3 DEF Download, Delete, Stat, StatDirectory, Open, SendAll, SendRange, DeleteFile, DeleteDirectory, At
<1> QED
  BY <1>1, <1>2, <1>3

PermissionInv == TypeOK /\ QuietInv /\ ActedWithPermission

LEMMA PermissionInit == Init => PermissionInv
BY InitType, IdleFits DEF Init, PermissionInv, QuietInv, ActedWithPermission, Needs

\* What ActedWithPermission says of one request.
Permitted(r) ==
  /\ MayDo(cfg, req[r].user, req[r].ans, req[r].dir, Needs[req[r].op])
  /\ IsPrefix(req[r].dir, Acted(r))
  /\ AllowedTo(r) \/ (req[r].op = "download" /\ ParentOfHomes(cfg, req[r].dir))

LEMMA ActedParts ==
  /\ ActedWithPermission <=> \A r \in Requests : req[r].op \in DOMAIN Needs => Permitted(r)
  /\ ActedWithPermission' <=> \A r \in Requests : req'[r].op \in DOMAIN Needs => Permitted(r)'
BY DEF ActedWithPermission, Permitted

LEMMA PermissionNext ==
  ASSUME PermissionInv, Next
  PROVE  PermissionInv'
<1>1. TypeOK /\ TypeOK' /\ QuietInv /\ ActedWithPermission
  BY NextType DEF PermissionInv
<1>2. req \in [Requests -> Request]
  BY <1>1 DEF TypeOK
<1>3. "none" \notin DOMAIN Needs /\ "complete" \notin DOMAIN Needs
  BY DEF Needs
<1>4. CASE Boot \/ \E content \in {Absent} \cup Contents : EditConfig(content)
  <2>1. (\A r \in Requests : req'[r] = Idle) /\ (~Crash => ~Serving)
    BY <1>1, <1>4
    DEF QuietInv, Serving, Boot, Start, CreateDefaultConfig, WriteDefaultConfig, LoadConfig,
        MakeDirectory, Serve, BootFails, Crash, EditConfig
  <2> QED
    BY <1>1, <1>3, <2>1, IdleFits DEF PermissionInv, QuietInv, ActedWithPermission
<1>5. ASSUME UNCHANGED boot, \A r \in Requests : SameRequest(r), Serving
      PROVE  PermissionInv'
  <2>1. ActedWithPermission'
    <3> SUFFICES ASSUME NEW s \in Requests, req'[s].op \in DOMAIN Needs
                 PROVE  Permitted(s)'
      BY ActedParts
    <3>1. /\ req'[s].op = req[s].op /\ req'[s].user = req[s].user
          /\ req'[s].dir = req[s].dir /\ req'[s].ans = req[s].ans
          /\ \/ req'[s].target = req[s].target
             \/ /\ req[s].op \in {"download", "delete"}
                /\ req'[s].target \in Seq(Names) /\ IsPrefix(req[s].dir, req'[s].target)
      BY <1>3, <1>5, IdleFits DEF SameRequest
    <3>2. Permitted(s)
      BY <1>1, <3>1, ActedParts
    <3>3. cfg' = cfg
      BY <1>5 DEF boot
    <3>4. CASE req'[s].target = req[s].target
      BY <3>1, <3>2, <3>3, <3>4 DEF Permitted, Acted, AllowedTo
    <3>5. CASE /\ req[s].op \in {"download", "delete"}
               /\ req'[s].target \in Seq(Names) /\ IsPrefix(req[s].dir, req'[s].target)
      <4>1. req[s].dir \in Paths /\ cfg.dirs \in Seq(DirectoryConfig)
        BY <1>1, <1>3, <1>5, <3>5, FileServerAssumption DEF TypeOK, Serving, Config
      <4>2. MayDo(cfg, req[s].user, req[s].ans, req[s].dir, Needs[req[s].op])
        BY <3>2 DEF Permitted
      <4>3. /\ req'[s].target # <<>>
            /\ \/ MayDo(cfg, req[s].user, req[s].ans, req'[s].target, Needs[req[s].op])
               \/ Needs[req[s].op] = "read" /\ ParentOfHomes(cfg, req[s].dir)
        BY <3>5, <4>1, <4>2, AllowedBelow
      <4>4. Needs[req[s].op] = "read" => req[s].op = "download"
        BY <3>5 DEF Needs
      <4> QED
        BY <3>1, <3>3, <3>5, <4>2, <4>3, <4>4 DEF Permitted, Acted, AllowedTo
    <3> QED
      BY <3>1, <3>4, <3>5
  <2> QED
    BY <1>1, <1>5, <2>1 DEF PermissionInv, QuietInv, Serving, boot
<1>6. CASE \E user \in Users : LogIn(user)
  BY <1>5, <1>6 DEF LogIn, SameRequest, boot
<1>7. ASSUME NEW r \in Requests,
             Fail(r) \/ Reply(r) \/ Upload(r) \/ Download(r) \/ Delete(r)
               \/ ListRow(r) \/ \E f \in Files : ListEntry(r, f)
      PROVE  PermissionInv'
  <2>1. UNCHANGED boot /\ req[r].step # "idle"
    BY <1>7, Busy
  <2>2. Serving
    BY <1>1, <2>1 DEF QuietInv, Idle
  <2> QED
    BY <1>5, <1>7, <2>1, <2>2, <1>1, RequestKept
<1>8. ASSUME NEW r \in Requests, NEW user \in Users, NEW f \in Files, NEW n \in 0..MaxSize,
             NEW dir \in RequestDirs, CompleteChunkUpload(r, user, f, n, dir)
      PROVE  PermissionInv'
  <2> DEFINE q == [Idle EXCEPT !.step = "hashing", !.op = "complete", !.user = user, !.dir = dir,
                               !.file = f]
  <2>1. q.op = "complete"
    BY DEF Idle
  <2>2. req' = [req EXCEPT ![r] = q] /\ UNCHANGED boot /\ Serving
    BY <1>8 DEF CompleteChunkUpload
  <2> HIDE DEF q
  <2> QED
    BY <1>2, <1>5, <2>1, <2>2 DEF SameRequest
<1>9. ASSUME NEW r \in Requests, NEW op \in DOMAIN Needs, NEW user \in Users,
             NEW ans \in Answers, NEW dir \in RequestDirs, Begin(r, op, user, ans, dir)
      PROVE  PermissionInv'
  <2> DEFINE q == [Idle EXCEPT !.step = "allowed", !.op = op, !.user = user, !.ans = ans, !.dir = dir]
  <2>1. cfg \in Config /\ dir \in Paths
    BY <1>1, <1>9, FileServerAssumption DEF TypeOK, Begin, Serving
  <2>2. MayDo(cfg, user, ans, dir, Needs[op])
    BY <1>9, <2>1, CheckedIsAllowed DEF Begin
  <2>3. q.op = op /\ q.user = user /\ q.dir = dir /\ q.ans = ans /\ q.target = <<>>
    BY DEF Idle
  <2>4. req' = [req EXCEPT ![r] = q] /\ UNCHANGED boot /\ Serving
    BY <1>9 DEF Begin
  <2> HIDE DEF q
  <2>5. req'[r] = q /\ (\A s \in Requests \ {r} : req'[s] = req[s]) /\ cfg' = cfg
    BY <1>2, <2>4 DEF boot
  <2>7. IsPrefix(dir, dir)
    BY <2>1, PrefixByIndex DEF Paths
  <2>8. Permitted(r)'
    BY <2>2, <2>3, <2>5, <2>7 DEF Permitted, Acted, AllowedTo
  <2>9. \A s \in Requests \ {r} : Permitted(s) => Permitted(s)'
    BY <2>5 DEF Permitted, Acted, AllowedTo
  <2>6. ActedWithPermission'
    BY <1>1, <2>5, <2>8, <2>9, ActedParts
  <2> QED
    BY <1>1, <2>4, <2>6 DEF PermissionInv, QuietInv, Serving, boot
<1> QED
  BY <1>4, <1>6, <1>7, <1>8, <1>9 DEF Next

LEMMA PermissionStill ==
  PermissionInv /\ UNCHANGED vars => PermissionInv'
<1> SUFFICES ASSUME PermissionInv, UNCHANGED vars PROVE PermissionInv'
  OBVIOUS
<1>1. TypeOK'
  BY TypeParts, Kept DEF PermissionInv, vars, boot, data
<1> QED
  BY <1>1 DEF PermissionInv, QuietInv, ActedWithPermission, AllowedTo, Acted, Serving, vars, boot

\* No request of handler.FileHandler reaches the storage without a permission that
\* the rules give its user under the roles the provider answered, in the directory
\* it names and where its path leads below it, whatever the configuration grants
\* and however requests, logins and restarts interleave; but for a download that
\* names the parent of the homes.
THEOREM FilesActedWithPermission == Spec => []ActedWithPermission
<1>1. PermissionInv /\ UNCHANGED vars => PermissionInv'
  BY PermissionStill
<1>2. PermissionInv => ActedWithPermission
  BY DEF PermissionInv
<1> QED
  BY <1>1, <1>2, PermissionInit, PermissionNext, PTL DEF Spec

\* Whatever a configuration of paths of one component grants, the directories a
\* user is shown are those the user may act in, for every answer of the provider.
THEOREM FilesListedIsAllowed == Spec => []ListedIsAllowed
<1>1. TypeOK => ListedIsAllowed
  <2> SUFFICES ASSUME TypeOK, Serving, Regular(cfg) PROVE ListedIsAllowed
    BY DEF ListedIsAllowed
  <2>1. cfg.dirs \in Seq(DirectoryConfig)
    BY DEF TypeOK, Serving, Config
  <2>2. \A user \in Users, ans \in Answers, perm \in Permissions :
          Listed(cfg, disk, ans, user, perm) = Allowed(cfg, disk, ans, user, perm)
    BY <2>1, ListedAgree
  <2> QED
    BY <2>2 DEF ListedIsAllowed, Listed, Allowed, Configured
<1> QED
  BY <1>1, FilesTypeCorrect, PTL

-----------------------------------------------------------------------------
(* The snapshot of an event stream *)

\* Whatever a configuration of paths of one component grants, an event reaches
\* those who might read its directory: the flag of administrators stands for the
\* homes of others, which no listing contains.
THEOREM FilesSnapshotAgrees == Spec => []SnapshotAgrees
<1>1. TypeOK => SnapshotAgrees
  <2> SUFFICES ASSUME TypeOK, Serving, Regular(cfg) PROVE SnapshotAgrees
    BY DEF SnapshotAgrees
  <2>1. cfg.dirs \in Seq(DirectoryConfig) /\ disk \subseteq Paths
    BY DEF TypeOK, Serving, Config
  <2> DEFINE told == {dir \in disk : /\ <<dir[1]>> \in ConfiguredPaths(cfg)
                                     /\ dir[1] = "user" => Len(dir) > 1 /\ <<"user", dir[2]>> \in disk}
  <2>2. ASSUME NEW user \in Users, NEW ans \in Answers, NEW dir \in told
        PROVE  CanRead(ReadFilterFor(cfg, disk, ans, ans, user), dir)
                 <=> CheckPermission(cfg, disk, ans, user, dir, "read")
    BY <2>1, SnapshotAgree
  <2>3. /\ Configured = ConfiguredPaths(cfg)
        /\ \A user \in Users, ans \in Answers : \A dir \in told :
             CanRead(ReadFilterFor(cfg, disk, ans, ans, user), dir)
               <=> CheckPermission(cfg, disk, ans, user, dir, "read")
    BY <2>2 DEF Configured
  <2> QED
    BY <2>3, Zenon DEF SnapshotAgrees
<1> QED
  BY <1>1, FilesTypeCorrect, PTL

-----------------------------------------------------------------------------
(* Configuration *)

\* A number that is loaded is positive or comes from the environment.
LEMMA LoadedNumbers ==
  ASSUME NEW content \in Config, NEW e \in Environment, NEW s \in Settings
  PROVE  Loaded(content, e).numbers[s] > 0 \/ e.numbers[s] # Unset
<1> DEFINE numbers == [t \in Settings |-> IF content.numbers[t] <= 0 THEN Default[t] ELSE content.numbers[t]]
           d == ApplyDefaults(content)
           changed == [t \in Settings |-> IF e.numbers[t] = Unset THEN d.numbers[t] ELSE e.numbers[t]]
<1>1. content.numbers \in [Settings -> Int]
  BY DEF Config
<1>2. numbers[s] > 0
  BY <1>1, ConfigAssumption
<1>3. d = [content EXCEPT !.numbers = numbers]
  BY DEF ApplyDefaults
<1> HIDE DEF numbers
<1>4. d.numbers = numbers
  BY <1>3 DEF Config
<1>5. Loaded(content, e).numbers = changed
  <2>1. "numbers" \in DOMAIN d
    BY <1>3 DEF Config
  <2> HIDE DEF d
  <2> QED
    BY <2>1 DEF Loaded, ApplyEnvOverrides, d
<1> HIDE DEF d
<1> QED
  BY <1>2, <1>4, <1>5

\* The configuration's directories are all there after the last MkdirAll.
ConfigInv ==
  /\ cfg # NoConfig => \A s \in Settings : cfg.numbers[s] > 0 \/ env.numbers[s] # Unset
  /\ phase = "ready" => Configured \subseteq disk

LEMMA ConfigNext ==
  ASSUME PermissionInv, ConfigInv, [Next]_vars
  PROVE  ConfigInv'
<1>0. TypeOK /\ QuietInv
  BY DEF PermissionInv
<1>1. CASE UNCHANGED <<phase, env, cfg>> /\ disk \subseteq disk'
  BY <1>1 DEF ConfigInv, Configured
<1>2. CASE (\E e \in Environments : Start(e)) \/ CreateDefaultConfig \/ WriteDefaultConfig
  BY <1>0, <1>2 DEF ConfigInv, TypeOK, Start, CreateDefaultConfig, WriteDefaultConfig
<1>3. CASE LoadConfig
  <2>1. file \in Config /\ env \in Environment
    BY <1>0, <1>3 DEF LoadConfig, Loads, TypeOK
  <2> QED
    BY <1>3, <2>1, LoadedNumbers DEF LoadConfig, ConfigInv
<1>4. CASE MakeDirectory
  BY <1>4 DEF MakeDirectory, ConfigInv, Configured, ConfiguredPaths
<1>5. CASE Serve \/ BootFails \/ Crash
  BY <1>5 DEF Serve, BootFails, Crash, ConfigInv
<1>6. CASE UNCHANGED vars
  BY <1>1, <1>6 DEF vars, boot, data
<1>7. CASE \E content \in {Absent} \cup Contents : EditConfig(content)
  BY <1>1, <1>7 DEF EditConfig, data
<1>8. ASSUME UNCHANGED boot, Serving
      PROVE  ConfigInv'
  BY <1>8 DEF boot, Serving, ConfigInv
<1>9. CASE \E user \in Users : LogIn(user)
  BY <1>8, <1>9 DEF LogIn
<1>10. ASSUME NEW r \in Requests,
              \/ Fail(r) \/ Reply(r) \/ Upload(r) \/ Download(r) \/ Delete(r)
              \/ ListRow(r) \/ \E f \in Files : ListEntry(r, f)
       PROVE  ConfigInv'
  <2>1. UNCHANGED boot /\ req[r].step # "idle"
    BY <1>10, Busy
  <2> QED
    BY <1>0, <1>8, <2>1 DEF QuietInv, Idle
<1>11. ASSUME NEW r \in Requests,
              \/ \E op \in DOMAIN Needs, user \in Users, ans \in Answers, dir \in RequestDirs :
                   Begin(r, op, user, ans, dir)
              \/ \E user \in Users, f \in Files, n \in 0..MaxSize, dir \in RequestDirs :
                   CompleteChunkUpload(r, user, f, n, dir)
       PROVE  ConfigInv'
  BY <1>8, <1>11 DEF Begin, CompleteChunkUpload
<1> QED
  BY <1>2, <1>3, <1>4, <1>5, <1>6, <1>7, <1>9, <1>10, <1>11 DEF Next, Boot

\* A directory that goes is empty, and goes by a deletion that is allowed there.
Removed ==
  \A dir \in disk \ disk' :
    /\ Beneath(dir) = {} /\ \A d \in disk' : ~IsPrefix(dir, d)
    /\ \E r \in Requests :
         req[r].op = "delete" /\ MayDo(cfg, req[r].user, req[r].ans, dir, "delete")

LEMMA RemovedNext ==
  ASSUME PermissionInv, [Next]_vars
  PROVE  Removed
<1>1. CASE disk \subseteq disk'
  BY <1>1 DEF Removed
<1>2. ASSUME NEW r \in Requests, NEW dir \in disk, DeleteDirectory(r, dir)
      PROVE  Removed
  <2>1. TypeOK /\ ActedWithPermission /\ QuietInv
    BY DEF PermissionInv
  <2>2. req[r].op = "delete" /\ req[r].step = "allowed" /\ IsPrefix(req[r].dir, dir)
    BY <1>2 DEF DeleteDirectory, At
  <2>3. Serving
    BY <2>1, <2>2 DEF QuietInv, Idle
  <2>4. cfg.dirs \in Seq(DirectoryConfig) /\ dir \in Seq(Names) /\ req[r].dir \in Paths
    BY <2>1, <2>2, <2>3, FileServerAssumption DEF TypeOK, Serving, Config, Paths
  <2>5. MayDo(cfg, req[r].user, req[r].ans, req[r].dir, "delete")
    BY <2>1, <2>2 DEF ActedWithPermission, Needs
  <2>6. MayDo(cfg, req[r].user, req[r].ans, dir, "delete")
    BY <2>2, <2>4, <2>5, AllowedBelow
  <2>7. /\ disk' = disk \ {dir} /\ Beneath(dir) = {}
        /\ \A d \in disk \ {dir} : ~IsPrefix(dir, d)
    BY <1>2 DEF DeleteDirectory
  <2> QED
    BY <2>2, <2>6, <2>7 DEF Removed
<1>3. CASE Boot
  BY <1>1, <1>3 DEF Boot, Start, CreateDefaultConfig, WriteDefaultConfig, LoadConfig, MakeDirectory,
                    Serve, BootFails, Crash, data
<1>4. CASE UNCHANGED vars \/ (\E content \in {Absent} \cup Contents : EditConfig(content))
             \/ \E user \in Users : LogIn(user)
  BY <1>1, <1>4 DEF vars, data, EditConfig, LogIn
<1>5. ASSUME NEW r \in Requests,
             \/ Fail(r) \/ Reply(r) \/ ListRow(r) \/ \E f \in Files : ListEntry(r, f)
             \/ Upload(r) \/ Download(r) \/ \E f \in Files : DeleteFile(r, f)
             \/ \E op \in DOMAIN Needs, user \in Users, ans \in Answers, dir \in RequestDirs :
                  Begin(r, op, user, ans, dir)
             \/ \E user \in Users, f \in Files, n \in 0..MaxSize, dir \in RequestDirs :
                  CompleteChunkUpload(r, user, f, n, dir)
      PROVE  Removed
  <2>1. disk \subseteq disk'
    <3>1. CASE Upload(r)
      BY <3>1 DEF Upload, EnsureUserDirectory, CreateFile, CopyPiece, CopyEnds, CopyFails,
                  RemoveFailed, HashFile, SaveFileMetadata, data
    <3>2. CASE Download(r)
      BY <3>2 DEF Download, Stat, StatDirectory, Open, SendAll, SendRange, data
    <3> QED
      BY <1>5, <3>1, <3>2 DEF Fail, Reply, ListRow, ListEntry, DeleteFile, Begin, CompleteChunkUpload, data
  <2> QED
    BY <1>1, <2>1
<1> QED
  BY <1>2, <1>3, <1>4, <1>5 DEF Next, Delete

\* A server never serves with a number the file left out or set to 0 or below; it
\* comes up with every directory of its configuration, and after that one only goes
\* when it is empty and somebody removes it who may delete there.
THEOREM FilesUsableConfig == Spec => UsableConfig
<1>1. Init => ConfigInv
  BY DEF Init, ConfigInv
<1>2. PermissionInv /\ UNCHANGED vars => PermissionInv'
  BY PermissionStill
<1>3. PermissionInv /\ ConfigInv =>
        /\ Serving => \A s \in Settings : cfg.numbers[s] > 0 \/ env.numbers[s] # Unset
        /\ phase = "ready" => Configured \subseteq disk
  BY DEF PermissionInv, TypeOK, ConfigInv, Serving
<1>4. PermissionInv /\ [Next]_vars => [Removed]_vars
  BY RemovedNext
<1>5. Spec => /\ [](Serving => \A s \in Settings : cfg.numbers[s] > 0 \/ env.numbers[s] # Unset)
              /\ [](phase = "ready" => Configured \subseteq disk)
              /\ [][Removed]_vars
  BY <1>1, <1>2, <1>3, <1>4, ConfigNext, PermissionInit, PermissionNext, PTL DEF Spec
<1> QED
  BY <1>5 DEF UsableConfig, Removed

-----------------------------------------------------------------------------
(* Content *)

Writing == {"copying", "removing"}

\* A file only grows, and only while it is written; it does not begin anew.
Grown(old, new) ==
  \/ new.state = old.state /\ new.size = old.size
  \/ old.state = "none"
  \/ old.state = "writing" /\ new.state # "none" /\ old.size <= new.size

\* The size a request has in hand is that of its file, or it took it too early.
SizeKnown(q, entry) ==
  /\ entry.state # "none" /\ q.size <= entry.size
  /\ q.early \/ (entry.state \in {"cut", "whole"} /\ q.size = entry.size)

\* What a request has in hand is true of its file, which is "entry" in the store;
\* a directory has none.
Knows(q, entry) == q.file \in Files =>
  /\ q.step \in {"hashing", "saving"} => entry.state = "whole"
  /\ q.step = "saving" /\ q.hash \in Nat => q.hash = entry.size
  /\ q.step \in {"found", "opened", "entries"} => SizeKnown(q, entry)
  /\ q.step = "reply" /\ q.op = "download" =>
       SizeKnown(q, entry) /\ q.answered[3] = q.answered[2]
  /\ q.step = "reply" /\ q.op = "list" /\ q.hash \in Nat => q.early \/ q.size = q.hash

\* A file that is being written has exactly one request that writes it.
Written ==
  /\ \A r \in Requests : req[r].step \in Writing => store[req[r].file].state = "writing"
  /\ \A r, s \in Requests :
       req[r].step \in Writing /\ req[s].step \in Writing /\ req[r].file = req[s].file => r = s
  /\ \A f \in Files : store[f].state = "writing" =>
       \E r \in Requests : req[r].step \in Writing /\ req[r].file = f
  /\ \A f \in Files : store[f].state = "none" => ~store[f].linked

RowsTrue == \A f \in Files : rows[f] \in Nat => store[f].state = "whole" /\ rows[f] = store[f].size

AllKnow == \A r \in Requests : Knows(req[r], store[req[r].file])

ContentInv == TypeOK /\ Written /\ RowsTrue /\ AllKnow

LEMMA KnowsKept ==
  ASSUME NEW q \in Request, NEW old, NEW new, old.size \in Nat, new.size \in Nat,
         Knows(q, old), Grown(old, new)
  PROVE  Knows(q, new)
<1>1. q.size \in Nat
  BY FileServerAssumption DEF Request
<1>2. SizeKnown(q, old) => SizeKnown(q, new)
  BY <1>1 DEF SizeKnown, Grown
<1> QED
  BY <1>2 DEF Knows, Grown

\* A request that knows nothing of a file.
LEMMA KnowsNothing ==
  ASSUME NEW q, NEW entry, q.step \in {"idle", "allowed", "ensured", "copying", "removing"}
  PROVE  Knows(q, entry)
BY DEF Knows

\* One request changes and files grow: the others still know the truth.
LEMMA AllKnowKept ==
  ASSUME TypeOK, TypeOK', AllKnow, \A f \in Files : Grown(store[f], store'[f]),
         NEW r \in Requests, \A s \in Requests \ {r} : req'[s] = req[s],
         Knows(req'[r], store'[req'[r].file])
  PROVE  AllKnow'
<1> SUFFICES ASSUME NEW s \in Requests, s # r
             PROVE  Knows(req[s], store'[req[s].file])
  BY DEF AllKnow
<1>1. req[s] \in Request /\ Knows(req[s], store[req[s].file])
  BY DEF TypeOK, AllKnow
<1>2. CASE req[s].file \in Files
  <2>1. store[req[s].file].size \in Nat /\ store'[req[s].file].size \in Nat
    BY <1>2, FileServerAssumption DEF TypeOK
  <2> QED
    BY <1>1, <1>2, <2>1, KnowsKept
<1>3. CASE req[s].file \notin Files
  BY <1>3 DEF Knows
<1> QED
  BY <1>2, <1>3

\* Nothing is said of files by a step that changes no file's state and no row, and
\* neither begins nor ends the writing of one.
LEMMA QuietStep ==
  ASSUME ContentInv, TypeOK', NEW r \in Requests, \A s \in Requests \ {r} : req'[s] = req[s],
         \A f \in Files :
           /\ store'[f].state = store[f].state /\ store'[f].size = store[f].size
           /\ store'[f].linked => store[f].linked,
         UNCHANGED rows,
         req'[r].step \in Writing <=> req[r].step \in Writing,
         req'[r].step \in Writing => req'[r].file = req[r].file,
         Knows(req'[r], store'[req'[r].file])
  PROVE  ContentInv'
<1>1. AllKnow'
  BY AllKnowKept DEF ContentInv, Grown
<1>2. \A s \in Requests : req'[s].step \in Writing <=> req[s].step \in Writing
  OBVIOUS
<1>3. \A s \in Requests : req[s].step \in Writing => req'[s].file = req[s].file /\ req[s].file \in Files
  BY DEF ContentInv, TypeOK, Writing
<1>4. Written'
  BY <1>2, <1>3 DEF ContentInv, Written
<1>5. RowsTrue'
  BY DEF ContentInv, RowsTrue
<1> QED
  BY <1>1, <1>4, <1>5 DEF ContentInv

LEMMA StillContent ==
  ASSUME ContentInv, TypeOK', UNCHANGED <<store, rows, req>>
  PROVE  ContentInv'
BY DEF ContentInv, Written, RowsTrue, AllKnow

\* One request changes, and nothing else does.
LEMMA QuietRequest ==
  ASSUME ContentInv, TypeOK', NEW r \in Requests, NEW q, req' = [req EXCEPT ![r] = q],
         UNCHANGED <<store, rows>>,
         q.step \in Writing <=> req[r].step \in Writing,
         q.step \in Writing => q.file = req[r].file,
         Knows(q, store[q.file])
  PROVE  ContentInv'
<1>1. req'[r] = q /\ \A s \in Requests \ {r} : req'[s] = req[s]
  BY DEF ContentInv, TypeOK
<1> QED
  BY <1>1, QuietStep

\* A request ends or goes on to a step where it says nothing of a file.
LEMMA QuietEnd ==
  ASSUME ContentInv, TypeOK', NEW r \in Requests, Ends(r), UNCHANGED <<store, rows>>,
         req[r].step \notin Writing
  PROVE  ContentInv'
<1>1. Idle.step = "idle"
  BY DEF Idle
<1>2. Knows(Idle, store[Idle.file]) /\ Idle.step \notin Writing
  BY <1>1, KnowsNothing DEF Writing
<1> QED
  BY <1>2, QuietRequest DEF Ends

\* A look at a file that is there: its size is known, or it still arrives.
LEMMA LookKnows ==
  ASSUME ContentInv, NEW f \in Files, store[f].linked, NEW q, q.size = store[f].size,
         q.early <=> Arriving(f)
  PROVE  SizeKnown(q, store[f])
<1>1. store[f].state \in {"none", "writing", "cut", "whole"} /\ store[f].size \in 0..MaxSize
  BY DEF ContentInv, TypeOK
<1>2. store[f].size <= store[f].size
  BY <1>1, FileServerAssumption
<1>3. store[f].state # "none"
  BY DEF ContentInv, Written
<1>4. store[f].state = "writing" => Arriving(f)
  BY DEF ContentInv, Written, Writing, Arriving
<1> QED
  BY <1>1, <1>2, <1>3, <1>4 DEF SizeKnown

LEMMA ListingContent ==
  ASSUME ContentInv, TypeOK', NEW r \in Requests, ListRow(r) \/ \E f \in Files : ListEntry(r, f)
  PROVE  ContentInv'
<1>1. req[r] \in Request /\ Knows(req[r], store[req[r].file]) /\ Fits(req[r])
  BY TypeParts DEF ContentInv, AllKnow, ReqOK
<1>2. CASE ListRow(r)
  <2> DEFINE f == req[r].file
  <2>1. f \in Files /\ req[r].step = "entries" /\ req[r].op = "list"
    BY <1>1, <1>2 DEF ListRow, At, Fits
  <2>2. PICK h \in {NoRow, rows[f]} : req' = [req EXCEPT ![r].step = "reply", ![r].hash = h]
    BY <1>2 DEF ListRow
  <2> DEFINE q == [req[r] EXCEPT !.step = "reply", !.hash = h]
  <2>3. req' = [req EXCEPT ![r] = q]
    BY <2>2
  <2>4. /\ q.step = "reply" /\ q.op = "list" /\ q.hash = h /\ q.file = f
        /\ q.early = req[r].early /\ q.size = req[r].size
    BY <1>1, <2>1 DEF Request
  <2>5. h \in Nat => h = store[f].size
    BY <2>1, FileServerAssumption DEF ContentInv, RowsTrue
  <2>6. req[r].early \/ req[r].size = store[f].size
    BY <1>1, <2>1 DEF Knows, SizeKnown
  <2> HIDE DEF q
  <2>7. Knows(q, store[q.file])
    BY <2>4, <2>5, <2>6 DEF Knows
  <2> QED
    BY <1>2, <2>1, <2>3, <2>4, <2>7, QuietRequest DEF ListRow, Writing, data
<1>3. CASE \E f \in Files : ListEntry(r, f)
  <2>1. PICK f \in Files : ListEntry(r, f)
    BY <1>3
  <2> DEFINE early == Arriving(f)
             q == [req[r] EXCEPT !.step = "entries", !.file = f, !.size = store[f].size,
                                 !.early = early]
  <2> HIDE DEF early
  <2>2. req' = [req EXCEPT ![r] = q]
    BY <2>1 DEF ListEntry, early
  <2>3. q.step = "entries" /\ q.file = f /\ q.size = store[f].size /\ q.early = early
    BY <1>1 DEF Request
  <2> HIDE DEF q
  <2>4. SizeKnown(q, store[f])
    BY <2>1, <2>3, LookKnows DEF ListEntry, Linked, early
  <2>5. Knows(q, store[q.file])
    BY <2>3, <2>4 DEF Knows
  <2> QED
    BY <2>1, <2>2, <2>3, <2>5, QuietRequest DEF ListEntry, At, Writing, data
<1> QED
  BY <1>2, <1>3

LEMMA DownloadContent ==
  ASSUME ContentInv, TypeOK', NEW r \in Requests, Download(r)
  PROVE  ContentInv'
<1>1. req[r] \in Request /\ Knows(req[r], store[req[r].file]) /\ Fits(req[r]) /\ req[r].size \in Nat
  BY TypeParts, FileServerAssumption DEF ContentInv, AllKnow, ReqOK, Request
<1>2. CASE \E f \in Files : Stat(r, f)
  <2>1. PICK f \in Files : Stat(r, f)
    BY <1>2
  <2> DEFINE early == Arriving(f)
             q == [req[r] EXCEPT !.step = "found", !.target = store[f].dir, !.file = f,
                                 !.size = store[f].size, !.early = early]
  <2> HIDE DEF early
  <2>2. req' = [req EXCEPT ![r] = q]
    BY <2>1 DEF Stat, early
  <2>3. q.step = "found" /\ q.file = f /\ q.size = store[f].size /\ q.early = early
    BY <1>1 DEF Request
  <2> HIDE DEF q
  <2>4. SizeKnown(q, store[f])
    BY <2>1, <2>3, LookKnows DEF Stat, Beneath, early
  <2>5. Knows(q, store[q.file])
    BY <2>3, <2>4 DEF Knows
  <2> QED
    BY <2>1, <2>2, <2>3, <2>5, QuietRequest DEF Stat, At, Writing, data
<1>8. CASE \E dir \in disk : StatDirectory(r, dir)
  <2>1. PICK dir \in disk : StatDirectory(r, dir)
    BY <1>8
  <2> DEFINE q == [req[r] EXCEPT !.step = "found", !.target = dir, !.file = NoFile, !.size = DirectorySize]
  <2>2. req' = [req EXCEPT ![r] = q] /\ req[r].step = "allowed" /\ UNCHANGED data
    BY <2>1 DEF StatDirectory, At
  <2>3. q.step = "found" /\ q.file = NoFile
    BY <1>1 DEF Request
  <2> HIDE DEF q
  <2>5. Knows(q, store[q.file])
    BY <2>3, FileServerAssumption DEF Knows
  <2> QED
    BY <2>2, <2>3, <2>5, QuietRequest DEF Writing, data
<1>3. CASE Open(r)
  <2> DEFINE q == [req[r] EXCEPT !.step = "opened"]
  <2>1. req' = [req EXCEPT ![r] = q] /\ req[r].step = "found" /\ UNCHANGED data
    BY <1>3 DEF Open, GoesTo, At
  <2>2. /\ q.step = "opened" /\ q.file = req[r].file
        /\ q.early = req[r].early /\ q.size = req[r].size
    BY <1>1 DEF Request
  <2> HIDE DEF q
  <2>3. Knows(q, store[q.file])
    BY <1>1, <2>1, <2>2 DEF Knows, SizeKnown
  <2> QED
    BY <2>1, <2>2, <2>3, QuietRequest DEF Writing, data
<1>4. ASSUME At(r, "download", "opened"), UNCHANGED data, NEW answered,
             req[r].file \in Files => answered[3] = answered[2],
             req' = [req EXCEPT ![r].step = "reply", ![r].answered = answered]
      PROVE  ContentInv'
  <2> DEFINE q == [req[r] EXCEPT !.step = "reply", !.answered = answered]
  <2>1. req' = [req EXCEPT ![r] = q] /\ req[r].step = "opened" /\ req[r].op = "download"
    BY <1>4 DEF At
  <2>2. /\ q.step = "reply" /\ q.op = "download" /\ q.file = req[r].file
        /\ q.early = req[r].early /\ q.size = req[r].size /\ q.answered = answered
    BY <1>1, <2>1 DEF Request
  <2> HIDE DEF q
  <2>3. Knows(q, store[q.file])
    BY <1>1, <1>4, <2>1, <2>2 DEF Knows, SizeKnown
  <2> QED
    BY <1>4, <2>1, <2>2, <2>3, QuietRequest DEF Writing, data
<1>5. ASSUME At(r, "download", "opened"), req[r].file \in Files, NEW from \in Nat, NEW n \in Int,
             from + n <= req[r].size
      PROVE  Sent(r, from, n) = n
  <2>1. store[req[r].file].size \in Nat /\ req[r].size <= store[req[r].file].size
    BY <1>1, <1>5, FileServerAssumption DEF ContentInv, TypeOK, Knows, SizeKnown, At
  <2>2. req[r].file # NoFile
    BY <1>5, FileServerAssumption
  <2> DEFINE left == store[req[r].file].size - from
  <2>3. left \in Int /\ n <= left
    BY <1>1, <1>5, <2>1
  <2>4. Sent(r, from, n) = Min({n, left})
    BY <2>2 DEF Sent
  <2> HIDE DEF left
  <2> QED
    BY <1>5, <2>3, <2>4, MinOfTwo
<1>6. CASE SendAll(r)
  <2> DEFINE answered == <<0, req[r].size, Sent(r, 0, req[r].size)>>
  <2>1. At(r, "download", "opened") /\ UNCHANGED data
        /\ req' = [req EXCEPT ![r].step = "reply", ![r].answered = answered]
    BY <1>6 DEF SendAll
  <2>2. req[r].file \in Files => Sent(r, 0, req[r].size) = req[r].size
    BY <1>1, <1>5, <2>1
  <2>3. req[r].file \in Files => answered[3] = answered[2]
    BY <2>2
  <2> HIDE DEF answered
  <2> QED
    BY <1>4, <2>1, <2>3, Zenon
<1>7. CASE \E spec \in RangeSpecs : SendRange(r, spec)
  <2>1. PICK spec \in RangeSpecs : SendRange(r, spec)
    BY <1>7
  <2> DEFINE range == ParseRange(spec, req[r].size)
             n == range[2] - range[1] + 1
             answered == <<range[1], n, Sent(r, range[1], n)>>
  <2>2. At(r, "download", "opened") /\ UNCHANGED data
        /\ req' = [req EXCEPT ![r].step = "reply", ![r].answered = answered]
    BY <2>1 DEF SendRange
  <2>3. range[1] \in Nat /\ range[2] \in Nat /\ range[2] < req[r].size
    BY <1>1, <2>1, RangeInFile DEF SendRange
  <2>4. n \in Int /\ range[1] + n <= req[r].size
    <3> HIDE DEF range
    <3> QED
      BY <1>1, <2>3
  <2>5. req[r].file \in Files => answered[3] = answered[2]
    <3> HIDE DEF n, range
    <3>1. req[r].file \in Files => Sent(r, range[1], n) = n
      BY <1>5, <2>2, <2>3, <2>4
    <3> QED
      BY <3>1
  <2> HIDE DEF answered
  <2> QED
    BY <1>4, <2>2, <2>5, Zenon
<1> QED
  BY <1>2, <1>3, <1>6, <1>7, <1>8 DEF Download

\* The file of a request that writes it changes as it may, and the request says
\* nothing of it; the others and the rows are about other files, or a finished one.
LEMMA WriterStep ==
  ASSUME ContentInv, TypeOK', NEW r \in Requests, \A s \in Requests \ {r} : req'[s] = req[s],
         NEW f \in Files, \A g \in Files \ {f} : store'[g] = store[g],
         Grown(store[f], store'[f]), store[f].state \in {"none", "writing"},
         Knows(req'[r], store'[req'[r].file]), UNCHANGED rows
  PROVE  AllKnow' /\ RowsTrue'
<1>1. \A g \in Files : Grown(store[g], store'[g])
  BY DEF Grown
<1>2. AllKnow'
  BY <1>1, AllKnowKept DEF ContentInv
<1>3. RowsTrue'
  BY DEF ContentInv, RowsTrue
<1> QED
  BY <1>2, <1>3

LEMMA UploadContent ==
  ASSUME ContentInv, TypeOK', NEW r \in Requests, Upload(r)
  PROVE  ContentInv'
<1> DEFINE f == req[r].file
           Entry == [dir : Seq(Names), size : 0..MaxSize,
                     state : {"none", "writing", "cut", "whole"}, linked : BOOLEAN]
<1>1. /\ req[r] \in Request /\ Knows(req[r], store[req[r].file]) /\ Fits(req[r])
      /\ req \in [Requests -> Request] /\ store \in [Files -> Entry]
  BY TypeParts DEF ContentInv, AllKnow, ReqOK, DataOK
<1>2. req[r].step \in {"copying", "removing", "hashing", "saving"} => f \in Files
  BY <1>1 DEF Fits
<1>3. req[r].step \in Writing => store[f].state = "writing"
  BY DEF ContentInv, Written
<1>4. CASE EnsureUserDirectory(r)
  <2> DEFINE q == [req[r] EXCEPT !.step = "ensured"]
  <2>1. req' = [req EXCEPT ![r] = q] /\ req[r].step = "allowed" /\ UNCHANGED <<store, rows>>
    BY <1>4 DEF EnsureUserDirectory, At, GoesTo
  <2>2. q.step = "ensured"
    BY <1>1 DEF Request
  <2> HIDE DEF q
  <2>3. Knows(q, store[q.file])
    BY <2>2, KnowsNothing
  <2> QED
    BY <2>1, <2>2, <2>3, QuietRequest DEF Writing
<1>5. CASE \E g \in Files, n \in 0..MaxSize : CreateFile(r, g, n)
  <2>1. PICK g \in Files, n \in 0..MaxSize : CreateFile(r, g, n)
    BY <1>5
  <2> DEFINE q == [req[r] EXCEPT !.step = "copying", !.file = g, !.want = n]
             e == [dir |-> req[r].dir, size |-> 0, state |-> "writing", linked |-> TRUE]
  <2>2. /\ req' = [req EXCEPT ![r] = q] /\ store' = [store EXCEPT ![g] = e] /\ UNCHANGED rows
        /\ store[g].state = "none" /\ req[r].step = "ensured"
    BY <2>1 DEF CreateFile, At
  <2>3. q.step = "copying" /\ q.file = g /\ e.state = "writing"
    BY <1>1 DEF Request
  <2> HIDE DEF q, e
  <2>4. /\ req'[r] = q /\ \A s \in Requests \ {r} : req'[s] = req[s]
        /\ store'[g] = e /\ \A h \in Files \ {g} : store'[h] = store[h]
    BY <1>1, <2>2
  <2>5. AllKnow' /\ RowsTrue'
    BY <2>2, <2>3, <2>4, KnowsNothing, WriterStep DEF Grown
  <2>6. \A s \in Requests : req[s].step \in Writing => req[s].file # g /\ s # r
    BY <2>2 DEF ContentInv, Written, Writing
  <2>7. \A s \in Requests : req[s].step \in Writing => req[s].file \in Files
    BY DEF ContentInv, TypeOK, Writing
  <2>8. Written'
    BY <2>3, <2>4, <2>6, <2>7 DEF ContentInv, Written, Writing
  <2> QED
    BY <2>5, <2>8 DEF ContentInv
<1>6. CASE CopyPiece(r)
  <2>1. /\ req[r].step = "copying" /\ f \in Files /\ UNCHANGED <<req, rows>>
        /\ store' = [store EXCEPT ![f].size = @ + 1]
    BY <1>2, <1>6 DEF CopyPiece, At
  <2>2. store[f].state = "writing" /\ store[f].size \in Nat
    BY <1>1, <1>3, <2>1, FileServerAssumption DEF Writing
  <2>3. /\ \A h \in Files \ {f} : store'[h] = store[h]
        /\ store'[f].size = store[f].size + 1 /\ store'[f].state = "writing"
        /\ store'[f].linked = store[f].linked
    BY <1>1, <2>1, <2>2
  <2>4. Grown(store[f], store'[f])
    BY <2>2, <2>3 DEF Grown
  <2>5. Knows(req'[r], store'[req'[r].file])
    BY <2>1, KnowsNothing
  <2>6. AllKnow' /\ RowsTrue'
    BY <2>1, <2>2, <2>3, <2>4, <2>5, WriterStep
  <2>7. \A g \in Files : store'[g].state = store[g].state /\ store'[g].linked = store[g].linked
    BY <2>2, <2>3
  <2>8. \A s \in Requests : req[s].step \in Writing => req[s].file \in Files
    BY DEF ContentInv, TypeOK, Writing
  <2>9. Written'
    BY <2>1, <2>7, <2>8 DEF ContentInv, Written
  <2> QED
    BY <2>6, <2>9 DEF ContentInv
\* The writing of a file ends, one way or the other.
<1>7. ASSUME req[r].step \in Writing, NEW q, req' = [req EXCEPT ![r] = q], q.step \notin Writing,
             NEW e, store' = [store EXCEPT ![f] = e], e.state \in {"cut", "whole"},
             e.size = store[f].size, UNCHANGED rows,
             Knows(q, store'[q.file])
      PROVE  ContentInv'
  <2>1. f \in Files /\ store[f].state = "writing" /\ store[f].size \in Nat
    BY <1>1, <1>2, <1>3, <1>7, FileServerAssumption DEF Writing
  <2>2. /\ req'[r] = q /\ \A s \in Requests \ {r} : req'[s] = req[s]
        /\ store'[f] = e /\ \A h \in Files \ {f} : store'[h] = store[h]
    BY <1>1, <1>7, <2>1
  <2>3. AllKnow' /\ RowsTrue'
    BY <1>7, <2>1, <2>2, WriterStep DEF Grown
  <2>4. \A s \in Requests : req[s].step \in Writing /\ s # r => req[s].file # f
    BY <1>7 DEF ContentInv, Written
  <2>5. \A s \in Requests : req[s].step \in Writing => req[s].file \in Files
    BY DEF ContentInv, TypeOK, Writing
  <2>6. \A s \in Requests : req'[s].step \in Writing => s # r /\ req[s].step \in Writing /\ req'[s] = req[s]
    BY <1>7, <2>2
  <2>7. \A g \in Files : store'[g].state = "writing" => g # f /\ store'[g] = store[g]
    BY <1>7, <2>2
  <2>8. Written'
    <3>1. \A s \in Requests : req'[s].step \in Writing => store'[req'[s].file].state = "writing"
      BY <2>2, <2>4, <2>5, <2>6 DEF ContentInv, Written
    <3>2. \A s, t \in Requests :
            req'[s].step \in Writing /\ req'[t].step \in Writing /\ req'[s].file = req'[t].file => s = t
      BY <2>6 DEF ContentInv, Written
    <3>3. \A g \in Files : store'[g].state = "writing" =>
            \E s \in Requests : req'[s].step \in Writing /\ req'[s].file = g
      BY <2>2, <2>7 DEF ContentInv, Written
    <3>4. \A g \in Files : store'[g].state = "none" => ~store'[g].linked
      BY <1>7, <2>2 DEF ContentInv, Written
    <3> QED
      BY <3>1, <3>2, <3>3, <3>4 DEF Written
  <2> QED
    BY <2>3, <2>8 DEF ContentInv
<1>8. CASE CopyEnds(r)
  <2> DEFINE q == [req[r] EXCEPT !.step = "hashing"]
             e == [store[f] EXCEPT !.state = "whole"]
  <2>1. /\ req[r].step = "copying" /\ f \in Files
        /\ req' = [req EXCEPT ![r] = q] /\ store' = [store EXCEPT ![f] = e] /\ UNCHANGED rows
    BY <1>2, <1>8 DEF CopyEnds, At, GoesTo
  <2>2. q.step = "hashing" /\ q.file = f /\ e.state = "whole" /\ e.size = store[f].size
    BY <1>1, <2>1 DEF Request
  <2> HIDE DEF q, e
  <2>3. Knows(q, store'[q.file])
    BY <1>1, <2>1, <2>2 DEF Knows
  <2> QED
    BY <1>7, <2>1, <2>2, <2>3 DEF Writing
<1>9. CASE CopyFails(r)
  <2> DEFINE q == [req[r] EXCEPT !.step = "removing"]
  <2>1. req' = [req EXCEPT ![r] = q] /\ req[r].step = "copying" /\ UNCHANGED <<store, rows>>
    BY <1>9 DEF CopyFails, At, GoesTo, data
  <2>2. q.step = "removing" /\ q.file = f
    BY <1>1 DEF Request
  <2> HIDE DEF q
  <2>3. Knows(q, store[q.file])
    BY <2>2, KnowsNothing
  <2> QED
    BY <2>1, <2>2, <2>3, QuietRequest DEF Writing
<1>10. CASE RemoveFailed(r)
  <2>1. f \in Files /\ req[r].step = "removing" /\ Ends(r) /\ UNCHANGED rows
    BY <1>2, <1>10 DEF RemoveFailed, At
  <2>2. PICK left \in {FALSE, store[f].linked} :
          store' = [store EXCEPT ![f].linked = left, ![f].state = "cut"]
    BY <1>10 DEF RemoveFailed
  <2> DEFINE e == [store[f] EXCEPT !.linked = left, !.state = "cut"]
  <2>3. store' = [store EXCEPT ![f] = e] /\ e.state = "cut" /\ e.size = store[f].size
    BY <1>1, <2>1, <2>2
  <2> HIDE DEF e
  <2>4. Idle.step = "idle"
    BY DEF Idle
  <2>5. req' = [req EXCEPT ![r] = Idle] /\ Idle.step \notin Writing /\ Knows(Idle, store'[Idle.file])
    BY <2>1, <2>4, KnowsNothing DEF Ends, Writing
  <2> QED
    BY <1>7, <2>1, <2>3, <2>5 DEF Writing
<1>11. CASE HashFile(r)
  <2>1. PICK h \in {NoHash} \cup {store[g].size : g \in {f} \cap Linked(req[r].dir)} :
          req' = [req EXCEPT ![r].step = "saving", ![r].hash = h]
    BY <1>11 DEF HashFile
  <2> DEFINE q == [req[r] EXCEPT !.step = "saving", !.hash = h]
  <2>2. req' = [req EXCEPT ![r] = q] /\ req[r].step = "hashing" /\ UNCHANGED <<store, rows>>
    BY <1>11, <2>1 DEF HashFile, data
  <2>3. q.step = "saving" /\ q.hash = h /\ q.file = f
    BY <1>1 DEF Request
  <2>4. h \in Nat => h = store[f].size
    BY FileServerAssumption
  <2> HIDE DEF q
  <2>5. Knows(q, store[q.file])
    BY <1>1, <2>2, <2>3, <2>4 DEF Knows
  <2> QED
    BY <2>2, <2>3, <2>5, QuietRequest DEF Writing
<1>12. CASE SaveFileMetadata(r)
  <2>1. f \in Files /\ req[r].step = "saving" /\ Ends(r) /\ UNCHANGED store
        /\ rows' \in {rows, [rows EXCEPT ![f] = req[r].hash]}
    BY <1>2, <1>12 DEF SaveFileMetadata
  <2>2. store[f].state = "whole" /\ (req[r].hash \in Nat => req[r].hash = store[f].size)
    BY <1>1, <2>1 DEF Knows
  <2>3. rows \in [Files -> {NoRow, NoHash} \cup 0..MaxSize]
    BY DEF ContentInv, TypeOK
  <2>4. RowsTrue'
    BY <2>1, <2>2, <2>3 DEF ContentInv, RowsTrue
  <2>5. Idle.step = "idle"
    BY DEF Idle
  <2>6. req'[r] = Idle /\ \A s \in Requests \ {r} : req'[s] = req[s]
    BY <1>1, <2>1 DEF Ends
  <2>7. AllKnow'
    BY <2>1, <2>5, <2>6, KnowsNothing DEF ContentInv, AllKnow
  <2>8. Written'
    BY <2>1, <2>5, <2>6 DEF ContentInv, Written, Writing
  <2> QED
    BY <2>4, <2>7, <2>8 DEF ContentInv
<1> QED
  BY <1>4, <1>5, <1>6, <1>8, <1>9, <1>10, <1>11, <1>12 DEF Upload

LEMMA CompleteContent ==
  ASSUME ContentInv, TypeOK', NEW r \in Requests, NEW user \in Users, NEW f \in Files,
         NEW n \in 0..MaxSize, NEW dir \in RequestDirs, CompleteChunkUpload(r, user, f, n, dir)
  PROVE  ContentInv'
<1> DEFINE g == [dir |-> dir, size |-> n, state |-> "whole", linked |-> TRUE]
           q == [Idle EXCEPT !.step = "hashing", !.op = "complete", !.user = user, !.dir = dir,
                             !.file = f]
<1>1. /\ req' = [req EXCEPT ![r] = q] /\ store' = [store EXCEPT ![f] = g] /\ UNCHANGED rows
      /\ req[r] = Idle /\ store[f].state = "none"
  BY DEF CompleteChunkUpload
<1>2. q.step = "hashing" /\ q.file = f /\ g.state = "whole" /\ Idle.step = "idle"
  BY DEF Idle
<1> HIDE DEF g, q
<1>3. /\ req'[r] = q /\ \A s \in Requests \ {r} : req'[s] = req[s]
      /\ store'[f] = g /\ \A h \in Files \ {f} : store'[h] = store[h]
  BY <1>1 DEF ContentInv, TypeOK
<1>4. Knows(q, store'[q.file])
  BY <1>2, <1>3 DEF Knows
<1>5. AllKnow' /\ RowsTrue'
  BY <1>1, <1>3, <1>4, WriterStep DEF Grown
<1>6. \A s \in Requests : req[s].step \in Writing => req[s].file # f /\ s # r
  BY <1>1, <1>2 DEF ContentInv, Written, Writing
<1>7. \A s \in Requests : req[s].step \in Writing => req[s].file \in Files
  BY DEF ContentInv, TypeOK, Writing
<1>8. \A s \in Requests : req'[s].step \in Writing <=> req[s].step \in Writing
  BY <1>1, <1>2, <1>3 DEF Writing
<1>9. Written'
  BY <1>2, <1>3, <1>6, <1>7, <1>8 DEF ContentInv, Written
<1> QED
  BY <1>5, <1>9 DEF ContentInv

LEMMA DeleteContent ==
  ASSUME ContentInv, TypeOK', NEW r \in Requests, Delete(r)
  PROVE  ContentInv'
<1>0. req[r] \in Request
  BY DEF ContentInv, TypeOK
<1>1. CASE \E f \in Files : DeleteFile(r, f)
  <2>1. PICK f \in Files : DeleteFile(r, f)
    BY <1>1
  <2> DEFINE q == [req[r] EXCEPT !.step = "reply", !.target = store[f].dir, !.file = f]
  <2>2. /\ req' = [req EXCEPT ![r] = q] /\ req[r].step = "allowed" /\ UNCHANGED rows
        /\ store' = [store EXCEPT ![f].linked = FALSE]
    BY <2>1 DEF DeleteFile, At
  <2>4. q.step = "reply" /\ q.op = "delete"
    BY <1>0, <2>1 DEF Request, DeleteFile, At
  <2> HIDE DEF q
  <2>3. req'[r] = q /\ \A s \in Requests \ {r} : req'[s] = req[s]
    BY <2>2 DEF ContentInv, TypeOK
  <2>5. Knows(req'[r], store'[req'[r].file])
    BY <2>3, <2>4 DEF Knows
  <2>6. \A g \in Files :
          /\ store'[g].state = store[g].state /\ store'[g].size = store[g].size
          /\ store'[g].linked => store[g].linked
    BY <2>2 DEF ContentInv, TypeOK
  <2> QED
    BY <2>2, <2>3, <2>4, <2>5, <2>6, QuietStep DEF Writing
<1>2. CASE \E dir \in disk : DeleteDirectory(r, dir)
  <2>1. PICK dir \in disk : DeleteDirectory(r, dir)
    BY <1>2
  <2> DEFINE q == [req[r] EXCEPT !.step = "reply", !.target = dir, !.file = NoFile]
  <2>2. req' = [req EXCEPT ![r] = q] /\ req[r].step = "allowed" /\ UNCHANGED <<store, rows>>
    BY <2>1 DEF DeleteDirectory, At
  <2>3. q.step = "reply" /\ q.op = "delete"
    BY <1>0, <2>1 DEF Request, DeleteDirectory, At
  <2> HIDE DEF q
  <2>4. Knows(q, store[q.file])
    BY <2>3 DEF Knows
  <2> QED
    BY <2>2, <2>3, <2>4, QuietRequest DEF Writing
<1> QED
  BY <1>1, <1>2 DEF Delete

LEMMA CrashContent ==
  ASSUME ContentInv, TypeOK', Crash
  PROVE  ContentInv'
<1>1. \A r \in Requests : req'[r] = Idle
  BY DEF Crash
<1>2. Idle.step = "idle"
  BY DEF Idle
<1>3. \A f \in Files :
        /\ store'[f].state = IF store[f].state = "writing" THEN "cut" ELSE store[f].state
        /\ store'[f].size = store[f].size /\ store'[f].linked = store[f].linked
  BY DEF Crash, ContentInv, TypeOK
<1>4. AllKnow'
  BY <1>1, <1>2, KnowsNothing DEF AllKnow
<1>5. Written'
  BY <1>1, <1>2, <1>3 DEF ContentInv, Written, Writing
<1>6. RowsTrue'
  BY <1>3 DEF Crash, ContentInv, RowsTrue
<1> QED
  BY <1>4, <1>5, <1>6 DEF ContentInv

LEMMA ContentNext ==
  ASSUME ContentInv, [Next]_vars
  PROVE  ContentInv'
<1>1. TypeOK'
  BY NextType, TypeParts, Kept DEF ContentInv, vars, boot, data
<1>2. CASE UNCHANGED <<store, rows, req>>
  BY <1>1, <1>2, StillContent
<1>3. CASE Boot
  <2>1. Crash \/ UNCHANGED <<store, rows, req>>
    BY <1>3 DEF Boot, Start, CreateDefaultConfig, WriteDefaultConfig, LoadConfig, MakeDirectory,
                Serve, BootFails, data
  <2> QED
    BY <1>1, <1>2, <2>1, CrashContent
<1>4. CASE UNCHANGED vars \/ (\E content \in {Absent} \cup Contents : EditConfig(content))
             \/ \E user \in Users : LogIn(user)
  BY <1>2, <1>4 DEF vars, data, EditConfig, LogIn
<1>5. ASSUME NEW r \in Requests, NEW op \in DOMAIN Needs, NEW user \in Users,
             NEW ans \in Answers, NEW dir \in RequestDirs, Begin(r, op, user, ans, dir)
      PROVE  ContentInv'
  <2> DEFINE q == [Idle EXCEPT !.step = "allowed", !.op = op, !.user = user, !.ans = ans, !.dir = dir]
  <2>1. req' = [req EXCEPT ![r] = q] /\ req[r] = Idle /\ UNCHANGED <<store, rows>>
    BY <1>5 DEF Begin, data
  <2>2. q.step = "allowed" /\ Idle.step = "idle"
    BY DEF Idle
  <2> HIDE DEF q
  <2>3. Knows(q, store[q.file])
    BY <2>2, KnowsNothing
  <2> QED
    BY <1>1, <2>1, <2>2, <2>3, QuietRequest DEF Writing
<1>6. ASSUME NEW r \in Requests, Fail(r) \/ Reply(r)
      PROVE  ContentInv'
  BY <1>1, <1>6, QuietEnd DEF Fail, Reply, Writing, data
<1> QED
  BY <1>1, <1>3, <1>4, <1>5, <1>6, UploadContent, DownloadContent, ListingContent, DeleteContent,
     CompleteContent
  DEF Next

\* However requests, deletions and crashes interleave, a download of a file delivers
\* what it declares, and the size and hash the server tells are those of the whole
\* file, but for a size taken while the file arrived and for a file that was cut.
THEOREM FilesContentTrue == Spec => []ContentTrue
<1>1. Init => ContentInv
  <2> SUFFICES ASSUME Init PROVE ContentInv
    OBVIOUS
  <2>1. TypeOK /\ Idle.step = "idle"
    BY InitType DEF Idle
  <2>2. AllKnow
    BY <2>1, KnowsNothing DEF Init, AllKnow
  <2>3. Written /\ RowsTrue
    BY <2>1, FileServerAssumption DEF Init, Written, Writing, RowsTrue
  <2> QED
    BY <2>1, <2>2, <2>3 DEF ContentInv
<1>2. ContentInv => ContentTrue
  <2> SUFFICES ASSUME ContentInv PROVE ContentTrue
    OBVIOUS
  <2>1. \A r \in Requests : Knows(req[r], store[req[r].file]) /\ req[r].file \in Files \cup {NoFile}
    BY DEF ContentInv, AllKnow, TypeOK, Request
  <2>2. \A r \in Requests : At(r, "list", "reply") => req[r].file \in Files
    BY DEF ContentInv, TypeOK, At
  <2> QED
    BY <2>1, <2>2 DEF ContentInv, RowsTrue, Knows, SizeKnown, ContentTrue, At
<1> QED
  BY <1>1, <1>2, ContentNext, PTL DEF Spec
=============================================================================
