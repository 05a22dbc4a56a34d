----------------------------- MODULE FileServer -----------------------------
(* A file server process from its start to its end: the configuration it loads *)
(* and the directories it makes, then the requests of handler.FileHandler on   *)
(* storage.Manager, under permission.Checker, with crashes and restarts.       *)
(*                                                                             *)
(* A file's name contains a fresh UUID, so a file is its own name here.  Its   *)
(* content is a number of equal pieces, of which "size" are on disk.  Requests *)
(* run side by side; nothing in this part of the code takes a lock.            *)
EXTENDS ConfigLoad

CONSTANTS
  Contents, Template,   \* what config.yaml may hold; the embedded one
  Environments,         \* what the environment may hold at a start
  Answers,              \* what GetUserRoles may answer when it is asked
  Requests,             \* slots for requests that run at a time
  RequestDirs,          \* directories that requests name
  OldDirs,              \* directories that earlier processes left on disk
  Files, MaxSize,       \* names an upload may be given; pieces of the largest upload
  DirectorySize,        \* the size of a directory, which is the file system's affair
  RangeSpecs,           \* Range headers: <<first, last>>, Unset for a blank part
  Absent, NoEnv, NoConfig, NoFile, NoRow, NoHash

ASSUME FileServerAssumption ==
  /\ Contents \subseteq Config \cup {Unparsable} /\ Template \in Contents
  /\ Environments \subseteq Environment /\ "max_file_size" \in Settings
  /\ Answers \subseteq {NoAnswer} \cup SUBSET Roles
  /\ RequestDirs \subseteq Paths /\ OldDirs \subseteq Paths
  /\ RangeSpecs \subseteq ((Nat \cup {Unset}) \X (Nat \cup {Unset})) \ {<<Unset, Unset>>}
  /\ Absent \notin Config \cup {Unparsable} /\ NoEnv \notin Environment /\ NoConfig \notin Config
  /\ NoFile \notin Files /\ NoRow \notin Nat /\ NoHash \notin Nat
  /\ MaxSize \in Nat /\ DirectorySize \in Nat

VARIABLES
  file,      \* config.yaml on disk: Absent, Unparsable, Empty or a content
  phase,     \* of the process: down, starting, template, loaded, ready, serving
  env, cfg,  \* what this process was started with, and loaded
  disk,      \* the directories below upload_path
  store,     \* the files: directory, pieces written, how the writing stands, linked or not
  rows,      \* the table file_metadata: NoRow, or the hash in it, NoHash or how much was hashed
  req        \* the requests

boot == <<file, phase, env, cfg>>
data == <<disk, store, rows>>
vars == <<boot, data, req>>

-----------------------------------------------------------------------------
(* A request is at rest, or goes through the steps of its handler.  "size" and *)
(* "early" are what it learnt of a file: its size, and whether it was then     *)
(* still being written; "want" are the pieces an upload brings, "answered" the *)
(* part <<from, pieces declared, pieces sent>> of a download's answer, "hash"  *)
(* that of an entry listed; "ans" is what the provider answered to its check.  *)
(* The filename of a URL may hold further components, or be the directory      *)
(* itself ("."): "target" is where the path of a download or a deletion led,   *)
(* the directory of its file, or a directory if "file" is NoFile.              *)

Idle == [step |-> "idle", op |-> "none", user |-> Unset, dir |-> <<>>, target |-> <<>>,
         file |-> NoFile, size |-> 0, early |-> FALSE, want |-> 0, answered |-> <<0, 0, 0>>, hash |-> NoRow, ans |-> NoAnswer]

Request == [step : {"idle", "allowed", "ensured", "copying", "removing", "hashing", "saving",
                    "entries", "found", "opened", "reply"},
            op : {"none", "complete", "upload", "list", "download", "delete"},
            user : Users \cup {Unset}, dir : Seq(Names), target : Seq(Names), file : Files \cup {NoFile},
            size : Nat, early : BOOLEAN, want : 0..MaxSize, answered : Int \X Int \X Int,
            hash : {NoRow, NoHash} \cup 0..MaxSize, ans : {NoAnswer} \cup SUBSET Roles]

At(r, op, step) == req[r].op = op /\ req[r].step = step

GoesTo(r, step) == req' = [req EXCEPT ![r].step = step]

Ends(r) == req' = [req EXCEPT ![r] = Idle]

Serving == phase = "serving"

\* The files that a look into a directory finds, in whatever state they are.
Linked(dir) == {f \in Files : store[f].linked /\ store[f].dir = dir}

\* Those that a path beginning with the directory can name: only ".." is refused
\* in a filename.  The working files of chunked uploads are named like others;
\* they are in UploadManager.
Beneath(dir) == {f \in Files : store[f].linked /\ IsPrefix(dir, store[f].dir)}

\* An upload of the file has not ended, one way or the other.
Arriving(f) == \E r \in Requests : req[r].file = f /\ req[r].step \in {"copying", "removing"}

Configured == ConfiguredPaths(cfg)

Init ==
  /\ file = Absent
  /\ phase = "down" /\ env = NoEnv /\ cfg = NoConfig
  /\ disk = OldDirs
  /\ store = [f \in Files |-> [dir |-> <<>>, size |-> 0, state |-> "none", linked |-> FALSE]]
  /\ rows = [f \in Files |-> NoRow]
  /\ req = [r \in Requests |-> Idle]

-----------------------------------------------------------------------------
(* main, up to the listening socket *)

Start(e) ==
  /\ phase = "down"
  /\ phase' = "starting" /\ env' = e
  /\ UNCHANGED <<file, cfg, data, req>>

\* writeDefaultConfig creates the file, and then writes it.
CreateDefaultConfig ==
  /\ phase = "starting" /\ file = Absent
  /\ phase' = "template" /\ file' = Empty
  /\ UNCHANGED <<env, cfg, data, req>>

WriteDefaultConfig ==
  /\ phase = "template"
  /\ phase' = "starting" /\ file' = Template
  /\ UNCHANGED <<env, cfg, data, req>>

LoadConfig ==
  /\ phase = "starting" /\ file # Absent /\ Loads(file, env)
  /\ phase' = "loaded" /\ cfg' = Loaded(file, env)
  /\ UNCHANGED <<file, env, data, req>>

\* InitializeDirectories, one MkdirAll after the other in the file's order.
MakeDirectory ==
  /\ phase = "loaded"
  /\ LET missing == {i \in DOMAIN cfg.dirs : cfg.dirs[i].path \notin disk}
     IN IF missing = {}
          THEN phase' = "ready" /\ UNCHANGED disk
          ELSE LET path == cfg.dirs[Min(missing)].path
               IN disk' = disk \cup {SubSeq(path, 1, n) : n \in 1..Len(path)} /\ UNCHANGED phase
  /\ UNCHANGED <<file, env, cfg, store, rows, req>>

\* The provider is made, the routes are registered, the server listens.
Serve ==
  /\ phase = "ready"
  /\ phase' = "serving"
  /\ UNCHANGED <<file, env, cfg, data, req>>

\* os.Exit(1): the file cannot be read or written, does not load, or the
\* database, a directory, OIDC discovery or the port is not to be had.
BootFails ==
  /\ phase \in {"starting", "template", "loaded", "ready"}
  /\ phase' = "down" /\ env' = NoEnv /\ cfg' = NoConfig
  /\ UNCHANGED <<file, data, req>>

\* The process ends: killed, or shut down after it waited 30 s for the requests.
\* An upload it was writing is left as it is.
Crash ==
  /\ Serving
  /\ phase' = "down" /\ env' = NoEnv /\ cfg' = NoConfig
  /\ store' = [f \in Files |-> IF store[f].state = "writing" THEN [store[f] EXCEPT !.state = "cut"]
                               ELSE store[f]]
  /\ req' = [r \in Requests |-> Idle]
  /\ UNCHANGED <<file, disk, rows>>

\* The operator edits or removes the file.  Nothing reads it before the next
\* start, so that an edit while the process runs may as well come after its end.
EditConfig(content) ==
  /\ phase = "down" /\ content # file
  /\ file' = content
  /\ UNCHANGED <<phase, env, cfg, data, req>>

-----------------------------------------------------------------------------
(* The requests: the beginning common to all of them *)

Needs == [upload |-> "write", list |-> "read", download |-> "read", delete |-> "delete"]

\* A request that passes its check; one that does not ends with a 403, or with a
\* 500 if the provider or the database failed, and does nothing.  The provider
\* may answer anything; it is not asked where no role is needed, which is
\* recorded as NoAnswer.  What is checked here is acted upon later.
Begin(r, op, user, ans, dir) ==
  /\ Serving /\ req[r] = Idle
  /\ CheckPermission(cfg, disk, ans, user, dir, Needs[op])
  /\ ans = NoAnswer \/ ~CheckPermission(cfg, disk, NoAnswer, user, dir, Needs[op])
  /\ req' = [req EXCEPT ![r] = [Idle EXCEPT !.step = "allowed", !.op = op, !.user = user,
                                            !.ans = ans, !.dir = dir]]
  /\ UNCHANGED <<boot, data>>

\* The directory, a parent or the file is not to be had; or the upload is too
\* large; or the range is refused; or the client is gone.
Fail(r) ==
  /\ req[r].step \in {"allowed", "ensured", "found", "opened", "entries"}
  /\ Ends(r)
  /\ UNCHANGED <<boot, data>>

-----------------------------------------------------------------------------
(* Upload, and what completes a chunked upload *)

\* Below /user the home of the uploader is made, whosever directory is named.
EnsureUserDirectory(r) ==
  /\ At(r, "upload", "allowed")
  /\ disk' = IF req[r].dir[1] = "user" /\ Len(req[r].dir) > 1
               THEN disk \cup {<<"user">>, Home(req[r].user)} ELSE disk
  /\ GoesTo(r, "ensured")
  /\ UNCHANGED <<boot, store, rows>>

\* SaveFile: os.Create, under the name the file will have.
CreateFile(r, f, n) ==
  /\ At(r, "upload", "ensured")
  /\ n <= cfg.numbers["max_file_size"] /\ req[r].dir \in disk
  /\ store[f].state = "none"
  /\ store' = [store EXCEPT ![f] = [dir |-> req[r].dir, size |-> 0, state |-> "writing",
                                    linked |-> TRUE]]
  /\ req' = [req EXCEPT ![r].step = "copying", ![r].file = f, ![r].want = n]
  /\ UNCHANGED <<boot, disk, rows>>

\* Mutant: the size a client declares is no limit.
CopyAnyPiece(r) ==
  /\ At(r, "upload", "copying") /\ store[req[r].file].size <= MaxSize
  /\ store' = [store EXCEPT ![req[r].file].size = @ + 1]
  /\ UNCHANGED <<boot, disk, rows, req>>

CopyPiece(r) ==
  /\ At(r, "upload", "copying") /\ store[req[r].file].size < req[r].want
  /\ store' = [store EXCEPT ![req[r].file].size = @ + 1]
  /\ UNCHANGED <<boot, disk, rows, req>>

CopyEnds(r) ==
  /\ At(r, "upload", "copying") /\ store[req[r].file].size = req[r].want
  /\ store' = [store EXCEPT ![req[r].file].state = "whole"]
  /\ GoesTo(r, "hashing")
  /\ UNCHANGED <<boot, disk, rows>>

\* Mutant: what was written stays.
CopyFailsAndLeaves(r) ==
  /\ At(r, "upload", "copying") /\ store[req[r].file].size < req[r].want
  /\ Ends(r)
  /\ UNCHANGED <<boot, data>>

\* The copy fails, and the file has to go.
CopyFails(r) ==
  /\ At(r, "upload", "copying") /\ store[req[r].file].size < req[r].want
  /\ GoesTo(r, "removing")
  /\ UNCHANGED <<boot, data>>

\* os.Remove, which may fail in its turn: then the file is cut for good.
RemoveFailed(r) ==
  /\ At(r, "upload", "removing")
  /\ \E left \in {FALSE, store[req[r].file].linked} :
       store' = [store EXCEPT ![req[r].file].linked = left, ![req[r].file].state = "cut"]
  /\ Ends(r)
  /\ UNCHANGED <<boot, disk, rows>>

\* CompleteUpload of UploadManager publishes a whole file in one step; the row
\* is written by its handler afterwards, as for an upload.
CompleteChunkUpload(r, user, f, n, dir) ==
  /\ Serving /\ req[r] = Idle /\ store[f].state = "none" /\ dir \in disk
  /\ store' = [store EXCEPT ![f] = [dir |-> dir, size |-> n, state |-> "whole", linked |-> TRUE]]
  /\ req' = [req EXCEPT ![r] = [Idle EXCEPT !.step = "hashing", !.op = "complete", !.user = user,
                                            !.dir = dir, !.file = f]]
  /\ UNCHANGED <<boot, disk, rows>>

\* calculateFileHash reads the file by its path, and gives "" if that fails.
HashFile(r) ==
  /\ req[r].step = "hashing"
  /\ LET f == req[r].file
     IN \E h \in {NoHash} \cup {store[g].size : g \in {f} \cap Linked(req[r].dir)} :
          req' = [req EXCEPT ![r].step = "saving", ![r].hash = h]
  /\ UNCHANGED <<boot, data>>

\* SaveFileMetadata: a failure is logged, and the upload succeeds without a row.
\* Then the event is broadcast, even if the file was deleted meanwhile.
SaveFileMetadata(r) ==
  /\ req[r].step = "saving"
  /\ rows' \in {rows, [rows EXCEPT ![req[r].file] = req[r].hash]}
  /\ Ends(r)
  /\ UNCHANGED <<boot, disk, store>>

-----------------------------------------------------------------------------
(* ListFiles, one entry of it *)

\* os.ReadDir has read the directory; entry.Info gives the size of one entry.
ListEntry(r, f) ==
  /\ At(r, "list", "allowed") /\ f \in Linked(req[r].dir)
  /\ req' = [req EXCEPT ![r].step = "entries", ![r].file = f, ![r].size = store[f].size,
                        ![r].early = Arriving(f)]
  /\ UNCHANGED <<boot, data>>

\* GetFileMetadata for the entry; a failure leaves the hash blank.
ListRow(r) ==
  /\ At(r, "list", "entries")
  /\ \E h \in {NoRow, rows[req[r].file]} : req' = [req EXCEPT ![r].step = "reply", ![r].hash = h]
  /\ UNCHANGED <<boot, data>>

-----------------------------------------------------------------------------
(* Download *)

\* One range of the header; <<>> if it is refused.  A suffix longer than the
\* file is out of range, and so is an end behind it.
ParseRange(spec, size) ==
  LET from == IF spec[1] = Unset THEN size - spec[2] ELSE spec[1]
      to == IF spec[1] = Unset \/ spec[2] = Unset THEN size - 1 ELSE spec[2]
  IN IF from < 0 \/ to >= size \/ from > to THEN <<>> ELSE <<from, to>>

Stat(r, f) ==
  /\ At(r, "download", "allowed") /\ f \in Beneath(req[r].dir)
  /\ req' = [req EXCEPT ![r].step = "found", ![r].target = store[f].dir, ![r].file = f,
                        ![r].size = store[f].size, ![r].early = Arriving(f)]
  /\ UNCHANGED <<boot, data>>

\* A directory is not told from a file.
StatDirectory(r, dir) ==
  /\ At(r, "download", "allowed") /\ dir \in disk /\ IsPrefix(req[r].dir, dir)
  /\ req' = [req EXCEPT ![r].step = "found", ![r].target = dir, ![r].file = NoFile,
                        ![r].size = DirectorySize]
  /\ UNCHANGED <<boot, data>>

\* By path again; a file that is open stays readable when it is deleted.
Open(r) ==
  /\ At(r, "download", "found")
  /\ IF req[r].file = NoFile THEN req[r].target \in disk ELSE store[req[r].file].linked
  /\ GoesTo(r, "opened")
  /\ UNCHANGED <<boot, data>>

\* What passes of n pieces declared from a place on: as many as the file has, and
\* net/http lets no more than n pass.  Reading a directory fails.
Sent(r, from, n) == IF req[r].file = NoFile THEN 0 ELSE Min({n, store[req[r].file].size - from})

\* The answer: as many pieces are declared as the size of Stat says.
SendAll(r) ==
  /\ At(r, "download", "opened")
  /\ req' = [req EXCEPT ![r].step = "reply",
                        ![r].answered = <<0, req[r].size, Sent(r, 0, req[r].size)>>]
  /\ UNCHANGED <<boot, data>>

SendRange(r, spec) ==
  LET range == ParseRange(spec, req[r].size)
  IN /\ At(r, "download", "opened") /\ range # <<>>
     /\ LET n == range[2] - range[1] + 1
        IN req' = [req EXCEPT ![r].step = "reply",
                              ![r].answered = <<range[1], n, Sent(r, range[1], n)>>]
     /\ UNCHANGED <<boot, data>>

-----------------------------------------------------------------------------
(* DeleteFile: os.Remove of directory/filename, a file or an empty directory,  *)
(* the checked one among them.  The row of a file stays.                       *)

DeleteFile(r, f) ==
  /\ At(r, "delete", "allowed") /\ f \in Beneath(req[r].dir)
  /\ store' = [store EXCEPT ![f].linked = FALSE]
  /\ req' = [req EXCEPT ![r].step = "reply", ![r].target = store[f].dir, ![r].file = f]
  /\ UNCHANGED <<boot, disk, rows>>

\* Mutant: os.RemoveAll in the place of os.Remove.
DeleteTree(r, dir) ==
  /\ At(r, "delete", "allowed") /\ dir \in disk /\ IsPrefix(req[r].dir, dir)
  /\ disk' = {d \in disk : ~IsPrefix(dir, d)}
  /\ store' = [f \in Files |-> [store[f] EXCEPT !.linked = @ /\ ~IsPrefix(dir, store[f].dir)]]
  /\ req' = [req EXCEPT ![r].step = "reply", ![r].target = dir, ![r].file = NoFile]
  /\ UNCHANGED <<boot, rows>>

DeleteDirectory(r, dir) ==
  /\ At(r, "delete", "allowed") /\ dir \in disk /\ IsPrefix(req[r].dir, dir)
  /\ Beneath(dir) = {} /\ \A d \in disk \ {dir} : ~IsPrefix(dir, d)
  /\ disk' = disk \ {dir}
  /\ req' = [req EXCEPT ![r].step = "reply", ![r].target = dir, ![r].file = NoFile]
  /\ UNCHANGED <<boot, store, rows>>

-----------------------------------------------------------------------------
Reply(r) ==
  /\ req[r].step = "reply"
  /\ Ends(r)
  /\ UNCHANGED <<boot, data>>

\* Callback makes the home of a Discord user who logs in; a failure is ignored.
LogIn(user) ==
  /\ Serving /\ cfg.type = "discord"
  /\ disk' = disk \cup {<<"user">>, Home(user)}
  /\ UNCHANGED <<boot, store, rows, req>>

Boot ==
  \/ \E e \in Environments : Start(e)
  \/ CreateDefaultConfig \/ WriteDefaultConfig \/ LoadConfig \/ MakeDirectory \/ Serve
  \/ BootFails \/ Crash

Upload(r) ==
  \/ EnsureUserDirectory(r)
  \/ \E f \in Files, n \in 0..MaxSize : CreateFile(r, f, n)
  \/ CopyPiece(r) \/ CopyEnds(r) \/ CopyFails(r) \/ RemoveFailed(r)
  \/ HashFile(r) \/ SaveFileMetadata(r)

Download(r) ==
  \/ \E f \in Files : Stat(r, f)
  \/ \E dir \in disk : StatDirectory(r, dir)
  \/ Open(r) \/ SendAll(r) \/ \E spec \in RangeSpecs : SendRange(r, spec)

Delete(r) ==
  \/ \E f \in Files : DeleteFile(r, f)
  \/ \E dir \in disk : DeleteDirectory(r, dir)

Next ==
  \/ Boot
  \/ \E content \in {Absent} \cup Contents : EditConfig(content)
  \/ \E user \in Users : LogIn(user)
  \/ \E r \in Requests :
       \/ \E op \in DOMAIN Needs, user \in Users, ans \in Answers, dir \in RequestDirs :
            Begin(r, op, user, ans, dir)
       \/ \E user \in Users, f \in Files, n \in 0..MaxSize, dir \in RequestDirs :
            CompleteChunkUpload(r, user, f, n, dir)
       \/ Fail(r) \/ Reply(r)
       \/ Upload(r) \/ Download(r) \/ Delete(r)
       \/ ListRow(r) \/ \E f \in Files : ListEntry(r, f)

Spec == Init /\ [][Next]_vars
-----------------------------------------------------------------------------
(* Properties *)

\* Every variable keeps its type; no file is larger than an upload may be, and
\* a request has a user and a directory, and a file or a directory where it deals
\* with one.
TypeOK ==
  /\ file \in {Absent, Unparsable} \cup Config
  /\ phase \in {"down", "starting", "template", "loaded", "ready", "serving"}
  /\ env \in {NoEnv} \cup Environment /\ (env = NoEnv) = (phase = "down")
  /\ cfg \in {NoConfig} \cup Config
  /\ (cfg = NoConfig) = (phase \in {"down", "starting", "template"})
  /\ disk \subseteq Paths
  /\ store \in [Files -> [dir : Seq(Names), size : 0..MaxSize,
                          state : {"none", "writing", "cut", "whole"}, linked : BOOLEAN]]
  /\ rows \in [Files -> {NoRow, NoHash} \cup 0..MaxSize]
  /\ req \in [Requests -> Request]
  /\ \A r \in Requests :
       /\ req[r].op = "none" \/ (req[r].user \in Users /\ req[r].dir \in RequestDirs)
       /\ \/ req[r].step \in {"idle", "allowed", "ensured"} \/ req[r].file \in Files
          \/ req[r].op \in {"download", "delete"} /\ req[r].step \in {"found", "opened", "reply"}

\* What the server tells of a file is true of the file as it was uploaded.  A
\* download of one delivers what it declared, and of a whole file, unless it took
\* the size while the upload was running or the file was cut, by a crash or a
\* removal that failed; a row's hash is that of the whole file; an entry with
\* a hash has the size that was hashed, unless it took the size too early.  A
\* download whose path leads to a directory is not one of a file: Download does
\* not notice, declares a size and delivers nothing.
ContentTrue ==
  /\ \A r \in Requests : At(r, "download", "reply") /\ req[r].file # NoFile =>
       LET f == store[req[r].file]
       IN /\ req[r].answered[3] = req[r].answered[2]
          /\ \/ req[r].early \/ f.state = "cut"
             \/ f.state = "whole" /\ f.size = req[r].size
  /\ \A f \in Files : rows[f] \in Nat => store[f].state = "whole" /\ rows[f] = store[f].size
  /\ \A r \in Requests : At(r, "list", "reply") /\ req[r].hash \in Nat =>
       req[r].early \/ req[r].size = req[r].hash

\* The rules as docs/CONFIGURATION.md tells them, for a home or a directory
\* that is configured.
MayDo(c, user, ans, dir, perm) ==
  \E i \in DOMAIN c.dirs :
    /\ c.dirs[i].path = <<dir[1]>>
    /\ IF c.dirs[i].type = "user_private"
         THEN \/ Len(dir) = 1 /\ perm = "read"
              \/ Len(dir) > 1 /\ dir[2] = DirName[user]
              \/ Len(dir) > 1 /\ ans # NoAnswer /\ c.admin \in ans
         ELSE \/ ans # NoAnswer /\ c.admin \in ans
              \/ \E g \in c.dirs[i].grants :
                   /\ perm \in g.perms
                   /\ \/ g.role = AnyRole \/ g.user = user
                      \/ ans # NoAnswer /\ g.role \in ans

\* Where a request acts: in the directory it names, or where its path led.
Acted(r) == IF req[r].target = <<>> THEN req[r].dir ELSE req[r].target

AllowedTo(r) == MayDo(cfg, req[r].user, req[r].ans, Acted(r), Needs[req[r].op])

\* The parent of the homes, which everybody may read.
ParentOfHomes(c, dir) == \E i \in DOMAIN c.dirs : c.dirs[i].path = dir /\ c.dirs[i].type = "user_private"

\* No request gets past its check that the rules do not allow under the roles
\* the provider gave it, an error giving none; and where its path then leads,
\* below the directory it named, they allow it too.  A download that names the
\* parent of the homes is left out of the second half: the check is of the
\* directory in the URL, which everybody may read, wherever the path leads.
ActedWithPermission ==
  \A r \in Requests : req[r].op \in DOMAIN Needs =>
    /\ MayDo(cfg, req[r].user, req[r].ans, req[r].dir, Needs[req[r].op])
    /\ IsPrefix(req[r].dir, Acted(r))
    /\ AllowedTo(r) \/ (req[r].op = "download" /\ ParentOfHomes(cfg, req[r].dir))

\* ListDirectories and CheckPermission agree, for every answer: what is listed
\* is allowed, and what is allowed at the top, or in one's home if it is
\* there, is listed.  A configuration that is not Regular may list more.
ListedIsAllowed ==
  Serving /\ Regular(cfg) =>
    \A user \in Users, ans \in Answers :
      LET accessible == GetAccessibleDirectories(cfg, disk, ans, user)
          tops == (Configured \ {<<"user">>}) \cup ({Home(user)} \cap disk)
      IN \A perm \in Permissions :
           {e.path : e \in {a \in accessible : perm \in a.perms}}
             = {dir \in tops : CheckPermission(cfg, disk, ans, user, dir, perm)}

\* The snapshot an event stream filters by says what a check of the same moment
\* says, of any directory on disk below a configured one: nobody hears of what he
\* may not read, and misses nothing he may.  Of /user itself they differ, and it is
\* left out: everybody may read it, and the events about it, of downloads that name
\* it, reach administrators only.
SnapshotAgrees ==
  Serving /\ Regular(cfg) =>
    LET told == {dir \in disk : /\ <<dir[1]>> \in Configured
                                /\ dir[1] = "user" => Len(dir) > 1 /\ <<"user", dir[2]>> \in disk}
    IN \A user \in Users, ans \in Answers :
         LET f == ReadFilterFor(cfg, disk, ans, ans, user)
         IN \A dir \in told : CanRead(f, dir) <=> CheckPermission(cfg, disk, ans, user, dir, "read")

\* A server comes up with numbers above 0, except where the environment says
\* otherwise, and with all directories of its configuration; then a directory only
\* goes when it is empty and a user removes it who may delete in it.  Nothing makes
\* one that is configured anew before the next start.
UsableConfig ==
  /\ [](Serving => \A s \in Settings : cfg.numbers[s] > 0 \/ env.numbers[s] # Unset)
  /\ [](phase = "ready" => Configured \subseteq disk)
  /\ [][\A dir \in disk \ disk' :
          /\ Beneath(dir) = {} /\ \A d \in disk' : ~IsPrefix(dir, d)
          /\ \E r \in Requests :
               req[r].op = "delete" /\ MayDo(cfg, req[r].user, req[r].ans, dir, "delete")]_vars
=============================================================================
