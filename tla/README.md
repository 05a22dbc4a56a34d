# fileGo in TLA+

fileGo is a self-hosted file server written in Go. Users log in through Discord
or an OpenID Connect provider, see the directories their roles grant, upload
files (in one request or in chunks), download and delete them, and follow what
happens on an event stream. This directory holds TLA+ models of its stateful
parts, the TLC configurations that check them on small instances, and proofs
that TLAPS checks for every instance.

1. [The system](#1-the-system): components, state, operations, interactions
2. [The models](#2-the-models): which module stands for what
3. [The runs](#3-the-runs): what each shows, its bounds, its fairness
4. [The proofs](#4-the-proofs): theorems, inductive invariants, assumptions
5. [Findings](#5-findings): where code and documentation disagree
6. [Plan and limits](#6-plan-and-limits): what comes next, what stays out

Paths are relative to the repository; line numbers are in `PROJECT.json`, which
maps each definition to the code it stands for.

## 1. The system

### 1.1 Components

| Component | State | Operations | What makes it correct |
|---|---|---|---|
| **Upload manager** (`internal/storage/upload_manager.go`, `internal/handler/chunk.go`) | sessions and slot counts in memory; `.temp` and `.meta` files; published files | create, save a chunk, complete, cancel, look up, cleanup tick, restart | what is published is whole and stays; slots are not leaked and the limit holds; an upload survives a restart; what expires vanishes |
| **Plain files** (`internal/storage/storage.go`, `internal/handler/file.go`) | files in the configured directories; `file_metadata` rows | save, list, download (with byte ranges), delete | a file is seen whole or not at all; rows and files agree; ranges are within the file |
| **Discord REST** (`internal/authprovider/discord.go`) | cache of members with expiry, calls in progress (singleflight), cooldown and its exponential step | look up roles or membership; login calls | one request per user at a time; answers never go back in time; waits Discord asks for are kept; service returns |
| **Discord gateway** (`internal/authprovider/discord_gateway.go`) | table of members, ready flag, connection, reconnection in progress | start, guild and chunk events, member events, disconnect, reconnect, close, look up | a ready table says what Discord says; reconnection is bounded; after it gives up REST answers |
| **OIDC provider and role store** (`internal/authprovider/oidc.go`, `internal/rolestore`) | role cache in memory, role table in the database | login, role lookup with restore | roles are those of the last login, across restarts |
| **Permissions** (`internal/permission/permission.go`, grants in `internal/config`) | none of its own: reads configuration, provider, database and directories | check one operation, list directories, take a read snapshot | the three agree; admin and private directories as documented; public grants survive provider errors |
| **Event stream** (`internal/handler/sse.go`) | registered clients, their filters and channels | connect, refresh, deliver, leave, broadcast, refresh a user | nothing foreign is sent; filters follow roles; broadcasts end and never hit a closed channel |
| **Login and sessions** (`internal/handler/auth.go`, `internal/database`) | users and sessions rows, cookies | login, callback, logout, hourly deletion of expired rows | a session names a user that exists, ends at logout and after seven days |
| **Middleware** (`internal/middleware`) | none | authenticate, check admin, real IP, log, recover | a user who left is refused; a provider error is no refusal |
| **Configuration** (`internal/config`) | the loaded configuration | load, defaults, environment, validate, bootstrap | what Validate accepts cannot break the server later |
| Admin pages, logging, models, web front end | none on the server | views, log lines, data types, browser code | |
| `main.go` | none | wiring, routes, shutdown | |

### 1.2 How they interact

* An HTTP request passes the middleware (session row, user row, membership by
  the provider) and reaches a handler with the user in its context.
* The file and chunk handlers ask `permission.Checker` before they call the
  storage or the upload manager; the checker asks the provider for roles, which
  come from the gateway's table when it is ready and from REST otherwise.
* After an upload, a deletion or a login the handlers call a broadcast of the
  event stream, which runs in the goroutine of that request and puts the event
  into the channel of every client whose filter admits it.
* The gateway runs its handlers in goroutines of its own. A change of a member
  calls `RefreshUserFilter` of the event stream, which asks the checker for a new
  snapshot and so comes back to the provider.
* The upload manager's cleanup and the deletion of expired sessions are driven by
  tickers; each event stream connection has a ticker for its filter.

Shared state and what guards it: `um.mu` for everything in the upload manager
(but not the disk, which outlives the process); `h.mu`, an RWMutex, for the map of
clients, atomic pointers for filters, buffered channels for events; `cacheMutex`,
`cooldownMu` and singleflight for REST; `gs.mu` and an atomic flag for the gateway;
SQLite transactions, one per statement, for the rest.

### 1.3 What is hard

* **Crashes and restarts.** The upload manager is meant to survive them: the
  process may die between any two calls to the operating system, and the next one
  starts from the disk it finds.
* **Partial failure.** Every disk call can fail after others succeeded, and
  failures after the point of no return are logged and ignored.
* **Repeated and late requests.** Clients repeat chunks and completions whose
  answers they lost.
* **Interleavings.** The event stream, REST lookups and gateway handlers take
  several locked steps each, with others between them.
* **Stale reads.** Filters, cached roles, tables kept across a disconnection and
  a stat before an open are all used later than they are read.
* **Boundaries.** The number of chunks in 64-bit arithmetic, byte ranges, full
  channels and exponential waits.

`PROJECT.json` lists these hazards one by one, each at its line with the
properties that cover it. One has none: the handlers read the chunk list of a live
session after the lock is released (`chunk.go:225`). It is a data race in an answer
that no other operation reads.

## 2. The models

### 2.1 UploadManager and UploadPromise

`UploadManager.tla` splits the state in memory (`sessions`, `userUploads`), disk
(`temp`, `meta`, `finals`) and history. Every operation of the Go type holds
`um.mu` from its first read to its last write, so each is one action:
`InitChunkUpload`, `SaveChunk`, `CompleteUpload`, `CancelUpload`, `Cleanup`.
A failing disk call is a disjunct of the action, enabled by the constant `Faults`.
A crash is an action that performs a prefix of an operation and loses the memory:
`CrashInCreate`, `CrashInSaveChunk`, `CrashInComplete`, `CrashInCancel`,
`CrashInCleanup`, and `Restart` between operations.

Abstractions: a byte is its offset, so a file is the set of the offsets written
and a hole is visible; `os.Stat`'s size is one more than the largest of them. A
`.meta` file is a session record, `Torn` (truncated by a failed write) or absent.
Time is whether a session is before or after its expiry, and the walk of the
cleanup may read the clock later than the cleanup does (`late`). int64 is
represented by a small `MaxInt`, and `Int64` wraps each result of Go's additions and
subtractions around. An upload ID
is fresh. A handler looks the session up, reads the body and then calls
`SaveChunk`, which repeats each check under the lock; what the handler read first
never changes, so a request is a call of `SaveChunk` at any moment.

`UploadPromise.tla` states what a client is promised: an upload is opened for a
number of chunks, collects them, never loses one, and ends published with all of
them or closed, for good. `ClientView` maps the model's state to it.

### 2.2 SSEHub and StreamPromise

`SSEHub.tla` follows three kinds of goroutines statement by statement where they
touch shared state: the connection (`Connect`, the lookups `ReadDirs`, `ReadHome` and
`ReadAdmin` and the store of `refreshFilter`, `Register`, `Tick`, `Deliver`, `HangUp`, `Leave`, `Unregister`,
`Close`), the broadcast (`StartBroadcast`, `SendTo` for one client at a time) and
`RefreshUserFilter` (`Collect`, `NextClient`, the lookups, `FilterRefreshed`,
`Notify`, `NotifyPanics`). The RWMutex is represented by who holds or awaits it:
a broadcast with clients left to visit holds the read lock, a connection that joins
or leaves awaits the write lock and keeps new readers out.

`AccessibleDirs`, `IsAdmin` and `CanRead` are the checker's snapshot, taken in three
reads, of the roles, of the home and of the roles again, between which anything may
change. What they find is one record, an answer: the roles or an error, and whether the
home is there and its owner's row can be read (`home`). A Discord user has a home from
the login on, an OIDC user from the first upload on, which may come during a connection;
then `GetAccessibleDirectories` lists it from one refresh to the next. Paths
are sequences of their parts. `held` records the answers there were during a
connection, so that a property can say what the user was ever allowed to read.

`StreamPromise.tla` is the stream without locks, filters and roles: an announcement is
offered once to each connection subscribed at that moment, before it may end; whoever
could read the directory throughout gets it (room in its channel provided), whoever
never could does not. `StreamView`, `ReadOnce` and `ReadAlways` map the model to it. In
between, where a role or the home came or went during the connection, the promise leaves
both open: the code works with a snapshot, which may mix a moment without the home with
one without the role. So "throughout" means as the home's owner at every moment or by the
roles of every moment (`ReadAlways`).

### 2.3 DiscordRest and RoleReads

`DiscordRest.tla` follows callers through `fetchMember` and the one among them
that singleflight lets into `fetchMemberLive`: `Begin` (the cache, under its lock),
`Join`, `Check` (the cooldown), `Answer`, `Succeed` (`clearCooldown`), `Store`,
`End`, `Return`, and the failures `Interrupted` (the limiter's wait is cut short),
`Garbled` (200 with an unreadable body), `Refused` (401, 403, 429) and `Broken`
(everything else, and a request cancelled by its client).

What Discord knows about a user is a version number that grows with each change;
whether a version means roles or "not a member" makes no difference to the code
before the answer is returned. Time is a countdown of the cooldown; an entry is
fresh until it expires, whenever that is. The rate limiter only delays.

`RoleReads.tla` is what a caller may count on: an answer is no older than the newest one
anybody had got before the question and no newer than the truth, and an error counts as
the oldest answer, so that a user once answered gets no error again. `CallView` maps a
caller to its question and answer.

### 2.4 GatewaySync

`GatewaySync.tla` has the table of members that follows Discord's gateway, and the
choice in `GetUserRoles` between this table and REST. discordgo runs each handler in
a goroutine of its own, so `handlers` is a set of goroutines, each with the step it
is at: `HandleGuildCreate`, `ApplyChunk` and `RaiseReady` (the two halves of
`handleChunk`), `ApplyMember` and `Notify` (those of `upsert` and
`handleMemberRemove`), `HandleDisconnect`. `StartOpen`, `StartTick`, `StorePointer`
and `StartTimeout` are `StartMembershipSync`; `Take`, `TryOpen`, `SuperviseStop` and
`GiveUp` are `supervise` with `reconnectWithBackoff`; `Stop` and `StopClose` are
`Close`.

discordgo and Discord are modelled from how they are used: `Open` fails on an open
connection, a closed connection is always told to `handleDisconnect`, perhaps twice
(by the reader and by the heartbeat), a reconnection resumes the session and delivers
what was missed, or begins a new one that asks for all members again. Roles are the
number of changes a member went through; timers may expire at any moment.

### 2.5 Accounts and SessionPromise

`Accounts.tla` follows a browser through `Login`, `Callback` call by call
(`CacheRoles`, `SaveRoles`, `Admit`, `InsertSession`, `SetCookie`, and `LoginFails`
where one of them does), `Logout`, and a visit: `AuthMiddleware` (`Authenticate`,
`Verify`), then the admin check or a permission check, which ask for roles
(`AskRoles`, and `LoadRoles` with `Restore` of the OIDC provider). The tables, the
cookies and the role cache are the state; a restart forgets the cache and what was
under way. Any call of the database may fail. `provider` is "oidc" or "discord" for a
whole behaviour.

`alone` and `sure` are history: whether another login or a restore of the same user
crossed a login, and which roles such an undisturbed login saved.

`SessionPromise.tla` is a session without tables and cookies: it is opened by a login of
its user, ends at any moment and never comes back, is held by at most one browser, and
lets that browser in only while it is open. `Inside` maps the visits that passed
`Authenticate` to it. That a browser enters as its own user needs two users to fail; the
run has two browsers of one (section 3.1), so for this part it is the proof that counts.

### 2.6 Permission, ConfigLoad and FileServer

`Permission.tla` has the grants of `config.yaml` and `permission.Checker` as
operators: `CheckPermission`, `GetAccessibleDirectories` and `ReadFilterFor` with `CanRead`,
and `CheckUserPrivatePermission` and the rest below them. A path is the sequence of its
components. What is true of these operators whatever the configuration is in
`PermissionProofs.tla`, which the proofs of the stream and of the file server share.

`ConfigLoad.tla` has `Load`, `applyDefaults`, `applyEnvOverrides` and `Validate` as
operators on a configuration: numeric settings, the required strings, the provider's
type, the directories and the administrators' role.

`FileServer.tla` runs a process on them. It boots (`Start`, `CreateDefaultConfig` and
`WriteDefaultConfig`, which are the two system calls of `writeDefaultConfig`,
`LoadConfig`, `MakeDirectory` once per directory, `Serve`, `BootFails` anywhere) and
serves requests side by side, each step one call to the operating system or the
database: an upload (`EnsureUserDirectory`, `CreateFile`, `CopyPiece`, `CopyEnds` or
`CopyFails` and `RemoveFailed`, `HashFile`, `SaveFileMetadata`), a listing (`ListEntry`,
`ListRow`), a download (`Stat`, `Open`, `SendAll` or `SendRange`), a deletion
(`DeleteFile`, `DeleteDirectory`). The filename of a download or a deletion may contain
separators or be ".", so it leads to anything below the directory that was checked
(`Beneath`, `target`), and that directory itself is among it. A download does not tell
a directory from a file (`StatDirectory`): it declares the size that stat gives
(`DirectorySize`) and delivers nothing (`Sent`). A deletion is one `os.Remove`: of a
file, or of a directory if nothing is in it. `CompleteChunkUpload` is the end of a chunked upload,
whose row is written outside the manager's lock. `Crash` leaves what was being written.

A file's content is a number of equal pieces, of which some are on disk; its hash is
how much was hashed. Names of files are fresh, for they contain a UUID.

### 2.7 How they fit together

The modules meet at narrow boundaries, each over-approximated on both sides. What
`SSEHub` and `FileServer` see of a provider is an answer per user that may change or
fail at any time. `DiscordRest` is one such provider, and it shows how far its answers
may lag; `GatewaySync` contains the choice between it and the table (`Answers`) and
the notification that makes `SSEHub` refresh a filter; for OIDC it is the cache and
table of `Accounts`, which in turn takes Discord's answers as they are.
`SSEHub` describes permissions by four constants of its own, so that its state stays
small; `SSEFilterIsCheckers` proves that for the constants read off a configuration its
snapshot is that of `Permission`, and `SnapshotAgrees` of `FileServer` that this snapshot
lets through what `CheckPermission` does, of every directory but the parent of the homes. `SSEMayReadIsChecked` puts the two together: the
rule by which the stream's properties judge who may read (`MayRead`) is `CheckPermission`,
so that `SSENothingUnchecked` goes from the grants of `config.yaml` to the channels.
`UploadManager` starts where the permission check has passed; `FileServer` takes over
when it has published a file. `ConfigLoad` extends `Permission`, and `FileServer`
extends both.

## 3. The runs

| Run | Checks | What it shows |
|---|---|---|
| `upload_safety` | TypeOK, SlotsNotLeaked, LimitHolds, RecordNotAhead, PublishedWhole, PublishedOnce, PublishedStays | two users, two uploads, every fault, every crash point, one restart |
| `upload_service` | ChunksCoverFile, Resumable, KeepsPromise, ExpiredVanish, SlotComesBack | sizes around every bound, crashes, two restarts, fair cleanup; implements UploadPromise |
| `upload_short_chunks` | PublishedWhole (violated) | a client that sends short chunks publishes a file with a hole |
| `upload_subdirectory` | Resumable (violated) | an upload below a configured directory is not found after a restart |
| `upload_meta_name` | PublishedStays (violated) | a published `*.meta` file is removed by the cleanup |
| `sse_stream` | TypeOK, NothingForeign, StreamPromised, FilterConverges, BroadcastEnds, LeaversClosed | one connection, its timer and a notifier, two broadcasters, events about a shared directory and about the home, a change of what is found, errors, a home that comes or goes, a full channel; implements StreamPromise |
| `sse_panic` | NoSendOnClosed (violated) | a refresh sends on a channel closed meanwhile |
| `rest_calls` | TypeOK, OneRequestPerUser, CooldownHolds, ReadsPromised, Recovers | two callers, two users, expiry, two failures of any kind; implements RoleReads |
| `rest_retry_after` | RetryAfterKept (violated) | a success under way ends the wait a 429 has just started |
| `gateway_sync` | TypeOK, TableTrue, DownMeansRest, HeardCurrent, HealthyKept, NoOpenAfterClose, OutageEnds | start, a change, a lost connection told once or twice, resumed or new, reconnecting given up, and the shutdown, in every order of the handlers |
| `accounts` | TypeOK, LoginKept, SessionsPromised, SessionsEnd | two browsers of one user log in, visit and log out with either provider, roles change, sessions expire, the process restarts; implements SessionPromise |
| `file_server` | TypeOK, ContentTrue, ActedWithPermission, ListedIsAllowed, SnapshotAgrees, UsableConfig | boots on a missing, edited or broken configuration, two requests at a time whose filenames may lead below the checked directory, a chunked upload, crashes and new starts |

### 3.1 Bounds

* *Uploads.* Interactions between sessions go through the user's slot count and the
  cleanup, for which two uploads and two users suffice; the disk state of an upload
  is its own. A file of three bytes in chunks of two has a full and a short chunk;
  `upload_service` takes every file size and chunk size on both sides of
  `MaxChunkFileSize`, `MaxChunks` and the wrap-around of `MaxInt` = 7: the accepted
  pairs 4, 4 and 3, 5 have a sum of 8, which wraps, and wraps back with the - 1. One restart
  is needed to separate memory from disk, two to repeat it; each crash is one.
* *Event stream.* One connection is enough for what concerns one filter: a notifier
  and its timer are two concurrent refreshes, and one change between any two of their
  reads gives each something different. Of the three answers one is an error with the
  home there, the others are of a member and of an administrator without: a snapshot that
  crosses the change mixes the home, or its absence, with either roles. Chains of several changes are left to the
  proofs of the invariants and of StreamPromise. Two broadcasters are the least at which
  the connection can wait for the lock behind one's readers while the other waits
  behind it. A channel of capacity one is full after one event. For any number of
  connections, notifiers and broadcasters the invariants and StreamPromise are proved.
* *REST.* Two callers of one user share a call, of two users they share only the
  cooldown: all there is between callers. Two failures reach the second step of the
  exponential wait and let a wait be asked for while another runs; waits of 1, 2
  and 3 are shorter, equal and longer than each other. What Discord knows changes
  for one user and stays for the other.
* *Gateway.* An entry of the table depends on no other, so one user is watched; two
  chunks let the last be handled before the one with the user. One change and one
  loss of the connection meet each other, the synchronisation, the attempts to
  reconnect and the shutdown in every order. `MaxAttempts` is 2, not 6: there is a
  first attempt, a last one and what follows it. (The cap of the backoff, 5 minutes,
  would only be reached after the sixth attempt.)
* *Accounts.* Users share nothing but the tables, whose rows are their own; two
  browsers of one user are the crossing logins and restores. One change of roles,
  from qualified to not; two sessions, one restart.
* *File server.* Two requests at a time are any two steps next to each other; file
  sizes of 0 and 1 have an empty file, a range in and out of it, and a copy cut
  short; one file is uploaded, looked at and deleted, and other names cannot meet it.
  One configuration has a public directory with grants to everybody and to a role, and
  a private one; the edited one, for OIDC, has the same directory with a user's grant and
  no private one; the environment sets a number to 0, a secret and
  garbage. A directory's size is 1, so that its download declares something. Crashes and
  edits of `config.yaml` are not bounded: the states they lead to are few.

Symmetry (of users, of requests) is used in `upload_safety` and `file_server`, which
have no liveness property. Deadlock checking is off where the model may stop: all
clients may have left, the server may be shut down, or every bound may be used up.

### 3.2 Fairness

* *Uploads:* the cleanup tick comes again and again (`startCleanupRoutine` loops
  for the life of the process), and each session reaches its expiry. No client is
  assumed to do anything.
* *Event stream:* goroutines that can run do run, a connection's timer fires while
  its loop runs, and lookups return (the HTTP client has a timeout of 10 seconds).
  Go's `select` picks at random among ready cases, so it does not pass over the
  end of a request forever: strong fairness of `Leave`. Clients need not read events; but as the server sets no write timeout (`main.go:316`),
  one whose connection neither takes data nor breaks can keep its goroutine in a write,
  and then its timer does not fire. FilterConverges does not speak of such a
  connection.
* *REST:* time passes, and a call goes on: the limiter lets it through, and the
  timeout ends a request Discord does not answer. An answer itself may be a
  failure up to `MaxFaults` times; `Recovers` says what holds once failures end.
* *Gateway:* one condition for the whole program: while some goroutine can take a
  step, some goroutine does. It suffices because no goroutine of this part runs
  forever. Discord owes nothing: it may never send a chunk, and every attempt to
  open a connection may fail.
* *Accounts:* sessions expire, and the hourly deletion succeeds at some hour. No
  browser is assumed to do anything.
* *File server:* none; its properties are of safety.

## 4. The proofs

TLAPS proves these for every value of the constants, under the assumptions named
`...Assumption` in the modules. These say that bounds are numbers, that null values
are none of the values they stand in for, that the wait for Discord's refusals fits
the largest wait, that there are finitely many upload IDs (for cardinalities), that a
user's directory is a name of one component (what `SanitizeDirName` ensures), that
default numbers are positive, and that the values chosen for the environment and the
configuration file have the types they have in Go. TLC evaluates them in every run.

| Theorem | Property | Inductive invariant |
|---|---|---|
| `TypeCorrect` (UploadManagerProofs) | TypeOK | TypeOK |
| `SlotsNeverLeak` | SlotsNotLeaked | adds `FreshIdsUnused`: an ID not yet used has no session, else creating one need not add to the sessions of the user |
| `UploadForgetsForGood` | (nothing brings back an upload that is found neither in memory nor on disk; a tick forgets what had expired) | TypeOK |
| `UploadCleanupFreesSlots` | (a tick leaves no slot to a user whose uploads have all expired) | that of `SlotsNeverLeak`, before and after the tick |
| `PublishedFilesWhole` | PublishedWhole, for clients that send whole chunks | `ContentInv`: each recorded chunk, in memory and in the `.meta`, was written in full; recorded chunks are distinct and in range |
| `ChunkCountOfRequest`, `ChunksCoverFiles` | ChunksCoverFile | `SizesInv`: every session in memory and on disk has a covering chunk count, by arithmetic on Go's division and wrap-around |
| `UploadPublishedOnce` (UploadPromiseProofs) | PublishedOnce | `OnceInv`: a published upload has no `.temp` left to publish, and a `.temp` is made for a fresh ID only |
| `UploadPublishedStays` | PublishedStays, if no upload is named `*.meta` | TypeOK: files are appended by publication and removed by the sweep, which looks at such names only |
| `UploadLimitHolds` | LimitHolds | `LimitInv`: for a user nothing was restored for, the count is the number of sessions and within the limit (`Exact`) |
| `UploadRecordNotAhead` | RecordNotAhead | `RecordInv`: a chunk recorded in the `.meta` is recorded in the session, when there is one (`NotAhead`) |
| `UploadResumable` | Resumable, if the `.meta` can be saved and no upload lies below a configured directory | `ResumeInv`: the `.meta` says what the session says (`Same`) and is there as long as the upload can go on (`Kept`) |
| `UploadKeepsPromise` | KeepsPromise (the refinement of UploadPromise), if no upload is named like a `.meta` | `PromiseInv`: the `.meta` has no chunk the session has not (`NotAhead`), just its chunks if saving cannot fail (`Same`), and recorded chunks are distinct and in range (`BothListed`); each action maps each upload to a step of the promise or to none; a restart may forget chunks only where saving may fail |
| `SSETypeCorrect` (SSEHubProofs) | TypeOK | adds `BusyWithClient`: a notifier past the choice of a client has one |
| `SSEBroadcastSafe` | (a broadcast meets registered clients with a filter only) | `SafeInv`: the clients a broadcast still has to visit are registered, and a connection has a filter before it asks for the lock to register |
| `SSENothingForeign` | NothingForeign | `HistoryInv`: every filter and every lookup in progress consists of what answers during the connection allowed |
| `SSEStreamPromised` | StreamPromised (the refinement of StreamPromise) | `StreamInv`: adds that the shared directories of a filter or a lookup are those of one answer, its home is as one found it, and its flag is that of one, perhaps three different ones (`Drawn`), and that only registered connections are in a notifier's hands (`Placed`) |
| `SSESettles` | (once no lookup of an older answer is under way, each stored filter is the present one, and stays) | a step property; only a lookup that began under the older answer can store it |
| `SSEFilterIsCheckers` | (the filter of SSEHub is that of Permission) | none: an equality of operators, for any two answers and a home that is there or is not |
| `SSEMayReadIsChecked` | (what the stream's properties call reading is what `CheckPermission` grants, to users with a home and without) | none: `DrawnReads` and `CoveredMayRead` put `MayRead` between a snapshot and its source, `SnapshotAgree` puts the check there |
| `SSENothingUnchecked` | (no event in a channel about what no check during the connection would have let the user read, on any disk that has the home as the answer found it) | that of `SSENothingForeign` |
| `CheckGrows`, `ListingGrows` (PermissionProofs) | (more roles or directories never take a right away; a failing provider gives no more than any answer) | none: `NoMoreThan` orders the answers, an error at the bottom |
| `RestTypeCorrect` (DiscordRestProofs) | TypeOK | TypeOK |
| `RestOneRequest` | OneRequestPerUser | `LeadersFly`: from its start to its end a call belongs to the caller singleflight let in |
| `RestReadsForward`, `RestCacheForward` | (no answer and no entry of the cache is replaced by an older one) | `ReadsInv`: returned <= cached <= true for every user, and each caller holds a version between the floor of its call and the cache, or between the cache and the truth while its answer is not stored |
| `RestReadsPromised` | ReadsPromised (the refinement of RoleReads) | `ReadsInv`, in which a caller that has seen an entry falls back to it and holds no error, and `RestInv`: who is at rest asks nothing |
| `RestCooldownHolds` | CooldownHolds | `WaitInv`: while a wait is not cut short, only calls that were past the check when it was asked for are past it |
| `RestWaitersLed` | (who waits for a shared call has somebody in it) | `LedInv`: a leader is in a call for its user (`LeadersLead`), and where somebody waits there is one (`WaitersWait`) |
| `RestStaysHealed` | (while no call fails the cooldown shrinks, and errors that are over stay over) | a step property: `Healed` is closed under every step but a failure |
| `GatewayTypeCorrect` (GatewayProofs) | TypeOK | adds `Sessions`: each new session was preceded by a lost connection, but for the first and one opened across `Close` |
| `GatewayClosed` | NoOpenAfterClose | `CloseInv`: the one attempt whose timer had expired leaves no other behind it |
| `GatewayOutageOwned` | (a lost connection is in the hands of a handler, the channel or the supervisor) | `OutageOwned` is itself inductive |
| `GatewayDownMeansRest` | DownMeansRest | `DownInv`: a table that is ready without a connection will be told of the loss, or was raised after it |
| `GatewayHealthyKept` | HealthyKept | `HealthyInv`: a loss that was told once is in one place, the handler, the channel or the supervisor; so a request to reconnect never meets a connection that stands |
| `GatewayHeardCurrent` | HeardCurrent | `HeardInv`: who was told of a member agrees with the table, or a notification is on its way |
| `GatewayTableTrue` | TableTrue | `TableInv`: what Discord knows of a user was written, is on its way, was never there, or is that of one who left unnoticed (`Covered`); for members as far as the answers of this session got (`Progress`) |
| `AccountsTypeCorrect` (AccountsProofs) | TypeOK | adds `Holding`: what a request has in hand at each step, roles or the session it has just inserted, and that its user has a row |
| `AccountsLoginKept`, `AccountsOwnRolesAdmit` | LoginKept (and, of the other, that an undisturbed login is admitted on roles of its own token) | `RolesInv`: saved undisturbed roles are those in memory, in the table and in every restore under way (`Kept`); an undisturbed login still finds its own roles in memory, and nobody is between a miss and a restore (`Undisturbed`); what is checked is what the session is given (`Checked`) |
| `AccountsSessionsPromised` | SessionsPromised (the refinement of SessionPromise) | `SessionInv`: one row per session (`OneRow`), a cookie is carried by one browser (`OneCarrier`) and its row is of that browser's user (`OwnRow`), whoever is inside holds one (`InsideHolds`) |
| `FilesTypeCorrect` (FileServerProofs) | TypeOK | TypeOK |
| `FilesContentTrue` | ContentTrue | `ContentInv`: a file being written has exactly one request that writes it (`Written`); what any request has in hand, at any step, is true of its file or was taken too early (`AllKnow`) |
| `FilesActedWithPermission` | ActedWithPermission | `PermissionInv`: adds that a process that does not serve has no requests, for the configuration they were checked under is gone; a target is below the directory it was reached from, and what the rules grant of a directory they grant of all below it |
| `FilesListedIsAllowed` | ListedIsAllowed | none needed beyond types: an equality of operators |
| `FilesSnapshotAgrees` | SnapshotAgrees | none beyond types: administrators by the flag, homes by what a listing adds, the rest by the first component |
| `FilesUsableConfig` | UsableConfig | `ConfigInv`: all directories once the last `MkdirAll` is done, numbers from loading on; and a step property: only `DeleteDirectory` removes one |

Each invariance proof has the same three parts: initial states satisfy the
invariant, each action preserves it (one lemma or step per action), and the
invariant implies the property; the last step combines them with the temporal
backend.

*Why the strengthening is needed.* The limit of one request per user, say, speaks
of requests that are out, but a caller that has passed singleflight and not yet
the check will send one; only who leads the call, from `Join` to `End`, is
inductive. `NothingForeign` speaks of events in a channel, which are put there by a
filter, which was stored from a lookup, which mixed two answers: each link of the
chain is a conjunct of `HistoryInv`. `ContentTrue` speaks of answers and rows, whose
values were read steps before, while the file could still grow: that a file changes
only in the hands of its one writer, and never shrinks, is what makes them lasting.

`TableTrue` speaks of a table at rest; what holds at every step is where the last
version of each user is, and that the k-th answer of a session leaves nobody of the
first k chunks uncovered. `KeepsPromise` needs that the disk is not ahead of memory, for
the client's view passes from one to the other when the process dies.

*The refinements.* Four components implement an abstract specification: each step of the
detailed one is a step of the abstract one or none, under a mapping of its variables. The
mappings say what is visible outside: of the stream, that nobody is passed over, which no
invariant of a state can say; of REST, that an answer is judged by when it was asked for;
of sessions, that none comes back. A snapshot whose
parts come from three different answers must still let through what every answer allowed
(`DrawnReads`): the home if every answer found it; and of what roles allow, if the answer behind the directories is an administrator's, all
configured directories are in it; and what lies outside them only
administrators may read by their roles, so the answer behind the flag is an administrator's too.

*Permission* has no state, and the listing, the snapshot and the check are three programs
that must say the same. `ListedAgree` proves that the first and the last do, for any
configuration of paths of one component, by following each directory to the grants it
is decided by; `SnapshotAgree` adds the directories below. Files and streams cite both.

*Assumptions of single theorems.* Each is the negation of a finding of section 5, or
the exclusion of a fault the code only logs: that clients send whole chunks
(`PublishedFilesWhole`), that no upload is named `*.meta` (`UploadPublishedStays`,
`UploadKeepsPromise`), that uploads lie directly in configured directories
(`UploadResumable`), that the `.meta` can be saved (`UploadResumable`; a failure is an
answer 500 for a chunk that is recorded in memory all the same).
The passing run of such a property makes the same assumption in its constants. The
theorems that tie the stream to the checker assume what the constants of `SSEHub` stand
for (`Describes`): they are read off a configuration in which paths have one component,
none twice, and only `/user` is private, as in `config.yaml.example`. They assume nothing
of who has a home: an answer has found it or not, and the disk of the check agrees with
the answer (`Finds`). The parent of the homes is not among the directories they speak of
(`OnDisk`): everybody may read it, and no snapshot but an administrator's lets its events
through. Users and roles have different IDs there, because the
stream's model keeps the readers of a directory in one set; the code keeps them apart.

*Model-checked only.* Liveness (ExpiredVanish, SlotComesBack, FilterConverges,
BroadcastEnds, LeaversClosed, Recovers, OutageEnds, SessionsEnd) and all that rests
on fairness is beyond the prover; so are the runs that expect a violation. Every
invariant and action property of a passing run, and every refinement, is proved.

What liveness rests on besides fairness is proved step by step, for every instance: that
what is reached is not lost again (`UploadForgetsForGood`, `SSESettles`,
`RestStaysHealed`; a broadcast only shrinks and a session that has ended does not come
back, by the refinements), that one step gets there (`UploadCleanupFreesSlots`), and that
nobody is left waiting for nobody (`RestWaitersLed`, `GatewayOutageOwned`). That the step
is in the end taken is what the runs check.

## 5. Findings

Each is reached by a run that expects the violation; `PROJECT.json` quotes the
comment that says otherwise.

* `upload_short_chunks`: the size check of `CompleteUpload` does not see holes.
  Each chunk may be shorter than its place, and a write at a later offset makes the
  size right.
* `upload_subdirectory`: `loadSessionFromMeta` searches the configured directories
  and not below them, so no upload into a private directory survives a restart.
* `upload_meta_name`: `cleanupOrphanedFiles` takes a user's published `*.meta` file
  for a session file.
* `sse_panic`: `RefreshUserFilter` may send on a channel that `HandleSSE` has closed
  since the client was collected; the panic is in a goroutine nothing recovers.
* `rest_retry_after`: `clearCooldown` runs on every success, also on that of a
  request sent before a 429 was answered, and ends the wait the 429 asked for.
  `CooldownHolds` shows that this is the only way a wait is cut short.

*Observations.* These came up while modelling; no comment says otherwise, so no run
expects their violation, and the models behave this way.

* After a resumed session the gateway's table is not made ready again: no chunk
  arrives to raise it. REST answers from then on, as `DownMeansRest` permits.
* The backoff's cap of 5 minutes is not reached within six attempts.
* A lost connection that is told twice leaves a second request to reconnect: the
  supervisor then tries to open the open connection until no attempt is left, and
  closes it. `HealthyKept` says that nothing else makes it do so.
* The comment at `middleware.go:291` says that roles are taken from the provider and
  not from a cache. The provider itself caches: with OIDC they are those of the last
  login, with Discord's REST those of `fetchMember`'s cache.
* A crash between the creation and the writing of `config.yaml` leaves an empty file,
  which is not generated again; the server then refuses to start until it is edited.
* An environment variable that sets a number to 0 is applied after the defaults, so it
  is neither replaced by one nor, for the settings `Validate` does not look at, refused.
* A deletion leaves the row of the file, and an upload may insert its row after the
  file has been deleted. Listings start from the files, so such rows do not show.
* `ListFiles` reads a file's size before its row: of a file being written the two may
  differ.
* A deletion removes the named path and nothing else. A filename of "." names the
  checked directory itself, which `os.Remove` takes if it is empty; of a configured
  directory that went this way, nothing makes a new one before the next start.
  `UsableConfig` says that this is the only way it goes.
* A download of a directory is answered 200 with the size of the directory declared and
  no content (`file.go:201`); `ContentTrue` speaks of files.
* The check of a download is of the directory in the URL, and `filename` may contain
  separators (`helpers.go:54`). `permission.go:86` allows a listing only of the parent of
  the homes, and `docs/CONFIGURATION.md:192` gives a home to its owner and administrators;
  the check lets everybody read the parent, and a download that names it goes on to
  wherever the rest of the path leads. `ActedWithPermission` holds of every other
  request, and leaves this one out where its path leads.
* Such a download broadcasts an event about the parent of the homes, which everybody may
  read and only administrators' snapshots let through. `SnapshotAgrees` leaves it out.
* Paths may also name the `.temp` and `.meta` files of chunked uploads. `FileServer` has
  published files only, `UploadManager` no requests by path: this is not modelled.
* The lookup of an upload after a restart globs `<id>_*.meta`, which a published file
  of such a name would match; `UploadManager` looks for session files only.
* A member who left the guild while the gateway was disconnected stays in its table after
  a resynchronisation, until another event about it or the end of the process
  (`TableTrue` leaves out `lost` users).
* The comment at `discord_gateway.go:117` says that lookups go to REST while the
  gateway is disconnected. A chunk of the old connection that is applied after the loss
  was handled raises `ready` again; the table then serves during the outage, and for
  good if reconnecting is given up. `DownMeansRest` and `OutageEnds` say that nothing
  else does (`late`).
* Between `ready` and the store of the gateway pointer a change is notified while roles
  are still resolved by REST, whose cache may be older. `HeardCurrent` speaks of what is
  told while the table serves.
* With OIDC, a restore from the table that began before a login may put the older roles
  over those the login has just cached; and a login whose `SaveRoles` fails is admitted,
  on roles that a restart replaces by older ones. `LoginKept` speaks of the other logins.
* `IsMember` of the OIDC provider reads the role cache and not the token of its own login:
  of two logins of one user at the same time the later token decides for both
  (`alone` in `OwnRolesAdmit` and `SessionPromise`).
* Two users whose names sanitize to the same directory share a home.
* `ListedIsAllowed` is stated for regular configurations: a private directory that is
  not called `user`, or directories listed twice or inside each other, make the
  listing and the check of a single operation disagree.

## 6. Plan and limits

Every component that keeps state is modelled, with a passing run and, for each safety
property, a proof. What could come next, in the order of what it adds:

1. **A change of roles end to end**: GatewaySync, DiscordRest and SSEHub composed, so
   that a change is in the end reflected in the filter whichever way the roles were
   read. Each boundary is over-approximated today (section 2.7), which covers safety;
   the composition would add liveness across the three.
2. **The unlocked reads** of a session by the chunk handlers, with `SaveChunk` split
   at its append.
3. **Requests of one browser side by side**: a visit that overlaps a logout with the same
   cookie. `Accounts` lets each browser make one request at a time.
4. **A torn `.meta`** in `upload_service`, whose faults leave `.meta` out, so that
   `Resumable` holds; `upload_safety` has it.
5. **Larger instances**: two guild members in one chunk, and two losses of the
   connection. The proofs cover them for safety, not for `OutageEnds`.

Not modelled: the real IP address (a function of headers that only log lines use),
logging, panics recovered by middleware, the admin views and the models' serialisation
(no state changes), routing, templates and static files, the browser code beyond what
it sends (the environment of UploadManager and Accounts). YAML, SQLite, discordgo, the
OAuth2 and OpenID libraries are external, represented by how they are used. Wall-clock
durations are left out: only the order of events in time matters to the properties.
