------------------------------- MODULE SSEHub -------------------------------
(***************************************************************************)
(* The event stream: internal/handler/sse.go, with the snapshot of a       *)
(* user's readable directories from internal/permission/permission.go.     *)
(*                                                                         *)
(* Each connection has a goroutine of its own (HandleSSE): it resolves the *)
(* client's filter, registers the client, and then loops over its channel, *)
(* a timer that resolves the filter again, and the end of the request.     *)
(* Broadcasts run in the goroutines of other requests, RefreshUserFilter   *)
(* in those of the Discord gateway's handlers.  They share the map of      *)
(* clients (under the RWMutex h.mu), the filters (atomic pointers) and the *)
(* channels (buffered, sends never block).                                 *)
(*                                                                         *)
(* Resolving a filter asks the provider for the user's roles, looks for    *)
(* the home, which an OIDC user has only after an upload, asks for the     *)
(* roles again for the admin flag, and then stores it: four steps, between *)
(* which anything may happen.  A panic in a handler of the gateway is not  *)
(* recovered and ends the process.                                         *)
(***************************************************************************)
EXTENDS Integers, Sequences, FiniteSets, SequencesExt

CONSTANTS
  Clients,           \* connections, each made once
  Users,
  Owner,             \* [Clients -> Users]: sseClient.userID
  Notifiers,         \* goroutines that may run RefreshUserFilter
  Broadcasters,      \* goroutines that may run broadcast
  Answers,           \* what the lookups for a user may find: what GetUserRoles
                     \* answers, a set of roles or NoAnswer, and if the home is found
  AdminRoles,        \* the configured admin role, or none
  Configured,        \* shared directories: the sequence of the parts of a path
  ReadGrants,        \* [Configured -> the roles and users, or Anyone, granted read]
  Homes,             \* [Users -> the user's private directory]
  EventDirs,         \* directories events are about, or Everybody for none
  Capacity,          \* of a client's channel
  MaxChanges,        \* bound on the changes of what the lookups find
  MaxEvents,         \* bound on the number of broadcasts
  NoAnswer, Anyone, Everybody, NoFilter, None

VARIABLES
  phase,             \* where the goroutine of each connection is
  gone,              \* the connections whose request has ended
  filter,            \* client.filter
  queue,             \* client.ch: the directories of the events in it
  lookup,            \* the refreshFilter a connection or a notifier is in
  work,              \* the RefreshUserFilter each notifier is in
  sending,           \* the broadcast each broadcaster is in, under the read lock
  answer,            \* what the lookups for each user find now
  changes, events,   \* number of changes and broadcasts so far
  panicked,          \* a send on a closed channel ended the process
  held               \* history: the answers there were during the connection

vars == <<phase, gone, filter, queue, lookup, work, sending, answer,
          changes, events, panicked, held>>

Dirs == Configured \cup {Homes[u] : u \in Users}

ASSUME SSEAssumption ==
  /\ Owner \in [Clients -> Users]
  /\ \A ans \in Answers : ans.home \in BOOLEAN
  /\ Clients \cap Notifiers = {} /\ None \notin Clients \cup Users
  /\ NoFilter \notin [dirs : SUBSET Dirs, admin : BOOLEAN]
  /\ Capacity \in Nat /\ MaxChanges \in Nat /\ MaxEvents \in Nat

-----------------------------------------------------------------------------
(* Permissions: ReadFilterFor and CanRead *)

\* Roles of an answer: an error leaves only the grants that need no role.
RolesIn(ans) == IF ans.roles = NoAnswer THEN {} ELSE ans.roles

\* Mutant: an error counts as "yes".
IsAdminUnlessRefuted(ans) == ans.roles = NoAnswer \/ RolesIn(ans) \cap AdminRoles # {}

\* isAdmin, where ReadFilterFor takes an error for "no".
IsAdmin(ans) == RolesIn(ans) \cap AdminRoles # {}

\* GetAccessibleDirectories, those with the read permission: of the shared ones
\* as the roles say ...
SharedDirs(user, ans) ==
  {d \in Configured : IsAdmin(ans) \/ ReadGrants[d] \cap ({Anyone, user} \cup RolesIn(ans)) # {}}

\* ... and the home, if the user's row can be read and the directory is there.  A
\* directory of type user_private is configured.
HomeDirs(user, ans) == IF ans.home THEN {Homes[user]} ELSE {}

AccessibleDirs(user, ans) == SharedDirs(user, ans) \cup HomeDirs(user, ans)

CanRead(f, dir) ==
  /\ f # NoFilter
  /\ f.admin \/ \E allowed \in f.dirs : IsPrefix(allowed, dir)

CanReceive(c, dir) == dir = Everybody \/ CanRead(filter[c], dir)

-----------------------------------------------------------------------------
(* The states of the goroutines, and h.mu *)

\* Not in refreshFilter; and the first step of it.
NoLookup == [step |-> "none", dirs |-> {}, admin |-> FALSE]

Lookup == [NoLookup EXCEPT !.step = "dirs"]

\* Not in RefreshUserFilter; and the call for a user.
AtRest == [step |-> "none", user |-> None, left |-> {}, client |-> None]

Called(user) == [AtRest EXCEPT !.step = "called", !.user = user]

\* Not in broadcast.
Quiet == [dir |-> Everybody, left |-> {}]

Registered == {c \in Clients : phase[c] \in {"open", "refreshing", "leaving"}}

\* A goroutine in h.mu.Lock() waits for the readers inside and keeps new ones out.
MayReadLock == \A c \in Clients : phase[c] \notin {"joining", "leaving"}

\* Mutant: the write lock does not wait for the readers.
MayWriteLockAtOnce == TRUE

MayWriteLock == \A b \in Broadcasters : sending[b].left = {}

Init ==
  /\ phase = [c \in Clients |-> "absent"]
  /\ gone = {}
  /\ filter = [c \in Clients |-> NoFilter]
  /\ queue = [c \in Clients |-> <<>>]
  /\ lookup = [t \in Clients \cup Notifiers |-> NoLookup]
  /\ work = [n \in Notifiers |-> AtRest]
  /\ sending = [b \in Broadcasters |-> Quiet]
  /\ answer \in [Users -> Answers]
  /\ changes = 0 /\ events = 0
  /\ panicked = FALSE
  /\ held = [c \in Clients |-> {}]

-----------------------------------------------------------------------------
(* refreshFilter, run by task t for client c *)

ReadDirs(t, c) ==
  /\ lookup[t].step = "dirs"
  /\ lookup' = [lookup EXCEPT ![t] =
        [step |-> "home", dirs |-> SharedDirs(Owner[c], answer[Owner[c]]), admin |-> FALSE]]
  /\ UNCHANGED <<phase, gone, filter, queue, work, sending, answer, changes, events, panicked, held>>

ReadHome(t, c) ==
  /\ lookup[t].step = "home"
  /\ lookup' = [lookup EXCEPT ![t] =
        [step |-> "admin", dirs |-> @.dirs \cup HomeDirs(Owner[c], answer[Owner[c]]), admin |-> FALSE]]
  /\ UNCHANGED <<phase, gone, filter, queue, work, sending, answer, changes, events, panicked, held>>

ReadAdmin(t, c) ==
  /\ lookup[t].step = "admin"
  /\ lookup' = [lookup EXCEPT ![t] =
        [step |-> "store", dirs |-> @.dirs, admin |-> IsAdmin(answer[Owner[c]])]]
  /\ UNCHANGED <<phase, gone, filter, queue, work, sending, answer, changes, events, panicked, held>>

\* Mutant: a filter that is there is kept.
StoreFirst(t, c) ==
  /\ lookup[t].step = "store"
  /\ filter' = [filter EXCEPT ![c] =
        IF @ = NoFilter THEN [dirs |-> lookup[t].dirs, admin |-> lookup[t].admin] ELSE @]
  /\ lookup' = [lookup EXCEPT ![t] = NoLookup]

\* client.filter.Store: the last one to store wins, however old what it read.
\* ReadFilterFor swallows the errors of its lookups, so refreshFilter's own
\* branch for an error is never taken.
Store(t, c) ==
  /\ lookup[t].step = "store"
  /\ filter' = [filter EXCEPT ![c] = [dirs |-> lookup[t].dirs, admin |-> lookup[t].admin]]
  /\ lookup' = [lookup EXCEPT ![t] = NoLookup]

-----------------------------------------------------------------------------
(* HandleSSE, the goroutine of client c *)

Connect(c) ==
  /\ phase[c] = "absent"
  /\ phase' = [phase EXCEPT ![c] = "resolving"]
  /\ lookup' = [lookup EXCEPT ![c] = Lookup]
  /\ held' = [held EXCEPT ![c] = {answer[Owner[c]]}]
  /\ UNCHANGED <<gone, filter, queue, work, sending, answer, changes, events, panicked>>

\* The filter is resolved: the first time the client now registers.
Resolved(c) ==
  /\ Store(c, c)
  /\ phase' = [phase EXCEPT ![c] = IF @ = "resolving" THEN "joining" ELSE "open"]
  /\ UNCHANGED <<gone, queue, work, sending, answer, changes, events, panicked, held>>

Register(c) ==
  /\ phase[c] = "joining"
  /\ MayWriteLock
  /\ phase' = [phase EXCEPT ![c] = "open"]
  /\ UNCHANGED <<gone, filter, queue, lookup, work, sending, answer, changes, events, panicked, held>>

\* filterTicker fires.
Tick(c) ==
  /\ phase[c] = "open"
  /\ phase' = [phase EXCEPT ![c] = "refreshing"]
  /\ lookup' = [lookup EXCEPT ![c] = Lookup]
  /\ UNCHANGED <<gone, filter, queue, work, sending, answer, changes, events, panicked, held>>

\* The next event is written to the response.
Deliver(c) ==
  /\ phase[c] = "open"
  /\ queue[c] # <<>>
  /\ queue' = [queue EXCEPT ![c] = Tail(@)]
  /\ UNCHANGED <<phase, gone, filter, lookup, work, sending, answer, changes, events, panicked, held>>

\* The client hangs up; a hang-up before the loop is first seen in the loop.
HangUp(c) ==
  /\ phase[c] \in {"open", "refreshing"}
  /\ c \notin gone
  /\ gone' = gone \cup {c}
  /\ UNCHANGED <<phase, filter, queue, lookup, work, sending, answer, changes, events, panicked, held>>

\* Mutant: only a failing write ends the loop.
LeaveOnWrite(c) ==
  /\ phase[c] = "open"
  /\ c \in gone /\ queue[c] # <<>>
  /\ phase' = [phase EXCEPT ![c] = "leaving"]
  /\ UNCHANGED <<gone, filter, queue, lookup, work, sending, answer, changes, events, panicked, held>>

\* ctx.Done() is seen, or a write fails; the deferred function asks for the lock.
Leave(c) ==
  /\ phase[c] = "open"
  /\ c \in gone
  /\ phase' = [phase EXCEPT ![c] = "leaving"]
  /\ UNCHANGED <<gone, filter, queue, lookup, work, sending, answer, changes, events, panicked, held>>

Unregister(c) ==
  /\ phase[c] = "leaving"
  /\ MayWriteLock
  /\ phase' = [phase EXCEPT ![c] = "removed"]
  /\ UNCHANGED <<gone, filter, queue, lookup, work, sending, answer, changes, events, panicked, held>>

\* close(client.ch), after the lock is given up.
Close(c) ==
  /\ phase[c] = "removed"
  /\ phase' = [phase EXCEPT ![c] = "closed"]
  /\ UNCHANGED <<gone, filter, queue, lookup, work, sending, answer, changes, events, panicked, held>>

-----------------------------------------------------------------------------
(* broadcast *)

\* Mutant: a full channel is no limit.
OfferAnyway(q, dir) == Append(q, dir)

\* A send with a default branch: a full channel drops the event.
Offer(q, dir) == IF Len(q) < Capacity THEN Append(q, dir) ELSE q

StartBroadcast(b, dir) ==
  /\ events < MaxEvents
  /\ MayReadLock
  /\ sending[b].left = {} /\ Registered # {}
  /\ sending' = [sending EXCEPT ![b] = [dir |-> dir, left |-> Registered]]
  /\ events' = events + 1
  /\ UNCHANGED <<phase, gone, filter, queue, lookup, work, answer, changes, panicked, held>>

\* Mutant: the send waits for room in the channel.
SendToAndWait(b, c) ==
  /\ c \in sending[b].left
  /\ Len(queue[c]) < Capacity
  /\ queue' = [queue EXCEPT ![c] =
        IF CanReceive(c, sending[b].dir) THEN Offer(@, sending[b].dir) ELSE @]
  /\ sending' = [sending EXCEPT ![b] = [dir |-> @.dir, left |-> @.left \ {c}]]
  /\ UNCHANGED <<phase, gone, filter, lookup, work, answer, changes, events, panicked, held>>

\* The read lock is given up with the last client.
SendTo(b, c) ==
  /\ c \in sending[b].left
  /\ queue' = [queue EXCEPT ![c] =
        IF CanReceive(c, sending[b].dir) THEN Offer(@, sending[b].dir) ELSE @]
  /\ sending' = [sending EXCEPT ![b] = [dir |-> @.dir, left |-> @.left \ {c}]]
  /\ UNCHANGED <<phase, gone, filter, lookup, work, answer, changes, events, panicked, held>>

-----------------------------------------------------------------------------
(* RefreshUserFilter, run by notifier n *)

\* What the provider answers for the user changes, or becomes or ceases to be
\* an error; or the home is made, removed, or cannot be looked up for a while.
\* A change the gateway reports calls RefreshUserFilter.
RolesChange(user, ans) ==
  /\ changes < MaxChanges
  /\ ans # answer[user]
  /\ answer' = [answer EXCEPT ![user] = ans]
  /\ held' = [c \in Clients |->
        IF Owner[c] = user /\ phase[c] # "absent" THEN held[c] \cup {ans} ELSE held[c]]
  /\ changes' = changes + 1
  /\ \/ UNCHANGED work
     \/ \E n \in Notifiers : work[n] = AtRest /\ work' = [work EXCEPT ![n] = Called(user)]
  /\ UNCHANGED <<phase, gone, filter, queue, lookup, sending, events, panicked>>

\* The clients of the user are collected under the read lock.
Collect(n) ==
  /\ work[n].step = "called"
  /\ MayReadLock
  /\ work' = [work EXCEPT ![n] =
        [step |-> "next", user |-> @.user, client |-> None,
         left |-> {c \in Registered : Owner[c] = work[n].user}]]
  /\ UNCHANGED <<phase, gone, filter, queue, lookup, sending, answer, changes, events, panicked, held>>

NextClient(n) ==
  /\ work[n].step = "next"
  /\ \/ /\ work[n].left = {}
        /\ work' = [work EXCEPT ![n] = AtRest]
        /\ UNCHANGED lookup
     \/ \E c \in work[n].left :
          /\ work' = [work EXCEPT ![n] =
                [step |-> "filter", user |-> @.user, client |-> c, left |-> @.left \ {c}]]
          /\ lookup' = [lookup EXCEPT ![n] = Lookup]
  /\ UNCHANGED <<phase, gone, filter, queue, sending, answer, changes, events, panicked, held>>

FilterRefreshed(n) ==
  /\ Store(n, work[n].client)
  /\ work' = [work EXCEPT ![n] =
        [step |-> "send", user |-> @.user, client |-> @.client, left |-> @.left]]
  /\ UNCHANGED <<phase, gone, queue, sending, answer, changes, events, panicked, held>>

\* permissions_updated is offered to the client.
Notify(n) ==
  LET c == work[n].client
  IN /\ work[n].step = "send"
     /\ phase[c] # "closed"
     /\ queue' = [queue EXCEPT ![c] = Offer(@, Everybody)]
     /\ work' = [work EXCEPT ![n] =
           [step |-> "next", user |-> @.user, client |-> None, left |-> @.left]]
     /\ UNCHANGED <<phase, gone, filter, lookup, sending, answer, changes, events, panicked, held>>

\* The send panics: the channel was closed since the client was collected.
\* The process dies, and with it every connection.
NotifyPanics(n) ==
  /\ work[n].step = "send"
  /\ phase[work[n].client] = "closed"
  /\ phase' = [c \in Clients |-> IF phase[c] = "absent" THEN "absent" ELSE "closed"]
  /\ queue' = [c \in Clients |-> <<>>]
  /\ lookup' = [t \in Clients \cup Notifiers |-> NoLookup]
  /\ work' = [m \in Notifiers |-> AtRest]
  /\ sending' = [b \in Broadcasters |-> Quiet]
  /\ panicked' = TRUE
  /\ UNCHANGED <<gone, filter, answer, changes, events, held>>

-----------------------------------------------------------------------------
LookupSteps(t, c) == ReadDirs(t, c) \/ ReadHome(t, c) \/ ReadAdmin(t, c)

Connection(c) == LookupSteps(c, c) \/ Resolved(c) \/ Register(c) \/ Unregister(c) \/ Close(c)

Notifier(n) ==
  \/ Collect(n) \/ NextClient(n) \/ Notify(n) \/ NotifyPanics(n)
  \/ work[n].step = "filter" /\ (LookupSteps(n, work[n].client) \/ FilterRefreshed(n))

Next ==
  \/ \E c \in Clients : \/ Connection(c) \/ Connect(c) \/ Tick(c) \/ Deliver(c)
                         \/ HangUp(c) \/ Leave(c)
  \/ \E b \in Broadcasters, dir \in EventDirs : StartBroadcast(b, dir)
  \/ \E b \in Broadcasters, c \in Clients : SendTo(b, c)
  \/ \E n \in Notifiers : Notifier(n)
  \/ \E user \in Users, ans \in Answers : RolesChange(user, ans)

Spec == Init /\ [][Next]_vars

\* Goroutines go on, GetUserRoles returns (the HTTP client has a timeout), the
\* timer of a connection fires for as long as its loop runs, and select, which
\* chooses at random among what is ready, does not pass over the end of the
\* request forever.  No client has to read its stream.
Fairness ==
  /\ \A c \in Clients : WF_vars(Connection(c)) /\ WF_vars(Tick(c)) /\ SF_vars(Leave(c))
  /\ \A n \in Notifiers : WF_vars(Notifier(n))
  /\ \A b \in Broadcasters : WF_vars(\E c \in Clients : SendTo(b, c))

FairSpec == Spec /\ Fairness
-----------------------------------------------------------------------------
(* Properties *)

Filters == [dirs : SUBSET Dirs, admin : BOOLEAN]

Phases == {"absent", "resolving", "joining", "open", "refreshing", "leaving", "removed", "closed"}

\* Every variable keeps its type, and a channel its capacity.
TypeOK ==
  /\ phase \in [Clients -> Phases]
  /\ gone \subseteq Clients
  /\ filter \in [Clients -> {NoFilter} \cup Filters]
  /\ queue \in [Clients -> Seq(EventDirs \cup {Everybody})]
  /\ \A c \in Clients : Len(queue[c]) <= Capacity
  /\ lookup \in [Clients \cup Notifiers ->
                  [step : {"none", "dirs", "home", "admin", "store"}, dirs : SUBSET Dirs, admin : BOOLEAN]]
  /\ work \in [Notifiers -> [step : {"none", "called", "next", "filter", "send"},
                             user : {None} \cup Users, left : SUBSET Clients,
                             client : {None} \cup Clients]]
  /\ sending \in [Broadcasters -> [dir : EventDirs \cup {Everybody}, left : SUBSET Clients]]
  /\ answer \in [Users -> Answers]
  /\ changes \in 0..MaxChanges /\ events \in 0..MaxEvents
  /\ panicked \in BOOLEAN
  /\ held \in [Clients -> SUBSET Answers]

\* What the rules let a user read, said without a snapshot: the own home if it is
\* there, and what the roles grant.
OwnHome(user, ans, dir) == ans.home /\ IsPrefix(Homes[user], dir)

RolesAllow(user, ans, dir) ==
  \/ \E role \in AdminRoles : ans.roles # NoAnswer /\ role \in ans.roles
  \/ \E d \in Configured : IsPrefix(d, dir) /\
        \/ Anyone \in ReadGrants[d] \/ user \in ReadGrants[d]
        \/ ans.roles # NoAnswer /\ ans.roles \cap ReadGrants[d] # {}

MayRead(user, ans, dir) == OwnHome(user, ans, dir) \/ RolesAllow(user, ans, dir)

\* No client is sent an event about a directory that its user could at no
\* moment of the connection read: stale snapshots, snapshots that mix two
\* answers, lost refreshes and errors of the provider notwithstanding.
NothingForeign ==
  \A c \in Clients : \A k \in DOMAIN queue[c] :
    queue[c][k] # Everybody => \E ans \in held[c] : MayRead(Owner[c], ans, queue[c][k])

\* A connection as its subscriber sees it, and what its user could read.
StreamView(c) ==
  CASE phase[c] \in {"absent", "resolving", "joining"} -> "before"
    [] phase[c] \in {"open", "refreshing", "leaving"} -> "subscribed"
    [] phase[c] = "removed" -> "ended"
    [] phase[c] = "closed" -> "closed"

About == EventDirs \ {Everybody}
ReadOnce(c) == {dir \in About : \E ans \in held[c] : MayRead(Owner[c], ans, dir)}

\* For one reason or the other all the time: a snapshot may mix a moment without
\* the home with one without the role.
ReadAlways(c) ==
  {dir \in About : \/ \A ans \in held[c] : OwnHome(Owner[c], ans, dir)
                   \/ \A ans \in held[c] : RolesAllow(Owner[c], ans, dir)}

Promise == INSTANCE StreamPromise WITH
  stream <- [c \in Clients |-> StreamView(c)], due <- sending, waiting <- queue,
  once <- [c \in Clients |-> ReadOnce(c)], always <- [c \in Clients |-> ReadAlways(c)]

\* Locks, filters and lookups keep what the stream promises: a broadcast offers its
\* event once to each client that was registered when it began, and the client
\* cannot go before; whoever might read all along, as owner of the home or by roles,
\* is not passed over by a snapshot that is stale or mixes answers, and whoever never
\* might gets nothing.
StreamPromised == Promise!Spec

\* A broadcast never sends on a closed channel: the clients it still has to
\* visit stay registered under its read lock, and what is registered is open
\* and has a filter ("deregistration under the exclusive lock", HandleSSE).
BroadcastSafe ==
  /\ \A b \in Broadcasters : sending[b].left \subseteq Registered
  /\ \A c \in Registered : filter[c] # NoFilter

\* Once the answers stay as they are, every open client's filter is the one
\* they give, whatever refreshes were lost or came from older answers.
FilterConverges ==
  <>[](\A c \in Clients : phase[c] = "open" =>
         filter[c] = [dirs |-> AccessibleDirs(Owner[c], answer[Owner[c]]),
                      admin |-> IsAdmin(answer[Owner[c]])])

\* A broadcast ends although no client need ever read ("a slow or disconnected
\* client does not block broadcast").
BroadcastEnds ==
  \A b \in Broadcasters : sending[b].left # {} ~> sending[b].left = {}

\* A connection whose request ended is unregistered and its channel closed, in
\* spite of broadcasts that hold the lock ("no channel or goroutine leaks").
LeaversClosed == \A c \in Clients : c \in gone ~> phase[c] = "closed"

\* No send on a closed channel ends the process.
NoSendOnClosed == ~panicked
=============================================================================
