---------------------------- MODULE GatewaySync ----------------------------
(***************************************************************************)
(* The table of members and roles that follows Discord's gateway:          *)
(* internal/authprovider/discord_gateway.go, and the choice between this   *)
(* table and REST in GetUserRoles and VerifyMembership of discord.go.      *)
(*                                                                         *)
(* What a member's roles are is the number of changes the member has gone  *)
(* through (Nobody: no entry).  Every event is handled by a goroutine of   *)
(* its own, so handlers overtake each other between, and within, their     *)
(* two steps.  The library (discordgo) and Discord are modelled from how   *)
(* they are used: Open fails on an open connection, every close is told    *)
(* to handleDisconnect, and a reconnection continues the old session, with *)
(* the missed events delivered late, or starts a new one, which asks for   *)
(* all members again.  Timers fire at any moment.                          *)
(***************************************************************************)
EXTENDS Naturals, Sequences, FiniteSets, FiniteSetsExt

CONSTANTS
  Users,
  Chunks,            \* the members of the guild as Discord splits them: a sequence of sets
  MaxAttempts,       \* gatewayReconnectMaxAttempts
  MaxChanges,        \* bound on the changes of a user in the guild
  MaxDrops           \* bound on the connections that are lost

VARIABLES
  guild,             \* Discord: for each user, the number of changes and membership
  missed,            \* Discord: the events of this session that were not delivered
  requests,          \* Discord: for each request for all members, the next chunk
  link,              \* session.wsConn: "up" or "down"
  session,           \* the number of sessions begun with Discord
  drops,             \* the number of connections lost
  handlers,          \* the goroutines that handle events
  members, ready,    \* gs.members: Nobody or the version known; gs.ready
  token,             \* gs.reconnectCh holds a request
  stop,              \* Close: "no", "stopping", "done"; gs.stopped but for "no"
  start,             \* where StartMembershipSync is
  supervisor,        \* where supervise is
  attempt,           \* the attempt of reconnectWithBackoff
  heard,             \* the roles onChange's receiver has last resolved
  raisedBy,          \* history: the session whose last chunk last raised ready
  late,              \* history: ... after the loss of its connection was handled
  written,           \* history: for each user the last version handled, and the newest
  lost,              \* history: users whose removal was never delivered
  told,              \* history: users whose last change was resolved from the table
  doubled,           \* history: some loss of a connection was told twice
  opened             \* history: calls of Open after Close

discord == <<guild, missed, requests, lost>>
connection == <<link, session, drops>>
table == <<members, ready, raisedBy, late, written>>
program == <<token, start, supervisor, attempt, opened>>
receiver == <<heard, told>>
vars == <<discord, connection, handlers, table, program, stop, receiver, doubled>>

Nobody == 0

ASSUME GatewayAssumption ==
  /\ Chunks \in Seq(SUBSET Users) /\ Chunks # <<>>
  /\ UNION {Chunks[i] : i \in DOMAIN Chunks} = Users
  /\ MaxAttempts \in Nat \ {0} /\ MaxChanges \in Nat /\ MaxDrops \in Nat

-----------------------------------------------------------------------------
\* What a table without errors says of a user.
Current(u) == IF guild[u].member THEN guild[u].version ELSE Nobody

Versions == 1 .. MaxChanges + 1

\* Goroutines, and the step each is at.
Creating == [kind : {"create"}, session : 1 .. MaxDrops + 2]
Chunking == [kind : {"chunk"}, session : 1 .. MaxDrops + 2, request : 1 .. MaxDrops + 2,
             index : DOMAIN Chunks, content : [Users -> {Nobody} \cup Versions],
             step : {"apply", "raise"}]
Member == [kind : {"member"}, user : Users, version : Versions, member : BOOLEAN,
           step : {"apply", "notify"}]
Disconnect == [kind : {"disconnect"}, of : {"drop", "close"} \X (0 .. MaxDrops), copy : {1, 2}]

Done(h) == handlers' = handlers \ {h}
Then(h, step) == handlers' = (handlers \ {h}) \cup {[h EXCEPT !.step = step]}

\* session.Close: the connection is closed, open or not, and handleDisconnect told.
Told(why, copies) ==
  {[kind |-> "disconnect", of |-> <<why, drops>>, copy |-> c] : c \in copies}
CloseSession ==
  /\ link' = "down"
  /\ handlers' = handlers \cup Told("close", {1})
  /\ UNCHANGED <<session, drops, discord, doubled>>

-----------------------------------------------------------------------------
Init ==
  /\ guild \in [Users -> [version : {1}, member : BOOLEAN]]
  /\ missed = {} /\ requests = {} /\ handlers = {}
  /\ link = "down" /\ session = 0 /\ drops = 0
  /\ members = [u \in Users |-> Nobody] /\ ready = FALSE
  /\ token = FALSE /\ stop = "no" /\ start = "new" /\ supervisor = "none" /\ attempt = 0
  /\ heard = [u \in Users |-> Current(u)]
  /\ raisedBy = 0 /\ late = FALSE /\ opened = 0 /\ doubled = FALSE
  /\ written = [u \in Users |-> [last |-> Nobody, newest |-> Nobody]]
  /\ lost = {} /\ told = {}

-----------------------------------------------------------------------------
(* Discord. *)

\* Bound: no more changes and losses once no lookup uses the table any more.
Used == stop = "no" /\ start # "failed"

\* A member's roles change, or the user joins or leaves; told at once if connected.
Change(u) ==
  /\ guild[u].version <= MaxChanges /\ Used
  /\ \E in \in BOOLEAN :
       /\ in \/ guild[u].member
       /\ guild' = [guild EXCEPT ![u] = [version |-> @.version + 1, member |-> in]]
       /\ lost' = lost \ {u}
       /\ LET event == [kind |-> "member", user |-> u, version |-> guild'[u].version,
                        member |-> in, step |-> "apply"]
          IN IF link = "up"
             THEN handlers' = handlers \cup {event} /\ UNCHANGED missed
             ELSE /\ missed' = IF session = 0 THEN {} ELSE missed \cup {event}
                  /\ UNCHANGED handlers
  /\ UNCHANGED <<requests, connection, table, program, stop, receiver, doubled>>

\* The next chunk of an answer arrives.
Deliver(r) ==
  /\ link = "up"
  /\ handlers' = handlers \cup
       {[kind |-> "chunk", session |-> session, request |-> r.of, index |-> r.next,
         content |-> [u \in Users |-> IF u \in Chunks[r.next] THEN Current(u) ELSE Nobody],
         step |-> "apply"]}
  /\ requests' = (requests \ {r}) \cup
       {q \in {[r EXCEPT !.next = @ + 1]} : q.next <= Len(Chunks)}
  /\ UNCHANGED <<guild, missed, lost, connection, table, program, stop, receiver, doubled>>

\* The connection is lost.  The reader and the heartbeat may both notice.
Drop ==
  /\ link = "up" /\ drops < MaxDrops /\ Used
  /\ link' = "down" /\ drops' = drops + 1
  /\ \E copies \in {{1}, {1, 2}} :
       /\ handlers' = handlers \cup Told("drop", copies)
       /\ doubled' = (doubled \/ copies # {1})
  /\ UNCHANGED <<session, discord, table, program, stop, receiver>>

-----------------------------------------------------------------------------
(* session.Open, of which one of these holds. *)

\* A new session: its GuildCreate follows, and what was missed stays so.
Fresh ==
  /\ link = "down" /\ link' = "up" /\ session' = session + 1
  /\ handlers' = handlers \cup {[kind |-> "create", session |-> session']}
  /\ missed' = {} /\ requests' = {}
  /\ lost' = lost \cup {u \in Users : ~guild[u].member /\ \E e \in missed : e.user = u}
  /\ UNCHANGED <<guild, drops>>

\* The old session continues: the missed events are delivered.
Resumed ==
  /\ link = "down" /\ session > 0 /\ link' = "up"
  /\ handlers' = handlers \cup missed /\ missed' = {}
  /\ UNCHANGED <<guild, requests, lost, session, drops>>

\* No connection, or ErrWSAlreadyOpen: a connection there is stays.
Refused == UNCHANGED <<discord, connection, handlers>>

-----------------------------------------------------------------------------
(* The handlers. *)

\* handleGuildCreate asks for all members; the request may fail.
HandleGuildCreate(h) ==
  /\ h.kind = "create" /\ Done(h)
  /\ \/ UNCHANGED requests
     \/ link = "up" /\ requests' = requests \cup {[of |-> h.session, next |-> 1]}
  /\ UNCHANGED <<guild, missed, lost, connection, table, program, stop, receiver, doubled>>

\* The history of a user whose given version is handled.
Write(u, v) == [last |-> v, newest |-> Max({v, written[u].newest})]

\* Mutant: only those without an entry are taken.
ApplyChunkIfNew(h) ==
  /\ h.kind = "chunk" /\ h.step = "apply"
  /\ LET In == {u \in Users : h.content[u] # Nobody /\ members[u] = Nobody}
     IN /\ members' = [u \in Users |-> IF u \in In THEN h.content[u] ELSE members[u]]
        /\ written' = [u \in Users |-> IF u \in In THEN Write(u, h.content[u]) ELSE written[u]]
        /\ told' = {u \in told : members'[u] = members[u]}
  /\ IF h.index >= Len(Chunks) THEN Then(h, "raise") ELSE Done(h)
  /\ UNCHANGED <<discord, connection, ready, raisedBy, late, program, stop, heard, doubled>>

\* handleChunk overwrites the entries of those the chunk contains.
ApplyChunk(h) ==
  /\ h.kind = "chunk" /\ h.step = "apply"
  /\ LET In == {u \in Users : h.content[u] # Nobody}
     IN /\ members' = [u \in Users |-> IF u \in In THEN h.content[u] ELSE members[u]]
        /\ written' = [u \in Users |-> IF u \in In THEN Write(u, h.content[u]) ELSE written[u]]
        /\ told' = {u \in told : members'[u] = members[u]}
  /\ IF h.index >= Len(Chunks) THEN Then(h, "raise") ELSE Done(h)
  /\ UNCHANGED <<discord, connection, ready, raisedBy, late, program, stop, heard, doubled>>

\* The last chunk makes the table ready.
RaiseReady(h) ==
  /\ h.kind = "chunk" /\ h.step = "raise" /\ Done(h)
  /\ ready' = TRUE /\ raisedBy' = h.session
  /\ late' = (link = "down" /\ \A d \in handlers : d.kind # "disconnect")
  /\ UNCHANGED <<discord, connection, members, written, program, stop, receiver, doubled>>

\* upsert and handleMemberRemove.
ApplyMember(h) ==
  /\ members' = [members EXCEPT ![h.user] = IF h.member THEN h.version ELSE Nobody]
  /\ written' = [written EXCEPT ![h.user] = Write(h.user, h.version)]
  /\ UNCHANGED <<ready, raisedBy, late, receiver>>

\* GetUserRoles: from the table, or by REST, live or as cached.
Serving == start = "serving" /\ ready
Answers(u) == IF Serving THEN {members[u]} ELSE {Current(u), heard[u]}

\* notify: nobody is told before the table is ready.
Notify(h) ==
  /\ IF ready
     THEN \E v \in Answers(h.user) : heard' = [heard EXCEPT ![h.user] = v]
     ELSE UNCHANGED heard
  /\ told' = IF Serving THEN told \cup {h.user} ELSE told \ {h.user}
  /\ UNCHANGED table

\* Mutant: the change is notified before it is made.
NotifyFirst(h) ==
  \/ h.step = "apply" /\ Notify(h) /\ Then(h, "notify")
  \/ h.step = "notify" /\ ApplyMember(h) /\ Done(h)

HandleMember(h) ==
  \/ h.step = "apply" /\ ApplyMember(h) /\ Then(h, "notify")
  \/ h.step = "notify" /\ Notify(h) /\ Done(h)

MemberEvent(h) ==
  /\ h.kind = "member" /\ HandleMember(h)
  /\ UNCHANGED <<discord, connection, program, stop, doubled>>

\* Mutants: one of the two is left out.
AskOnly(h) ==
  /\ h.kind = "disconnect" /\ Done(h)
  /\ token' = (token \/ stop = "no")
  /\ UNCHANGED <<discord, connection, table, start, supervisor, attempt, opened, stop, receiver, doubled>>
LowerOnly(h) ==
  /\ h.kind = "disconnect" /\ Done(h)
  /\ IF stop = "no" THEN ready' = FALSE /\ late' = FALSE ELSE UNCHANGED <<ready, late>>
  /\ UNCHANGED <<discord, connection, members, raisedBy, written, program, stop, receiver, doubled>>

\* handleDisconnect, unless stopped, lowers ready and asks for a reconnection,
\* of which supervise learns at any later moment.
HandleDisconnect(h) ==
  /\ h.kind = "disconnect" /\ Done(h)
  /\ IF stop = "no"
     THEN ready' = FALSE /\ late' = FALSE /\ token' = TRUE
     ELSE UNCHANGED <<ready, late, token>>
  /\ UNCHANGED <<discord, connection, members, raisedBy, written, start, supervisor, attempt, opened,
                 stop, receiver, doubled>>

-----------------------------------------------------------------------------
(* StartMembershipSync, run once; a placeholder token never gets here. *)

StartOpen ==
  /\ start = "new"
  /\ \/ Fresh /\ start' = "waiting" /\ UNCHANGED doubled
     \/ CloseSession /\ start' = "failed"
  /\ UNCHANGED <<members, ready, raisedBy, late, written, token, supervisor, attempt, opened, stop, receiver>>

\* The tick that finds the table ready starts supervise ...
StartTick ==
  /\ start = "waiting" /\ ready
  /\ start' = "ready" /\ supervisor' = "waiting"
  /\ UNCHANGED <<discord, connection, handlers, table, token, attempt, opened, stop, receiver, doubled>>

\* ... and StartMembershipSync stores the pointer: lookups use the table.
StorePointer ==
  /\ start = "ready" /\ start' = "serving"
  /\ UNCHANGED <<discord, connection, handlers, table, token, supervisor, attempt, opened, stop, receiver, doubled>>

\* 30 seconds have passed, perhaps just as the table became ready.
StartTimeout ==
  /\ start = "waiting" /\ start' = "failed" /\ CloseSession
  /\ UNCHANGED <<table, token, supervisor, attempt, opened, stop, receiver>>

-----------------------------------------------------------------------------
(* supervise and reconnectWithBackoff. *)

\* Mutants: attempts are not counted, or stopCh is not looked at before the wait.
AttemptUncounted(n) == attempt' = n /\ supervisor' = IF stop # "no" THEN "closing" ELSE "backoff"
AttemptThoughStopped(n) == attempt' = n /\ supervisor' = IF n > MaxAttempts THEN "closing" ELSE "backoff"

\* Another attempt is made unless there were enough, or stopCh is closed.
NextAttempt(n) ==
  /\ attempt' = n
  /\ supervisor' = IF n > MaxAttempts \/ stop # "no" THEN "closing" ELSE "backoff"

Take ==
  /\ supervisor = "waiting" /\ token
  /\ token' = FALSE /\ NextAttempt(1)
  /\ UNCHANGED <<discord, connection, handlers, table, start, opened, stop, receiver, doubled>>

\* stopCh is closed.  A timer that has just expired may win against it.
SuperviseStop ==
  /\ stop # "no"
  /\ \/ supervisor = "waiting" /\ supervisor' = "ended"
     \/ supervisor = "backoff" /\ supervisor' = "closing"
  /\ UNCHANGED <<discord, connection, handlers, table, token, start, attempt, opened, stop, receiver, doubled>>

\* Mutant: a success does not end the attempts.
ReconnectedGoesOn == NextAttempt(attempt + 1)

Reconnected == supervisor' = "waiting" /\ UNCHANGED attempt

\* Discord closed with one of fatalGatewayCloseCodes: no further attempt.
FatalClose == link = "down" /\ supervisor' = "closing" /\ UNCHANGED attempt

\* The backoff is over: Open succeeds, or fails for now, or for good.
TryOpen ==
  /\ supervisor = "backoff"
  /\ opened' = IF stop = "no" THEN 0 ELSE opened + 1
  /\ \/ Fresh /\ Reconnected
     \/ Resumed /\ Reconnected
     \/ Refused /\ NextAttempt(attempt + 1)
     \/ Refused /\ FatalClose
  /\ UNCHANGED <<members, ready, raisedBy, late, written, token, start, stop, receiver, doubled>>

GiveUp ==
  /\ supervisor = "closing" /\ supervisor' = "ended" /\ CloseSession
  /\ UNCHANGED <<table, token, start, attempt, opened, stop, receiver>>

-----------------------------------------------------------------------------
(* StopMembershipSync, at the shutdown: Close, if the pointer is stored. *)

Stop ==
  /\ start = "serving" /\ stop = "no"
  /\ stop' = "stopping" /\ ready' = FALSE
  /\ UNCHANGED <<discord, connection, handlers, members, raisedBy, late, written, program, receiver, doubled>>

StopClose ==
  /\ stop = "stopping" /\ stop' = "done" /\ CloseSession
  /\ UNCHANGED <<table, program, receiver>>

-----------------------------------------------------------------------------
Handle == \E h \in handlers :
  HandleGuildCreate(h) \/ ApplyChunk(h) \/ RaiseReady(h) \/ MemberEvent(h) \/ HandleDisconnect(h)
Begin == StartOpen \/ StartTick \/ StorePointer \/ StartTimeout
Supervise == Take \/ SuperviseStop \/ TryOpen \/ GiveUp
Program == Handle \/ Begin \/ Supervise \/ StopClose

Next ==
  \/ \E u \in Users : Change(u)
  \/ \E r \in requests : Deliver(r)
  \/ Drop
  \/ Program
  \/ Stop

Spec == Init /\ [][Next]_vars

\* Some goroutine runs while one can, timers fire, and Open returns: no goroutine
\* takes steps for ever.  Nothing is owed by Discord.
Fairness == WF_vars(Program)
FairSpec == Spec /\ Fairness

-----------------------------------------------------------------------------
(* Properties. *)

\* Every variable keeps its type; in particular no outage sees more than
\* MaxAttempts attempts, and the channel of capacity one holds one request.
TypeOK ==
  /\ guild \in [Users -> [version : Versions, member : BOOLEAN]]
  /\ missed \subseteq Member
  /\ requests \subseteq [of : 1 .. MaxDrops + 2, next : DOMAIN Chunks]
  /\ link \in {"up", "down"} /\ session \in 0 .. MaxDrops + 2 /\ drops \in 0 .. MaxDrops
  /\ handlers \subseteq Creating \cup Chunking \cup Member \cup Disconnect
  /\ members \in [Users -> {Nobody} \cup Versions] /\ ready \in BOOLEAN
  /\ token \in BOOLEAN /\ stop \in {"no", "stopping", "done"}
  /\ start \in {"new", "waiting", "ready", "serving", "failed"}
  /\ supervisor \in {"none", "waiting", "backoff", "closing", "ended"}
  /\ attempt \in 0 .. MaxAttempts + 1 /\ (supervisor = "backoff" => attempt \in 1 .. MaxAttempts)
  /\ heard \in [Users -> {Nobody} \cup Versions]
  /\ raisedBy \in 0 .. MaxDrops + 2 /\ late \in BOOLEAN
  /\ written \in [Users -> [last : {Nobody} \cup Versions, newest : {Nobody} \cup Versions]]
  /\ lost \subseteq Users /\ told \subseteq Users
  /\ doubled \in BOOLEAN /\ opened \in Nat

\* No handler is running, and Discord has nothing more to send.
Settled == handlers = {} /\ requests = {}

\* Some older version of the user was handled after a newer one.
Overtaken(u) == written[u].last # written[u].newest

\* While the connection stands and its own synchronisation made the table ready,
\* the table is what Discord knows, but for two kinds of users the code has no
\* means to get right: one whose events overtook each other, and one who left
\* while the connection was lost (a synchronisation only adds and overwrites).
TableTrue ==
  Settled /\ link = "up" /\ ready /\ raisedBy = session =>
    \A u \in Users : members[u] = Current(u) \/ Overtaken(u) \/ u \in lost

\* Without a connection the lookups go to REST, during the outage and for good
\* once reconnecting was given up, unless the last chunk of the lost connection
\* was handled only after the loss (handleChunk raises ready whatever the link).
DownMeansRest ==
  Settled /\ link = "down" /\ stop = "no" /\ start # "failed" => ~ready \/ late

\* Who is notified (SSE filters) has resolved the roles the table holds, unless the
\* last change came with a chunk, before ready, or before the pointer was stored.
HeardCurrent ==
  Settled /\ Serving => \A u \in told : heard[u] = members[u]

\* supervise closes a standing connection only after one loss was told twice: the
\* second request makes it open the open connection until it has no attempt left.
HealthyKept == supervisor = "closing" /\ link = "up" /\ stop = "no" => doubled

\* Close ends reconnecting: at most the attempt whose timer had expired is made.
NoOpenAfterClose == opened <= 1

\* Once the table serves, a lost connection is made again, or supervise has ended
\* and every lookup goes to REST: unless the last chunk was handled after the loss
\* (late; then the table of a dead connection may serve for good, as nobody is left
\* to lower ready), or the server is being shut down.  And StartMembershipSync ends.
OutageEnds ==
  /\ start = "serving" /\ link = "down"
       ~> link = "up" \/ (supervisor = "ended" /\ (~ready \/ late \/ stop # "no"))
  /\ start = "new" ~> start \in {"serving", "failed"}
=============================================================================
