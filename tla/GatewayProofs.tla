--------------------------- MODULE GatewayProofs ---------------------------
(***************************************************************************)
(* Theorems about GatewaySync, for any guild, any number of chunks,        *)
(* changes, lost connections and attempts, and any order of the handlers.  *)
(***************************************************************************)
EXTENDS GatewaySync, TLAPS

-----------------------------------------------------------------------------
(* Type correctness *)

Handlers == Creating \cup Chunking \cup Member \cup Disconnect

DiscordOK ==
  /\ guild \in [Users -> [version : Versions, member : BOOLEAN]]
  /\ missed \subseteq Member
  /\ requests \subseteq [of : 1 .. MaxDrops + 2, next : DOMAIN Chunks]
  /\ lost \subseteq Users

LinkOK == link \in {"up", "down"} /\ session \in 0 .. MaxDrops + 2 /\ drops \in 0 .. MaxDrops

TableOK ==
  /\ members \in [Users -> {Nobody} \cup Versions] /\ ready \in BOOLEAN
  /\ heard \in [Users -> {Nobody} \cup Versions]
  /\ raisedBy \in 0 .. MaxDrops + 2 /\ late \in BOOLEAN
  /\ written \in [Users -> [last : {Nobody} \cup Versions, newest : {Nobody} \cup Versions]]
  /\ told \subseteq Users /\ doubled \in BOOLEAN

ProgramOK ==
  /\ token \in BOOLEAN /\ stop \in {"no", "stopping", "done"}
  /\ start \in {"new", "waiting", "ready", "serving", "failed"}
  /\ supervisor \in {"none", "waiting", "backoff", "closing", "ended"}
  /\ attempt \in 0 .. MaxAttempts + 1 /\ (supervisor = "backoff" => attempt \in 1 .. MaxAttempts)
  /\ opened \in Nat

LEMMA TypeParts ==
  /\ TypeOK <=> DiscordOK /\ LinkOK /\ TableOK /\ ProgramOK /\ handlers \subseteq Handlers
  /\ TypeOK' <=> DiscordOK' /\ LinkOK' /\ TableOK' /\ ProgramOK' /\ handlers' \subseteq Handlers
BY DEF TypeOK, DiscordOK, LinkOK, TableOK, ProgramOK, Handlers

\* A new session needs a lost connection, but for the first, and for one that is
\* opened after Close has closed the last.
Sessions ==
  /\ start = "new" => session = 0 /\ drops = 0 /\ link = "down" /\ supervisor = "none"
  /\ supervisor # "none" <=> start \in {"ready", "serving"}
  /\ stop # "no" => start = "serving"
  /\ link = "up" => session > 0
  /\ session <= drops + (IF stop = "done" THEN 1 ELSE 0)
                + (IF link = "up" \/ supervisor = "ended" \/ start = "failed" THEN 1 ELSE 0)

TypeInv == TypeOK /\ Sessions

LEMMA Bounds ==
  MaxAttempts \in Nat /\ MaxAttempts > 0 /\ MaxChanges \in Nat /\ MaxDrops \in Nat
BY GatewayAssumption

LEMMA TypeInit == Init => TypeInv
<1> SUFFICES ASSUME Init PROVE TypeInv
  OBVIOUS
<1>1. DiscordOK
  <2>1. 1 \in Versions
    BY GatewayAssumption DEF Versions
  <2> QED
    BY <2>1 DEF Init, DiscordOK
<1>2. TableOK
  <2>1. \A u \in Users : Current(u) \in {Nobody} \cup Versions
    BY <1>1 DEF DiscordOK, Current
  <2>2. ready \in BOOLEAN /\ late \in BOOLEAN /\ doubled \in BOOLEAN
    BY Zenon DEF Init
  <2> QED
    BY <2>1, <2>2, Bounds DEF Init, TableOK
<1>4. LinkOK
  BY GatewayAssumption DEF Init, LinkOK
<1>5. ProgramOK
  <2>1. token \in BOOLEAN
    BY Zenon DEF Init
  <2> QED
    BY <2>1, Bounds DEF Init, ProgramOK
<1>6. handlers \subseteq Handlers
  BY DEF Init
<1>3. Sessions
  BY DEF Init, Sessions
<1> QED
  BY <1>1, <1>2, <1>3, <1>4, <1>5, <1>6, TypeParts DEF TypeInv

\* A handler that goes on, or ends, leaves a set of handlers.
LEMMA HandlersKept ==
  ASSUME handlers \subseteq Handlers, NEW h \in handlers
  PROVE  /\ Done(h) => handlers' \subseteq Handlers
         /\ h.kind = "chunk" /\ Then(h, "raise") => handlers' \subseteq Handlers
         /\ h.kind = "member" /\ Then(h, "notify") => handlers' \subseteq Handlers
<1>1. h.kind = "chunk" => h \in Chunking
  BY DEF Handlers, Creating, Chunking, Member, Disconnect
<1>2. h.kind = "member" => h \in Member
  BY DEF Handlers, Creating, Chunking, Member, Disconnect
<1>3. h \in Chunking => [h EXCEPT !.step = "raise"] \in Chunking
  BY DEF Chunking
<1>4. h \in Member => [h EXCEPT !.step = "notify"] \in Member
  BY DEF Member
<1> QED
  BY <1>1, <1>2, <1>3, <1>4 DEF Done, Then, Handlers

LEMMA ToldType ==
  ASSUME drops \in 0 .. MaxDrops, NEW why \in {"drop", "close"}, NEW copies \in SUBSET {1, 2}
  PROVE  Told(why, copies) \subseteq Disconnect
BY DEF Told, Disconnect

LEMMA MaxOfTwo ==
  ASSUME NEW a \in Nat, NEW b \in Nat
  PROVE  Max({a, b}) = IF a >= b THEN a ELSE b
BY DEF Max

LEMMA WriteType ==
  ASSUME TableOK, NEW u \in Users, NEW v \in {Nobody} \cup Versions
  PROVE  Write(u, v) \in [last : {Nobody} \cup Versions, newest : {Nobody} \cup Versions]
<1>1. v \in Nat /\ written[u].newest \in Nat /\ written[u].newest \in {Nobody} \cup Versions
  BY GatewayAssumption DEF TableOK, Versions, Nobody
<1>2. Max({v, written[u].newest}) \in {Nobody} \cup Versions
  BY <1>1, MaxOfTwo
<1> QED
  BY <1>2 DEF Write

\* What an action leaves alone.
LEMMA Kept ==
  /\ DiscordOK /\ UNCHANGED discord => DiscordOK'
  /\ LinkOK /\ UNCHANGED connection => LinkOK'
  /\ TableOK /\ UNCHANGED <<table, receiver, doubled>> => TableOK'
  /\ ProgramOK /\ UNCHANGED <<program, stop>> => ProgramOK'
BY DEF DiscordOK, LinkOK, TableOK, ProgramOK, discord, connection, table, receiver, program

LEMMA SessionsKept ==
  ASSUME Sessions, UNCHANGED <<connection, start, supervisor, stop>>
  PROVE  Sessions'
BY DEF Sessions, connection

LEMMA CurrentType ==
  ASSUME DiscordOK, NEW u \in Users
  PROVE  Current(u) \in {Nobody} \cup Versions
BY DEF DiscordOK, Current

LEMMA DiscordType ==
  ASSUME TypeInv, (\E u \in Users : Change(u)) \/ (\E r \in requests : Deliver(r)) \/ Drop
  PROVE  TypeInv'
<1> USE TypeParts, Kept DEF TypeInv
<1>1. CASE \E u \in Users : Change(u)
  <2>1. PICK u \in Users : Change(u)
    BY <1>1
  <2>2. PICK in \in BOOLEAN :
          /\ guild' = [guild EXCEPT ![u] = [version |-> @.version + 1, member |-> in]]
          /\ lost' = lost \ {u}
          /\ LET event == [kind |-> "member", user |-> u, version |-> guild'[u].version,
                           member |-> in, step |-> "apply"]
             IN IF link = "up"
                THEN handlers' = handlers \cup {event} /\ UNCHANGED missed
                ELSE /\ missed' = IF session = 0 THEN {} ELSE missed \cup {event}
                     /\ UNCHANGED handlers
    BY <2>1 DEF Change
  <2>3. /\ guild[u].version + 1 \in Versions
        /\ guild' = [guild EXCEPT ![u] = [version |-> guild[u].version + 1, member |-> in]]
    <3>1. guild[u].version \in 1 .. MaxChanges + 1 /\ guild[u].version <= MaxChanges
      BY <2>1 DEF Change, DiscordOK, Versions
    <3> QED
      BY <2>2, <3>1, Bounds DEF Versions
  <2>4. guild' \in [Users -> [version : Versions, member : BOOLEAN]]
    BY <2>3 DEF DiscordOK
  <2> DEFINE event == [kind |-> "member", user |-> u, version |-> guild'[u].version,
                       member |-> in, step |-> "apply"]
  <2>5. event \in Member
    BY <2>4 DEF Member
  <2>6. missed' \subseteq missed \cup {event} /\ handlers' \subseteq handlers \cup {event}
    BY <2>2
  <2> HIDE DEF event
  <2>7. DiscordOK' /\ handlers' \subseteq Handlers
    BY <2>1, <2>2, <2>4, <2>5, <2>6 DEF DiscordOK, Handlers, Change
  <2> QED
    BY <2>1, <2>7, SessionsKept DEF Change, program
<1>2. CASE \E r \in requests : Deliver(r)
  <2>1. PICK r \in requests : Deliver(r)
    BY <1>2
  <2> DEFINE content == [u \in Users |-> IF u \in Chunks[r.next] THEN Current(u) ELSE Nobody]
             h == [kind |-> "chunk", session |-> session, request |-> r.of, index |-> r.next,
                   content |-> content, step |-> "apply"]
  <2>2. r.of \in 1 .. MaxDrops + 2 /\ r.next \in DOMAIN Chunks /\ session \in 1 .. MaxDrops + 2
    BY <2>1 DEF DiscordOK, Deliver, Sessions, LinkOK
  <2>3. content \in [Users -> {Nobody} \cup Versions]
    BY CurrentType
  <2> HIDE DEF content
  <2>4. h \in Chunking
    BY <2>2, <2>3 DEF Chunking
  <2>5. handlers' = handlers \cup {h}
    BY <2>1 DEF Deliver, content
  <2> HIDE DEF h
  <2>6. requests' \subseteq [of : 1 .. MaxDrops + 2, next : DOMAIN Chunks]
    <3>1. r.next \in 1 .. Len(Chunks) /\ DOMAIN Chunks = 1 .. Len(Chunks) /\ Len(Chunks) \in Nat
      BY <2>2, GatewayAssumption
    <3> DEFINE q == [r EXCEPT !.next = @ + 1]
    <3>2. r \in [of : 1 .. MaxDrops + 2, next : DOMAIN Chunks]
      BY DEF DiscordOK
    <3>3. q.next <= Len(Chunks) => q \in [of : 1 .. MaxDrops + 2, next : DOMAIN Chunks]
      BY <3>1, <3>2
    <3>4. requests' = (requests \ {r}) \cup {p \in {q} : p.next <= Len(Chunks)}
      BY <2>1 DEF Deliver
    <3> HIDE DEF q
    <3> QED
      BY <3>3, <3>4 DEF DiscordOK
  <2>7. DiscordOK'
    BY <2>1, <2>6 DEF Deliver, DiscordOK
  <2> QED
    BY <2>1, <2>4, <2>5, <2>7, SessionsKept DEF Deliver, Handlers, program
<1>3. CASE Drop
  <2>1. handlers' \subseteq Handlers /\ TableOK' /\ LinkOK'
    BY <1>3, ToldType, GatewayAssumption DEF Drop, LinkOK, Handlers, TableOK, table, receiver
  <2>2. Sessions'
    BY <1>3 DEF Drop, Used, Sessions, LinkOK, program
  <2> QED
    BY <1>3, <2>1, <2>2 DEF Drop
<1> QED
  BY <1>1, <1>2, <1>3

LEMMA HandleType ==
  ASSUME TypeInv, NEW h \in handlers,
         HandleGuildCreate(h) \/ ApplyChunk(h) \/ RaiseReady(h) \/ MemberEvent(h) \/ HandleDisconnect(h)
  PROVE  TypeInv'
<1> USE TypeParts, Kept, HandlersKept, SessionsKept DEF TypeInv
<1>1. CASE HandleGuildCreate(h)
  <2>1. h \in Creating
    BY <1>1 DEF HandleGuildCreate, Handlers, Creating, Chunking, Member, Disconnect
  <2>2. 1 \in DOMAIN Chunks
    BY GatewayAssumption
  <2>3. DiscordOK'
    BY <1>1, <2>1, <2>2 DEF HandleGuildCreate, DiscordOK, Creating
  <2> QED
    BY <1>1, <2>3 DEF HandleGuildCreate, program
<1>2. CASE ApplyChunk(h)
  <2>1. h \in Chunking
    BY <1>2 DEF ApplyChunk, Handlers, Creating, Chunking, Member, Disconnect
  <2> DEFINE In == {u \in Users : h.content[u] # Nobody}
  <2>2. /\ members' = [u \in Users |-> IF u \in In THEN h.content[u] ELSE members[u]]
        /\ written' = [u \in Users |-> IF u \in In THEN Write(u, h.content[u]) ELSE written[u]]
        /\ told' = {u \in told : members'[u] = members[u]}
    BY <1>2 DEF ApplyChunk
  <2>3. \A u \in Users : h.content[u] \in {Nobody} \cup Versions
    BY <2>1 DEF Chunking
  <2> HIDE DEF In
  <2>4. members' \in [Users -> {Nobody} \cup Versions]
    BY <2>2, <2>3 DEF TableOK
  <2>5. written' \in [Users -> [last : {Nobody} \cup Versions, newest : {Nobody} \cup Versions]]
    BY <2>2, <2>3, WriteType DEF TableOK
  <2>6. told' \subseteq Users
    BY <2>2 DEF TableOK
  <2>7. TableOK'
    BY <1>2, <2>4, <2>5, <2>6 DEF ApplyChunk, TableOK
  <2> QED
    BY <1>2, <2>7 DEF ApplyChunk, program
<1>3. CASE RaiseReady(h)
  <2>1. h \in Chunking
    BY <1>3 DEF RaiseReady, Handlers, Creating, Chunking, Member, Disconnect
  <2>2. h.session \in 0 .. MaxDrops + 2
    BY <2>1, Bounds DEF Chunking
  <2>3. ready' \in BOOLEAN /\ late' \in BOOLEAN
    BY <1>3, Zenon DEF RaiseReady
  <2>4. TableOK'
    BY <1>3, <2>2, <2>3 DEF RaiseReady, TableOK, receiver
  <2> QED
    BY <1>3, <2>4 DEF RaiseReady, program
<1>4. CASE MemberEvent(h)
  <2>1. h \in Member
    BY <1>4 DEF MemberEvent, Handlers, Creating, Chunking, Member, Disconnect
  <2>2. CASE ApplyMember(h) /\ Then(h, "notify")
    <3> DEFINE v == IF h.member THEN h.version ELSE Nobody
    <3>1. v \in {Nobody} \cup Versions /\ h.user \in Users /\ h.version \in {Nobody} \cup Versions
      BY <2>1 DEF Member
    <3>2. Write(h.user, h.version) \in [last : {Nobody} \cup Versions, newest : {Nobody} \cup Versions]
      BY <3>1, WriteType
    <3>3. TableOK'
      BY <1>4, <2>2, <3>1, <3>2 DEF ApplyMember, MemberEvent, TableOK, receiver
    <3> QED
      BY <1>4, <2>2, <3>3 DEF MemberEvent, program
  <2>3. CASE Notify(h) /\ Done(h)
    <3>1. \A u \in Users : Answers(u) \subseteq {Nobody} \cup Versions
      BY CurrentType DEF Answers, TableOK
    <3>2. h.user \in Users
      BY <2>1 DEF Member
    <3>3. heard' \in [Users -> {Nobody} \cup Versions]
      BY <2>3, <3>1, <3>2 DEF Notify, TableOK
    <3>4. TableOK'
      BY <1>4, <2>3, <3>2, <3>3 DEF Notify, MemberEvent, TableOK, table
    <3> QED
      BY <1>4, <2>3, <3>4 DEF MemberEvent, program
  <2> QED
    BY <1>4, <2>2, <2>3 DEF MemberEvent, HandleMember
<1>5. CASE HandleDisconnect(h)
  <2>1. ready' \in BOOLEAN /\ late' \in BOOLEAN /\ token' \in BOOLEAN
    <3>1. ready \in BOOLEAN /\ late \in BOOLEAN /\ token \in BOOLEAN
      BY DEF TableOK, ProgramOK
    <3> QED
      BY <1>5, <3>1, Zenon DEF HandleDisconnect
  <2>2. TableOK' /\ ProgramOK'
    BY <1>5, <2>1 DEF HandleDisconnect, TableOK, ProgramOK, receiver
  <2> QED
    BY <1>5, <2>2 DEF HandleDisconnect
<1> QED
  BY <1>1, <1>2, <1>3, <1>4, <1>5

LEMMA CloseType ==
  ASSUME LinkOK, DiscordOK, TableOK, CloseSession, handlers \subseteq Handlers
  PROVE  LinkOK' /\ DiscordOK' /\ doubled' \in BOOLEAN /\ handlers' \subseteq Handlers
<1>1. Told("close", {1}) \subseteq Disconnect
  BY ToldType DEF LinkOK
<1> QED
  BY <1>1, Kept DEF CloseSession, LinkOK, TableOK, Handlers

\* A connection is opened only where one more session may begin.
LEMMA OpenType ==
  ASSUME TypeInv, Fresh \/ Resumed \/ Refused, start \in {"new", "ready", "serving"},
         supervisor # "ended"
  PROVE  LinkOK' /\ DiscordOK' /\ handlers' \subseteq Handlers
<1> USE TypeParts DEF TypeInv
<1>1. CASE Fresh
  <2>1. session + 1 \in 1 .. MaxDrops + 2
    <3>1. /\ session <= drops + (IF stop = "done" THEN 1 ELSE 0) /\ session \in Nat
          /\ drops \in Nat /\ drops <= MaxDrops
      BY <1>1, Bounds DEF Fresh, Sessions, LinkOK
    <3> QED
      BY <3>1, Bounds
  <2> DEFINE h == [kind |-> "create", session |-> session + 1]
  <2>2. h \in Creating
    BY <2>1 DEF Creating
  <2>3. handlers' = handlers \cup {h}
    BY <1>1 DEF Fresh
  <2> HIDE DEF h
  <2>4. LinkOK'
    BY <1>1, <2>1, Bounds DEF Fresh, LinkOK
  <2>5. DiscordOK'
    BY <1>1 DEF Fresh, DiscordOK
  <2> QED
    BY <2>2, <2>3, <2>4, <2>5 DEF Handlers
<1>2. CASE Resumed
  BY <1>2 DEF Resumed, LinkOK, DiscordOK, Handlers
<1>3. CASE Refused
  BY <1>3, Kept DEF Refused
<1> QED
  BY <1>1, <1>2, <1>3

LEMMA BeginType ==
  ASSUME TypeInv, Begin
  PROVE  TypeInv'
<1> USE TypeParts, Kept DEF TypeInv
<1>1. CASE StartOpen /\ Fresh /\ start' = "waiting" /\ UNCHANGED doubled
  <2>1. LinkOK' /\ DiscordOK' /\ handlers' \subseteq Handlers
    BY <1>1, OpenType DEF StartOpen, Sessions
  <2>2. TableOK' /\ ProgramOK'
    BY <1>1 DEF StartOpen, TableOK, ProgramOK, receiver
  <2>3. Sessions'
    BY <1>1, Bounds DEF StartOpen, Sessions, Fresh, LinkOK
  <2> QED
    BY <2>1, <2>2, <2>3
<1>2. CASE StartOpen /\ CloseSession /\ start' = "failed"
  <2>1. TableOK' /\ ProgramOK'
    BY <1>2, CloseType DEF StartOpen, TableOK, ProgramOK, receiver
  <2>2. Sessions'
    BY <1>2 DEF StartOpen, Sessions, CloseSession, LinkOK
  <2> QED
    BY <1>2, <2>1, <2>2, CloseType
<1>3. CASE StartTick \/ StorePointer
  <2>1. ProgramOK' /\ Sessions'
    BY <1>3 DEF StartTick, StorePointer, ProgramOK, Sessions, connection
  <2> QED
    BY <1>3, <2>1 DEF StartTick, StorePointer
<1>4. CASE StartTimeout
  <2>1. TableOK' /\ ProgramOK'
    BY <1>4, CloseType DEF StartTimeout, TableOK, ProgramOK, table, receiver
  <2>2. Sessions'
    BY <1>4 DEF StartTimeout, Sessions, CloseSession, LinkOK
  <2> QED
    BY <1>4, <2>1, <2>2, CloseType DEF StartTimeout
<1> QED
  BY <1>1, <1>2, <1>3, <1>4 DEF Begin, StartOpen

LEMMA SuperviseType ==
  ASSUME TypeInv, Supervise
  PROVE  TypeInv'
<1> USE TypeParts, Kept DEF TypeInv
<1>1. CASE Take
  <2>1. token' \in BOOLEAN
    BY <1>1, Zenon DEF Take
  <2>2. ProgramOK' /\ Sessions'
    BY <1>1, <2>1, Bounds DEF Take, NextAttempt, ProgramOK, Sessions, connection
  <2> QED
    BY <1>1, <2>2 DEF Take
<1>2. CASE SuperviseStop
  <2>1. ProgramOK' /\ Sessions'
    BY <1>2, Bounds DEF SuperviseStop, ProgramOK, Sessions, connection, LinkOK
  <2> QED
    BY <1>2, <2>1 DEF SuperviseStop
<1>3. CASE TryOpen
  <2>1. Fresh \/ Resumed \/ Refused
    BY <1>3 DEF TryOpen
  <2>2. supervisor = "backoff" /\ start \in {"ready", "serving"} /\ start' = start /\ stop' = stop
    BY <1>3 DEF TryOpen, Sessions
  <2>3. LinkOK' /\ DiscordOK' /\ handlers' \subseteq Handlers
    BY <2>1, <2>2, OpenType
  <2>4. /\ attempt' \in {attempt, attempt + 1} /\ supervisor' \in {"waiting", "closing", "backoff"}
        /\ supervisor' = "backoff" => attempt' = attempt + 1 /\ attempt + 1 <= MaxAttempts
    BY <1>3, <2>2, Bounds DEF TryOpen, Reconnected, NextAttempt, FatalClose, ProgramOK
  <2>5. opened' \in Nat
    BY <1>3 DEF TryOpen, ProgramOK
  <2>6. ProgramOK'
    <3>1. attempt \in 1 .. MaxAttempts
      BY <2>2 DEF ProgramOK
    <3>2. attempt' \in 0 .. MaxAttempts + 1 /\ (supervisor' = "backoff" => attempt' \in 1 .. MaxAttempts)
      BY <2>4, <3>1, Bounds
    <3>3. UNCHANGED <<token, start, stop>>
      BY <1>3 DEF TryOpen
    <3> QED
      BY <2>4, <2>5, <3>2, <3>3 DEF ProgramOK
  <2>7. TableOK'
    BY <1>3 DEF TryOpen, TableOK, receiver
  <2>8. Sessions'
    <3>1. CASE Fresh
      BY <2>2, <2>4, <3>1, Bounds DEF Fresh, Sessions, LinkOK
    <3>2. CASE Resumed
      BY <2>2, <2>4, <3>2, Bounds DEF Resumed, Sessions, LinkOK
    <3>3. CASE Refused
      BY <2>2, <2>4, <3>3 DEF Refused, connection, Sessions
    <3> QED
      BY <2>1, <3>1, <3>2, <3>3
  <2> QED
    BY <2>3, <2>6, <2>7, <2>8
<1>4. CASE GiveUp
  <2>1. TableOK' /\ ProgramOK'
    BY <1>4, CloseType DEF GiveUp, TableOK, ProgramOK, table, receiver
  <2>2. Sessions'
    BY <1>4, Bounds DEF GiveUp, Sessions, CloseSession, LinkOK
  <2> QED
    BY <1>4, <2>1, <2>2, CloseType DEF GiveUp
<1> QED
  BY <1>1, <1>2, <1>3, <1>4 DEF Supervise

LEMMA StopType ==
  ASSUME TypeInv, Stop \/ StopClose
  PROVE  TypeInv'
<1> USE TypeParts, Kept DEF TypeInv
<1>1. CASE Stop
  <2>1. ready' \in BOOLEAN
    BY <1>1, Zenon DEF Stop
  <2>2. TableOK' /\ ProgramOK' /\ Sessions'
    BY <1>1, <2>1 DEF Stop, TableOK, ProgramOK, Sessions, connection, program, receiver
  <2> QED
    BY <1>1, <2>2 DEF Stop
<1>2. CASE StopClose
  <2>1. TableOK' /\ ProgramOK'
    BY <1>2, CloseType DEF StopClose, TableOK, ProgramOK, table, receiver, program
  <2>2. Sessions'
    BY <1>2, Bounds DEF StopClose, Sessions, CloseSession, LinkOK, program
  <2> QED
    BY <1>2, <2>1, <2>2, CloseType DEF StopClose
<1> QED
  BY <1>1, <1>2

LEMMA TypeNext ==
  ASSUME TypeInv, [Next]_vars
  PROVE  TypeInv'
<1>1. CASE UNCHANGED vars
  BY <1>1, TypeParts, Kept, SessionsKept DEF TypeInv, vars, program
<1> QED
  BY <1>1, DiscordType, HandleType, BeginType, SuperviseType, StopType DEF Next, Program, Handle

\* No order of the handlers, losses, retries and the shutdown makes a variable leave
\* its type; no outage sees more than MaxAttempts attempts.
THEOREM GatewayTypeCorrect == Spec => []TypeOK
<1>1. TypeInv => TypeOK
  BY DEF TypeInv
<1> QED
  BY <1>1, TypeInit, TypeNext, PTL DEF Spec

-----------------------------------------------------------------------------
(* After Close *)

\* The one attempt whose timer had expired leaves no other behind it.
CloseInv ==
  /\ opened \in {0, 1}
  /\ stop = "no" => opened = 0
  /\ opened = 1 => supervisor # "backoff"

LEMMA CloseNext ==
  ASSUME CloseInv, [Next]_vars
  PROVE  CloseInv'
<1>1. CASE UNCHANGED <<supervisor, opened>> /\ (stop = "no" <=> stop' = "no")
  BY <1>1 DEF CloseInv
<1>2. CASE (\E u \in Users : Change(u)) \/ (\E r \in requests : Deliver(r)) \/ Drop \/ UNCHANGED vars
  BY <1>1, <1>2 DEF Change, Deliver, Drop, vars, program
<1>3. ASSUME NEW h \in handlers,
             HandleGuildCreate(h) \/ ApplyChunk(h) \/ RaiseReady(h) \/ MemberEvent(h) \/ HandleDisconnect(h)
      PROVE  CloseInv'
  BY <1>1, <1>3 DEF HandleGuildCreate, ApplyChunk, RaiseReady, MemberEvent, HandleDisconnect, program
<1>4. CASE Begin
  BY <1>4 DEF Begin, StartOpen, StartTick, StorePointer, StartTimeout, CloseInv
<1>5. CASE Take \/ SuperviseStop \/ GiveUp
  BY <1>5 DEF Take, NextAttempt, SuperviseStop, GiveUp, CloseInv
<1>6. CASE TryOpen
  BY <1>6 DEF TryOpen, Reconnected, NextAttempt, FatalClose, CloseInv
<1>7. CASE Stop \/ StopClose
  BY <1>7 DEF Stop, StopClose, program, CloseInv
<1> QED
  BY <1>2, <1>3, <1>4, <1>5, <1>6, <1>7 DEF Next, Program, Handle, Supervise

\* Whatever the supervisor was at when Close began, it opens the gateway at most
\* once more.
THEOREM GatewayClosed == Spec => []NoOpenAfterClose
<1>1. Init => CloseInv
  BY DEF Init, CloseInv
<1>2. CloseInv => NoOpenAfterClose
  BY DEF CloseInv, NoOpenAfterClose
<1> QED
  BY <1>1, <1>2, CloseNext, PTL DEF Spec

-----------------------------------------------------------------------------
(* Without a connection *)

Kinds == {"create", "chunk", "member", "disconnect"}

\* A table that is ready without a connection will be told of the loss, or was
\* raised after it.
DownInv ==
  link = "down" /\ stop = "no" /\ start # "failed" /\ ready =>
    late \/ \E h \in handlers : h.kind = "disconnect"

LEMMA HandlerKind ==
  ASSUME TypeOK, NEW h \in handlers
  PROVE  /\ h.kind \in Kinds
         /\ h.kind = "create" <=> h \in Creating
         /\ h.kind = "chunk" <=> h \in Chunking
         /\ h.kind = "member" <=> h \in Member
         /\ h.kind = "disconnect" <=> h \in Disconnect
BY DEF TypeOK, Creating, Chunking, Member, Disconnect, Kinds

\* A handler other than of a loss of the connection leaves those alone.
LEMMA OthersStay ==
  ASSUME NEW h \in handlers, h.kind # "disconnect",
         \/ Done(h) \/ Then(h, "raise") \/ Then(h, "notify")
  PROVE  \A g \in handlers : g.kind = "disconnect" => g \in handlers'
BY DEF Done, Then

LEMMA ToldOf ==
  ASSUME NEW why, NEW copies, 1 \in copies
  PROVE  \E h \in Told(why, copies) : h.kind = "disconnect"
<1> DEFINE h == [kind |-> "disconnect", of |-> <<why, drops>>, copy |-> 1]
<1>1. h \in Told(why, copies) /\ h.kind = "disconnect"
  BY DEF Told
<1> QED
  BY <1>1

LEMMA DownNext ==
  ASSUME DownInv, [Next]_vars
  PROVE  DownInv'
<1>1. CASE /\ UNCHANGED <<link, late>> /\ (ready' => ready)
           /\ stop' = "no" => stop = "no"
           /\ start' # "failed" => start # "failed"
           /\ \A g \in handlers : g.kind = "disconnect" => g \in handlers'
  BY <1>1 DEF DownInv
<1>2. CASE (\E u \in Users : Change(u)) \/ (\E r \in requests : Deliver(r)) \/ UNCHANGED vars
  <2>1. handlers \subseteq handlers' /\ UNCHANGED <<link, late, ready, stop, start>>
    BY <1>2 DEF Change, Deliver, vars, connection, table, program
  <2> QED
    BY <1>1, <2>1
<1>3. CASE Drop
  <2>1. \E h \in handlers' : h.kind = "disconnect"
    BY <1>3, ToldOf DEF Drop
  <2> QED
    BY <2>1 DEF DownInv
<1>4. ASSUME NEW h \in handlers,
             HandleGuildCreate(h) \/ ApplyChunk(h) \/ MemberEvent(h)
      PROVE  DownInv'
  <2>1. h.kind # "disconnect" /\ (Done(h) \/ Then(h, "raise") \/ Then(h, "notify"))
    BY <1>4 DEF HandleGuildCreate, ApplyChunk, MemberEvent, HandleMember
  <2>2. UNCHANGED <<link, late, ready, stop, start>>
    BY <1>4 DEF HandleGuildCreate, ApplyChunk, MemberEvent, HandleMember, ApplyMember, Notify,
                connection, table, program
  <2> QED
    BY <1>1, <2>1, <2>2, OthersStay
<1>5. ASSUME NEW h \in handlers, RaiseReady(h)
      PROVE  DownInv'
  <2>1. h.kind # "disconnect" /\ Done(h)
    BY <1>5 DEF RaiseReady
  <2>2. link' = link /\ late' = (link = "down" /\ \A d \in handlers : d.kind # "disconnect")
    BY <1>5 DEF RaiseReady, connection
  <2> QED
    BY <2>1, <2>2, OthersStay DEF DownInv
<1>6. ASSUME NEW h \in handlers, HandleDisconnect(h)
      PROVE  DownInv'
  BY <1>6 DEF HandleDisconnect, DownInv
<1>7. CASE CloseSession
  <2>1. \E h \in handlers' : h.kind = "disconnect"
    BY <1>7, ToldOf DEF CloseSession
  <2> QED
    BY <2>1 DEF DownInv
<1>8. CASE Fresh \/ Resumed
  BY <1>8 DEF Fresh, Resumed, DownInv
<1>9. CASE StartTick \/ StorePointer \/ Take \/ SuperviseStop
  BY <1>1, <1>9 DEF StartTick, StorePointer, Take, SuperviseStop, connection, table
<1>10. CASE TryOpen /\ Refused
  BY <1>1, <1>10 DEF TryOpen, Refused, connection
<1>11. CASE Stop
  BY <1>11 DEF Stop, DownInv
<1> QED
  BY <1>2, <1>3, <1>4, <1>5, <1>6, <1>7, <1>8, <1>9, <1>10, <1>11
  DEF Next, Program, Handle, Begin, Supervise, StartOpen, StartTimeout, TryOpen, GiveUp, StopClose

\* During an outage and after reconnecting was given up the lookups go to REST, for
\* every order in which the handlers of the old connection end, but for a last chunk.
THEOREM GatewayDownMeansRest == Spec => []DownMeansRest
<1>1. Init => DownInv
  BY DEF Init, DownInv
<1>2. DownInv => DownMeansRest
  BY DEF DownInv, DownMeansRest, Settled
<1> QED
  BY <1>1, <1>2, DownNext, PTL DEF Spec

-----------------------------------------------------------------------------
(* A standing connection *)

NoDisconnect == \A h \in handlers : h.kind # "disconnect"

\* A loss that was told once is, at any time, in one place: in the handler that was
\* told, in the channel, or in the hands of the supervisor.
HealthyInv ==
  ~doubled /\ stop = "no" /\ supervisor # "ended" /\ start # "failed" =>
    /\ link = "up" => NoDisconnect /\ ~token /\ supervisor \notin {"backoff", "closing"}
    /\ supervisor \in {"backoff", "closing"} => NoDisconnect /\ ~token
    /\ token => NoDisconnect
    /\ start = "new" => NoDisconnect /\ ~token
    /\ \A g, h \in handlers : g.kind = "disconnect" /\ h.kind = "disconnect" => g = h

LEMMA HealthyNext ==
  ASSUME TypeInv, TypeInv', HealthyInv, [Next]_vars
  PROVE  HealthyInv'
<1> USE DEF TypeInv
<1>1. CASE /\ UNCHANGED <<link, token, supervisor>> /\ (doubled => doubled')
           /\ stop' = "no" => stop = "no"
           /\ start' # "failed" => start # "failed"
           /\ start' = "new" => start = "new"
           /\ \A g \in handlers' : g.kind = "disconnect" => g \in handlers
  BY <1>1 DEF HealthyInv, NoDisconnect
<1>2. CASE \E u \in Users : Change(u)
  <2>1. PICK u \in Users : Change(u)
    BY <1>2
  <2>2. \A g \in handlers' : g.kind = "disconnect" => g \in handlers
    BY <2>1 DEF Change
  <2> QED
    BY <1>1, <2>1, <2>2 DEF Change, connection, program
<1>3. CASE \E r \in requests : Deliver(r)
  BY <1>1, <1>3 DEF Deliver, connection, program
<1>4. CASE Drop
  <2>1. PICK copies \in {{1}, {1, 2}} :
          handlers' = handlers \cup Told("drop", copies) /\ doubled' = (doubled \/ copies # {1})
    BY <1>4 DEF Drop
  <2>2. copies = {1} => \A g, h \in Told("drop", copies) : g = h
    BY DEF Told
  <2>3. ~doubled' => ~doubled /\ copies = {1}
    BY <2>1
  <2>4. link = "up" /\ link' = "down" /\ UNCHANGED <<token, supervisor, start, stop>> /\ start # "new"
    BY <1>4 DEF Drop, program, Sessions
  <2> QED
    BY <2>1, <2>2, <2>3, <2>4 DEF HealthyInv, NoDisconnect
<1>5. ASSUME NEW h \in handlers,
             HandleGuildCreate(h) \/ ApplyChunk(h) \/ RaiseReady(h) \/ MemberEvent(h)
      PROVE  HealthyInv'
  <2>1. h.kind \in {"create", "chunk", "member"} /\ UNCHANGED <<link, token, supervisor, start, stop, doubled>>
        /\ \/ Done(h)
           \/ h.kind = "chunk" /\ Then(h, "raise")
           \/ h.kind = "member" /\ Then(h, "notify")
    BY <1>5 DEF HandleGuildCreate, ApplyChunk, RaiseReady, MemberEvent, HandleMember, connection, program
  <2>2. h.kind = "chunk" => [h EXCEPT !.step = "raise"].kind = "chunk"
    BY HandlerKind DEF Chunking
  <2>3. h.kind = "member" => [h EXCEPT !.step = "notify"].kind = "member"
    BY HandlerKind DEF Member
  <2>4. \A g \in handlers' : g.kind = "disconnect" => g \in handlers
    BY <2>1, <2>2, <2>3 DEF Done, Then
  <2> QED
    BY <1>1, <2>1, <2>4
<1>6. ASSUME NEW h \in handlers, HandleDisconnect(h)
      PROVE  HealthyInv'
  <2>1. /\ h.kind = "disconnect" /\ handlers' = handlers \ {h}
        /\ UNCHANGED <<link, supervisor, start, stop, doubled>>
    BY <1>6 DEF HandleDisconnect, Done, connection
  <2> QED
    BY <2>1 DEF HealthyInv, NoDisconnect
<1>7. CASE start' = "failed" \/ supervisor' = "ended" \/ stop' # "no"
  BY <1>7 DEF HealthyInv
<1>8. CASE Fresh \/ Resumed
  <2>1. \A g \in handlers' : g.kind = "disconnect" => g \in handlers
    <3>1. CASE Fresh
      BY <3>1 DEF Fresh
    <3>2. CASE Resumed
      <4>1. \A g \in missed : g.kind = "member"
        BY DEF TypeOK, Member
      <4> QED
        BY <3>2, <4>1 DEF Resumed
    <3> QED
      BY <1>8, <3>1, <3>2
  <2>2. link = "down" /\ link' = "up"
    BY <1>8 DEF Fresh, Resumed
  <2>3. (StartOpen \/ TryOpen) => /\ UNCHANGED <<token, stop, doubled>> /\ supervisor' \in {"none", "waiting"}
                                  /\ start' # "new" /\ start # "failed"
                                  /\ start = "new" \/ supervisor = "backoff"
    <3>1. CASE StartOpen
      BY <1>8, <2>2, <3>1 DEF StartOpen, CloseSession, Sessions
    <3>2. CASE TryOpen
      BY <1>8, <2>2, <3>2 DEF TryOpen, Reconnected, Refused, connection, Sessions
    <3> QED
      BY <3>1, <3>2
  <2>4. StartOpen \/ TryOpen
    BY <1>8, <2>2
    DEF Next, Change, Deliver, Drop, Program, Handle, HandleGuildCreate, ApplyChunk, RaiseReady, MemberEvent,
        HandleDisconnect, Begin, StartTick, StorePointer, StartTimeout, CloseSession, Supervise, Take,
        SuperviseStop, GiveUp, Stop, StopClose, vars, connection
  <2> QED
    BY <2>1, <2>2, <2>3, <2>4 DEF HealthyInv, NoDisconnect, Sessions
<1>9. CASE StartTick \/ StorePointer
  <2>1. /\ UNCHANGED <<link, token, doubled, stop, handlers>> /\ start # "new" /\ start' # "new"
        /\ start # "failed"
        /\ supervisor' = supervisor \/ (supervisor = "none" /\ supervisor' = "waiting")
    BY <1>9 DEF StartTick, StorePointer, connection, Sessions
  <2> QED
    BY <2>1 DEF HealthyInv, NoDisconnect
<1>10. CASE Take
  BY <1>10 DEF Take, NextAttempt, connection, HealthyInv, NoDisconnect
<1>11. CASE TryOpen /\ Refused
  BY <1>11 DEF TryOpen, Refused, connection, NextAttempt, FatalClose, HealthyInv, NoDisconnect
<1>12. CASE StartOpen \/ StartTimeout \/ SuperviseStop \/ GiveUp \/ StopClose \/ Stop
  BY <1>7, <1>8, <1>12 DEF StartOpen, StartTimeout, SuperviseStop, GiveUp, StopClose, Stop
<1>13. CASE UNCHANGED vars
  BY <1>1, <1>13 DEF vars, connection, program
<1> QED
  BY <1>2, <1>3, <1>4, <1>5, <1>6, <1>8, <1>9, <1>10, <1>11, <1>12, <1>13
  DEF Next, Program, Handle, Begin, Supervise, TryOpen

\* However many losses, attempts and members there are, the supervisor gives up a
\* connection that stands only after some loss was told twice.
THEOREM GatewayHealthyKept == Spec => []HealthyKept
<1>1. Init => HealthyInv
  BY DEF Init, HealthyInv, NoDisconnect
<1>2. TypeInv /\ HealthyInv => HealthyKept
  BY DEF TypeInv, Sessions, HealthyInv, HealthyKept
<1> QED
  BY <1>1, <1>2, HealthyNext, TypeInit, TypeNext, PTL DEF Spec

-----------------------------------------------------------------------------
(* What the receiver of changes has heard *)

Pending(u) == \E h \in handlers : h.kind = "member" /\ h.step = "notify" /\ h.user = u

HeardInv == \A u \in told : heard[u] = members[u] \/ Pending(u)

LEMMA HeardNext ==
  ASSUME TypeInv, HeardInv, [Next]_vars
  PROVE  HeardInv'
<1> USE DEF TypeInv
<1>1. CASE /\ UNCHANGED <<heard, members, told>>
           /\ \A h \in handlers : h.kind = "member" => h \in handlers'
  BY <1>1 DEF HeardInv, Pending
<1>2. ASSUME NEW h \in handlers, h.kind # "member", Done(h) \/ Then(h, "raise")
      PROVE  \A g \in handlers : g.kind = "member" => g \in handlers'
  BY <1>2 DEF Done, Then
<1>3. CASE (\E u \in Users : Change(u)) \/ (\E r \in requests : Deliver(r)) \/ Drop
           \/ Begin \/ Supervise \/ Stop \/ StopClose \/ UNCHANGED vars
  <2>1. handlers \subseteq handlers' /\ UNCHANGED <<heard, members, told>>
    BY <1>3 DEF Change, Deliver, Drop, Begin, StartOpen, StartTick, StorePointer, StartTimeout,
                Supervise, Take, SuperviseStop, TryOpen, GiveUp, Stop, StopClose, CloseSession, Fresh,
                Resumed, Refused, vars, table, receiver
  <2> QED
    BY <1>1, <2>1
<1>4. ASSUME NEW h \in handlers, HandleGuildCreate(h) \/ RaiseReady(h) \/ HandleDisconnect(h)
      PROVE  HeardInv'
  <2>1. h.kind # "member" /\ Done(h) /\ UNCHANGED <<heard, members, told>>
    BY <1>4 DEF HandleGuildCreate, RaiseReady, HandleDisconnect, table, receiver
  <2> QED
    BY <1>1, <1>2, <2>1
<1>5. ASSUME NEW h \in handlers, ApplyChunk(h)
      PROVE  HeardInv'
  <2>1. /\ h.kind # "member" /\ (Done(h) \/ Then(h, "raise"))
        /\ UNCHANGED heard /\ told' = {u \in told : members'[u] = members[u]}
    BY <1>5 DEF ApplyChunk
  <2>2. \A g \in handlers : g.kind = "member" => g \in handlers'
    BY <1>2, <2>1
  <2> QED
    BY <2>1, <2>2 DEF HeardInv, Pending
<1>6. ASSUME NEW h \in handlers, MemberEvent(h)
      PROVE  HeardInv'
  <2>1. h \in Member
    BY <1>6, HandlerKind DEF MemberEvent
  <2>2. \A g \in handlers \ {h} : g \in handlers'
    BY <1>6 DEF MemberEvent, HandleMember, Done, Then
  <2>3. \A u \in Users : u # h.user /\ Pending(u) => Pending(u)'
    BY <2>2 DEF Pending
  <2>4. CASE ApplyMember(h) /\ Then(h, "notify")
    <3> DEFINE g == [h EXCEPT !.step = "notify"]
    <3>1. g.kind = "member" /\ g.step = "notify" /\ g.user = h.user /\ g \in handlers'
      BY <2>1, <2>4 DEF Member, Then
    <3>2. Pending(h.user)'
      BY <3>1 DEF Pending
    <3>3. UNCHANGED <<heard, told>> /\ \A u \in Users : u # h.user => members'[u] = members[u]
      BY <2>4 DEF ApplyMember, TypeOK, receiver
    <3> QED
      BY <2>3, <3>2, <3>3 DEF HeardInv, TypeOK
  <2>5. CASE Notify(h) /\ Done(h)
    <3>1. \A u \in Users : u # h.user => heard'[u] = heard[u] /\ (u \in told' <=> u \in told)
      BY <2>5 DEF Notify, TypeOK
    <3>2. h.user \in told' => heard'[h.user] = members[h.user]
      BY <2>1, <2>5 DEF Notify, Serving, Answers, TypeOK, Member
    <3>3. members' = members /\ told' \subseteq Users
      BY <2>1, <2>5 DEF Notify, table, TypeOK, Member
    <3> QED
      BY <2>3, <3>1, <3>2, <3>3 DEF HeardInv
  <2> QED
    BY <1>6, <2>4, <2>5 DEF MemberEvent, HandleMember
<1> QED
  BY <1>3, <1>4, <1>5, <1>6 DEF Next, Program, Handle

\* Once its handlers are through, whoever is told of changes has resolved the roles
\* that the table holds, for every order of the events of any number of members.
THEOREM GatewayHeardCurrent == Spec => []HeardCurrent
<1>1. Init => HeardInv
  BY DEF Init, HeardInv
<1>2. HeardInv => HeardCurrent
  BY DEF HeardInv, HeardCurrent, Settled, Pending
<1> QED
  BY <1>1, <1>2, HeardNext, TypeInit, TypeNext, PTL DEF Spec

-----------------------------------------------------------------------------
(* What the table says *)

Flight == handlers \cup missed

\* The version of a user that a handler, or an event not delivered, will write.
Carried(h, u) ==
  IF h.kind = "member" /\ h.step = "apply" /\ h.user = u THEN h.version
  ELSE IF h.kind = "chunk" /\ h.step = "apply" THEN h.content[u] ELSE Nobody

\* What Discord knows of a user was written, is coming, or was nothing ever; or
\* the user has left unnoticed.
Coming(u) == \E h \in Flight : Carried(h, u) = guild[u].version
Known(u) == written[u].newest = guild[u].version
Never(u) == ~guild[u].member /\ written[u].newest = Nobody /\ \A h \in Flight : Carried(h, u) = Nobody
Covered(u) == u \in lost \/ Coming(u) \/ Known(u) \/ Never(u)

\* What is written or on its way is a version there was, and the last is the truth.
Truthful(u) ==
  /\ written[u].newest <= guild[u].version /\ written[u].last <= written[u].newest
  /\ written[u].newest = Nobody => members[u] = Nobody
  /\ written[u].last = guild[u].version => members[u] = Current(u)
  /\ \A h \in Flight :
       /\ Carried(h, u) <= guild[u].version
       /\ Carried(h, u) = guild[u].version => (guild[u].member <=> h.kind = "chunk" \/ h.member)

AllTrue == \A u \in Users : Truthful(u) /\ (~guild[u].member => Covered(u))

\* An answer covers its members chunk by chunk, and the last one all of them.
Got(i) == \A u \in Chunks[i] : Covered(u)
Progress ==
  /\ \A r \in requests : \A i \in DOMAIN Chunks : i < r.next => Got(i)
  /\ \A h \in handlers : h.kind = "chunk" /\ h.session = session =>
       \A i \in DOMAIN Chunks : i <= h.index => Got(i)
  /\ session > 0 /\ raisedBy = session => \A u \in Users : Covered(u)

\* No handler is ahead of the session; before the first there is nothing.
Rounds ==
  /\ link = "up" => missed = {}
  /\ raisedBy <= session
  /\ \A h \in handlers :
       /\ h.kind \in {"create", "chunk"} => h.session <= session
       /\ h.kind = "chunk" /\ h.step = "raise" => h.index >= Len(Chunks)
  /\ session = 0 =>
       /\ requests = {} /\ missed = {} /\ \A h \in handlers : h.kind = "disconnect"
       /\ \A u \in Users : written[u].newest = Nobody

TableInv == TypeInv /\ AllTrue /\ Progress /\ Rounds

LEMMA CarriedType ==
  ASSUME TypeOK
  PROVE  \A u \in Users :
           /\ \A h \in Flight : Carried(h, u) \in Nat
           /\ guild[u].version \in Nat /\ guild[u].version > 0 /\ guild[u].version # Nobody
           /\ written[u].newest \in Nat /\ written[u].last \in Nat
<1>1. Versions \subseteq Nat \ {0} /\ Nobody = 0
  BY Bounds DEF Versions, Nobody
<1>2. \A u \in Users :
        /\ guild[u].version \in Versions
        /\ written[u].newest \in {Nobody} \cup Versions /\ written[u].last \in {Nobody} \cup Versions
  BY DEF TypeOK
<1>3. ASSUME NEW u \in Users, NEW h \in Flight
      PROVE  Carried(h, u) \in {Nobody} \cup Versions
  <2>1. h \in Handlers
    BY DEF TypeOK, Flight, Handlers
  <2>2. h.kind = "member" => h.version \in Versions
    BY <2>1 DEF Handlers, Creating, Chunking, Member, Disconnect
  <2>3. h.kind = "chunk" => h.content[u] \in {Nobody} \cup Versions
    BY <2>1 DEF Handlers, Creating, Chunking, Member, Disconnect
  <2> QED
    BY <2>2, <2>3 DEF Carried
<1>4. \A v \in {Nobody} \cup Versions : v \in Nat
  BY <1>1
<1>5. \A u \in Users : \A h \in Flight : Carried(h, u) \in Nat
  BY <1>3, <1>4
<1>6. \A v \in Versions : v \in Nat /\ v > 0 /\ v # Nobody
  BY <1>1 DEF Nobody
<1> QED
  BY <1>2, <1>4, <1>5, <1>6

\* The same is on its way as before, and nothing is written.
LEMMA SameFlight ==
  ASSUME UNCHANGED <<guild, written, members, lost>>,
         \A u \in Users : \A h \in Flight \cup Flight' :
           Carried(h, u) # Nobody => (h \in Flight <=> h \in Flight'),
         TypeOK, NEW u \in Users
  PROVE  /\ Covered(u) => Covered(u)'
         /\ Truthful(u) => Truthful(u)'
<1>1. guild[u].version # Nobody /\ guild[u].version > 0 /\ guild[u].version \in Nat
  BY CarriedType
<1>2. \A h : Carried(h, u)' = Carried(h, u)
  BY DEF Carried
<1>3. Coming(u) => Coming(u)'
  BY <1>1, <1>2 DEF Coming
<1>4. Never(u) => Never(u)'
  BY <1>2 DEF Never
<1>5. Covered(u) => Covered(u)'
  BY <1>3, <1>4 DEF Covered, Known
<1>6. ASSUME Truthful(u), NEW h \in Flight'
      PROVE  /\ Carried(h, u) <= guild[u].version
             /\ Carried(h, u) = guild[u].version => (guild[u].member <=> h.kind = "chunk" \/ h.member)
  <2>1. CASE Carried(h, u) = Nobody
    BY <1>1, <2>1 DEF Nobody
  <2>2. CASE Carried(h, u) # Nobody
    BY <1>6, <2>2 DEF Truthful
  <2> QED
    BY <2>1, <2>2
<1>7. Truthful(u) => Truthful(u)'
  BY <1>2, <1>6 DEF Truthful, Current
<1> QED
  BY <1>5, <1>7

\* Progress survives when nothing is uncovered and no answer gets further.
LEMMA ProgressKept ==
  ASSUME Progress, UNCHANGED <<session, raisedBy>>,
         \A u \in Users : Covered(u) => Covered(u)',
         \A i \in DOMAIN Chunks : Chunks[i] \subseteq Users,
         \A r \in requests' : r \in requests \/ r.next = 1,
         \A h \in handlers' : h.kind = "chunk" =>
           \E g \in handlers : g.kind = "chunk" /\ g.session = h.session /\ g.index = h.index
  PROVE  Progress'
<1>1. \A i \in DOMAIN Chunks : Got(i) => Got(i)'
  BY DEF Got
<1>2. \A i \in DOMAIN Chunks : i \in Nat /\ i >= 1
  BY GatewayAssumption
<1>3. ASSUME NEW r \in requests', NEW i \in DOMAIN Chunks, i < r.next
      PROVE  Got(i)'
  BY <1>1, <1>2, <1>3 DEF Progress
<1>4. ASSUME NEW h \in handlers', h.kind = "chunk", h.session = session', NEW i \in DOMAIN Chunks, i <= h.index
      PROVE  Got(i)'
  BY <1>1, <1>4 DEF Progress
<1> QED
  BY <1>3, <1>4 DEF Progress

LEMMA ChunkUsers ==
  /\ \A i \in DOMAIN Chunks : Chunks[i] \subseteq Users /\ i \in 1 .. Len(Chunks)
  /\ \A u \in Users : \E i \in DOMAIN Chunks : u \in Chunks[i]
BY GatewayAssumption

\* A step by which nothing else gets on its way, and nothing is written.
LEMMA QuietStep ==
  ASSUME TableInv,
         UNCHANGED <<guild, written, members, lost, session, raisedBy>>,
         \A u \in Users : \A h \in Flight \cup Flight' :
           Carried(h, u) # Nobody => (h \in Flight <=> h \in Flight'),
         \A r \in requests' : r \in requests \/ r.next = 1,
         \A h \in handlers' : h.kind = "chunk" => h \in handlers
  PROVE  AllTrue' /\ Progress'
<1>1. \A u \in Users : (Covered(u) => Covered(u)') /\ (Truthful(u) => Truthful(u)')
  BY SameFlight DEF TableInv, TypeInv
<1>2. AllTrue'
  BY <1>1 DEF TableInv, AllTrue
<1>3. Progress'
  BY <1>1, ProgressKept, ChunkUsers DEF TableInv
<1> QED
  BY <1>2, <1>3

LEMMA RoundsNext ==
  ASSUME TypeInv, TypeOK', Rounds, [Next]_vars
  PROVE  Rounds'
<1> USE DEF TypeInv
<1>0. session \in Nat /\ raisedBy \in Nat
  BY Bounds DEF TypeOK
<1>1. CASE /\ UNCHANGED <<session, raisedBy, written>>
           /\ link' = "up" => link = "up" /\ missed' = missed
           /\ session = 0 => requests' = requests /\ missed' = missed
           /\ \A h \in handlers' : h \in handlers \/ h.kind = "disconnect"
  BY <1>1 DEF Rounds
<1>2. CASE \E u \in Users : Change(u)
  <2>1. /\ UNCHANGED <<session, raisedBy, written, link, requests>>
        /\ \A h \in handlers' : h \in handlers \/ (h.kind = "member" /\ link = "up")
        /\ link = "up" => missed' = missed
        /\ link # "up" /\ session = 0 => missed' = {}
    BY <1>2 DEF Change, connection, table
  <2> QED
    BY <2>1 DEF Rounds, Sessions
<1>3. CASE \E r \in requests : Deliver(r)
  <2>1. /\ UNCHANGED <<session, raisedBy, written, link, missed>> /\ link = "up"
        /\ \A h \in handlers' : h \in handlers \/ (h.kind = "chunk" /\ h.session = session /\ h.step = "apply")
    BY <1>3 DEF Deliver, connection, table
  <2> QED
    BY <1>0, <2>1 DEF Rounds, Sessions
<1>4. CASE Drop \/ Stop
  BY <1>1, <1>4 DEF Drop, Stop, Told, discord, connection, table
<1>5. CASE CloseSession /\ UNCHANGED table
  BY <1>1, <1>5 DEF CloseSession, Told, discord, table
<1>6. CASE Fresh /\ UNCHANGED <<raisedBy, written>>
  <2>1. session' = session + 1 /\ missed' = {}
        /\ \A h \in handlers' : h \in handlers \/ (h.kind = "create" /\ h.session = session')
    BY <1>6 DEF Fresh
  <2> QED
    BY <1>0, <1>6, <2>1, HandlerKind, Bounds DEF Rounds, Creating, Chunking
<1>7. CASE Resumed /\ UNCHANGED <<raisedBy, written>>
  <2>1. /\ UNCHANGED <<session, requests>> /\ session > 0 /\ missed' = {}
        /\ \A h \in handlers' : h \in handlers \/ h.kind = "member"
    BY <1>7 DEF Resumed, TypeOK, Member
  <2> QED
    BY <1>0, <1>7, <2>1 DEF Rounds
<1>8. CASE UNCHANGED <<discord, connection, handlers, raisedBy, written>>
  BY <1>1, <1>8 DEF discord, connection
<1>9. CASE Begin \/ Supervise \/ StopClose \/ UNCHANGED vars
  BY <1>5, <1>6, <1>7, <1>8, <1>9
  DEF Begin, StartOpen, StartTick, StorePointer, StartTimeout, Supervise, Take, SuperviseStop, TryOpen,
      GiveUp, StopClose, CloseSession, Refused, table, vars
<1>10. ASSUME NEW h \in handlers, HandleGuildCreate(h) \/ HandleDisconnect(h)
       PROVE  Rounds'
  <2>1. session = 0 => h.kind = "disconnect"
    BY DEF Rounds
  <2>2. /\ UNCHANGED <<session, raisedBy, written, link, missed>> /\ handlers' \subseteq handlers
        /\ h.kind = "disconnect" => requests' = requests
    BY <1>10 DEF HandleGuildCreate, HandleDisconnect, connection, table, discord, Done
  <2> QED
    BY <1>1, <2>1, <2>2
<1>11. ASSUME NEW h \in handlers, MemberEvent(h) \/ ApplyChunk(h) \/ RaiseReady(h)
       PROVE  Rounds'
  <2>1. h.kind # "disconnect" /\ UNCHANGED <<link, missed, session>>
    BY <1>11 DEF MemberEvent, ApplyChunk, RaiseReady, discord, connection
  <2>2. session # 0
    BY <2>1 DEF Rounds
  <2>3. CASE MemberEvent(h)
    <3>1. h \in Member /\ [h EXCEPT !.step = "notify"].kind = "member" /\ UNCHANGED raisedBy
      BY <2>3, HandlerKind DEF MemberEvent, HandleMember, ApplyMember, Notify, Member, table
    <3>2. \A g \in handlers' : g \in handlers \/ g.kind = "member"
      BY <2>3, <3>1 DEF MemberEvent, HandleMember, Done, Then
    <3> QED
      BY <1>0, <2>1, <2>2, <3>1, <3>2 DEF Rounds
  <2>4. CASE ApplyChunk(h)
    <3> DEFINE g == [h EXCEPT !.step = "raise"]
    <3>1. h \in Chunking /\ g.kind = "chunk" /\ g.session = h.session /\ g.index = h.index /\ UNCHANGED raisedBy
      BY <2>4, HandlerKind DEF ApplyChunk, Chunking
    <3>2. \A f \in handlers' : f \in handlers \/ (f = g /\ h.index >= Len(Chunks))
      BY <2>4 DEF ApplyChunk, Done, Then
    <3> QED
      BY <1>0, <2>1, <2>2, <2>4, <3>1, <3>2 DEF Rounds, ApplyChunk
  <2>5. CASE RaiseReady(h)
    BY <1>0, <2>1, <2>2, <2>5 DEF Rounds, RaiseReady, Done
  <2> QED
    BY <1>11, <2>3, <2>4, <2>5
<1> QED
  BY <1>2, <1>3, <1>4, <1>9, <1>10, <1>11 DEF Next, Program, Handle

\* A change: the old version is older than the new, which is on its way.
LEMMA TableChange ==
  ASSUME TableInv, NEW c \in Users, Change(c)
  PROVE  AllTrue' /\ Progress'
<1> USE DEF TableInv, TypeInv
<1>1. PICK in \in BOOLEAN :
        /\ in \/ guild[c].member
        /\ guild' = [guild EXCEPT ![c] = [version |-> guild[c].version + 1, member |-> in]]
        /\ LET event == [kind |-> "member", user |-> c, version |-> guild'[c].version,
                         member |-> in, step |-> "apply"]
           IN IF link = "up"
              THEN handlers' = handlers \cup {event} /\ UNCHANGED missed
              ELSE /\ missed' = IF session = 0 THEN {} ELSE missed \cup {event}
                   /\ UNCHANGED handlers
  BY DEF Change
<1>2. /\ lost' = lost \ {c} /\ UNCHANGED <<requests, session, raisedBy, written, members>>
      /\ \A u \in Users : u # c => guild'[u] = guild[u]
      /\ guild'[c] = [version |-> guild[c].version + 1, member |-> in]
  BY <1>1 DEF Change, connection, table, TypeOK
<1> DEFINE e == [kind |-> "member", user |-> c, version |-> guild'[c].version, member |-> in, step |-> "apply"]
<1>3. /\ Flight \subseteq Flight' /\ Flight' \subseteq Flight \cup {e}
      /\ session # 0 => e \in Flight' /\ Flight' = Flight \cup {e}
      /\ session = 0 => Flight' = Flight
  BY <1>1 DEF Flight, Rounds, Sessions
<1>4. e.kind = "member" /\ e.user = c /\ e.version = guild[c].version + 1 /\ e.member = in /\ e.step = "apply"
  BY <1>2
<1> HIDE DEF e
<1>5. \A h, u : Carried(h, u)' = Carried(h, u)
  BY DEF Carried
<1>6. \A u \in Users : u # c => Carried(e, u) = Nobody
  BY <1>4 DEF Carried
<1>7. Carried(e, c) = guild[c].version + 1
  BY <1>4 DEF Carried
<1>8. ASSUME NEW u \in Users, u # c
      PROVE  (Covered(u) => Covered(u)') /\ (Truthful(u) => Truthful(u)')
  <2>1. guild'[u] = guild[u] /\ guild[u].version # Nobody /\ Carried(e, u) = Nobody /\ guild[u].version > 0
        /\ guild[u].version \in Nat
    BY <1>2, <1>6, <1>8, CarriedType
  <2>2. Coming(u) => Coming(u)'
    BY <1>3, <1>5, <2>1 DEF Coming
  <2>3. Never(u) => Never(u)'
    BY <1>2, <1>3, <1>5, <2>1 DEF Never
  <2>4. Covered(u) => Covered(u)'
    BY <1>2, <1>8, <2>1, <2>2, <2>3 DEF Covered, Known
  <2>5. Truthful(u) => Truthful(u)'
    BY <1>2, <1>3, <1>5, <2>1 DEF Truthful, Current, Nobody
  <2> QED
    BY <2>4, <2>5
<1>9. Truthful(c)'
  <2>1. Truthful(c) /\ guild[c].version \in Nat /\ written[c].newest \in Nat /\ written[c].last \in Nat
        /\ \A h \in Flight : Carried(h, c) \in Nat
    BY CarriedType DEF AllTrue
  <2>2. /\ written'[c].newest <= guild'[c].version /\ written'[c].last <= written'[c].newest
        /\ written'[c].newest = Nobody => members'[c] = Nobody
        /\ written'[c].last # guild'[c].version
    BY <1>2, <2>1 DEF Truthful
  <2>3. ASSUME NEW h \in Flight'
        PROVE  /\ Carried(h, c) <= guild'[c].version
               /\ Carried(h, c) = guild'[c].version => (guild'[c].member <=> h.kind = "chunk" \/ h.member)
    <3>1. CASE h \in Flight
      BY <1>2, <2>1, <3>1 DEF Truthful
    <3>2. CASE h = e
      BY <1>2, <1>4, <1>7, <2>1, <3>2
    <3> QED
      BY <1>3, <3>1, <3>2
  <2> QED
    BY <1>5, <2>2, <2>3 DEF Truthful
<1>10. session # 0 => Covered(c)'
  BY <1>2, <1>3, <1>5, <1>7 DEF Covered, Coming
<1>11. ~guild'[c].member => Covered(c)'
  <2>1. CASE session = 0
    <3>1. \A h \in Flight' : h.kind = "disconnect"
      BY <1>3, <2>1 DEF Rounds, Flight
    <3>2. \A h \in Flight' : Carried(h, c) = Nobody
      BY <3>1 DEF Carried
    <3>3. written'[c].newest = Nobody
      BY <1>2, <2>1 DEF Rounds
    <3> QED
      BY <1>5, <3>2, <3>3 DEF Covered, Never
  <2> QED
    BY <1>10, <2>1
<1>12. AllTrue'
  BY <1>2, <1>8, <1>9, <1>11 DEF AllTrue
<1>13. Progress'
  <2>1. \A h \in handlers' : h.kind = "chunk" => h \in handlers
    BY <1>1 DEF Change
  <2>2. CASE session = 0
    BY <1>2, <2>1, <2>2 DEF Progress, Rounds
  <2>3. CASE session # 0
    BY <1>2, <1>8, <1>10, <2>1, <2>3, ProgressKept, ChunkUsers
  <2> QED
    BY <2>2, <2>3
<1> QED
  BY <1>12, <1>13

\* A chunk: it carries the truth about its members.
LEMMA TableDeliver ==
  ASSUME TableInv, NEW r \in requests, Deliver(r)
  PROVE  AllTrue' /\ Progress'
<1> USE DEF TableInv, TypeInv
<1> DEFINE e == [kind |-> "chunk", session |-> session, request |-> r.of, index |-> r.next,
                 content |-> [u \in Users |-> IF u \in Chunks[r.next] THEN Current(u) ELSE Nobody],
                 step |-> "apply"]
<1>1. /\ UNCHANGED <<guild, lost, session, raisedBy, written, members, missed>>
      /\ handlers' = handlers \cup {e}
      /\ requests' = (requests \ {r}) \cup {q \in {[r EXCEPT !.next = @ + 1]} : q.next <= Len(Chunks)}
  BY DEF Deliver, connection, table
<1>2. /\ e.kind = "chunk" /\ e.session = session /\ e.index = r.next /\ e.step = "apply"
      /\ \A u \in Users : e.content[u] = IF u \in Chunks[r.next] THEN Current(u) ELSE Nobody
  OBVIOUS
<1> HIDE DEF e
<1>3. r.next \in DOMAIN Chunks /\ r.next \in Nat /\ \A i \in DOMAIN Chunks : i \in Nat
  BY ChunkUsers DEF TypeOK
<1>4. Flight' = Flight \cup {e}
  BY <1>1 DEF Flight
<1>5. \A h, u : Carried(h, u)' = Carried(h, u)
  BY DEF Carried
<1>6. \A u \in Users : Carried(e, u) = IF u \in Chunks[r.next] THEN Current(u) ELSE Nobody
  BY <1>2 DEF Carried
<1>7. ASSUME NEW u \in Users
      PROVE  /\ Covered(u) => Covered(u)'
             /\ Truthful(u)'
             /\ u \in Chunks[r.next] => Covered(u)'
  <2>1. /\ Truthful(u) /\ (~guild[u].member => Covered(u))
        /\ guild[u].version # Nobody /\ guild[u].version \in Nat /\ guild[u].version > 0
    BY CarriedType DEF AllTrue
  <2>2. Carried(e, u) = Nobody \/ (guild[u].member /\ Carried(e, u) = guild[u].version)
    BY <1>6 DEF Current
  <2>3. Coming(u) => Coming(u)'
    BY <1>1, <1>4, <1>5 DEF Coming
  <2>4. Never(u) => Never(u)'
    BY <1>1, <1>4, <1>5, <2>2 DEF Never
  <2>5. Covered(u) => Covered(u)'
    BY <1>1, <2>3, <2>4 DEF Covered, Known
  <2>6. ASSUME NEW h \in Flight'
        PROVE  /\ Carried(h, u) <= guild[u].version
               /\ Carried(h, u) = guild[u].version => (guild[u].member <=> h.kind = "chunk" \/ h.member)
    <3>1. CASE h \in Flight
      BY <2>1, <3>1 DEF Truthful
    <3>2. CASE h = e
      BY <1>2, <2>1, <2>2, <3>2 DEF Nobody
    <3> QED
      BY <1>4, <3>1, <3>2
  <2>7. Truthful(u)'
    BY <1>1, <1>5, <2>1, <2>6 DEF Truthful, Current
  <2>8. guild[u].member /\ u \in Chunks[r.next] => Coming(u)'
    BY <1>1, <1>4, <1>5, <1>6 DEF Coming, Current
  <2> QED
    BY <2>1, <2>5, <2>7, <2>8 DEF Covered
<1>8. AllTrue'
  BY <1>1, <1>7 DEF AllTrue
<1>9. \A i \in DOMAIN Chunks : (Got(i) => Got(i)') /\ (i = r.next => Got(i)')
  BY <1>7, ChunkUsers DEF Got
<1>10. \A i \in DOMAIN Chunks : i < r.next + 1 => Got(i)'
  <2>1. \A i \in DOMAIN Chunks : i < r.next => Got(i)
    BY DEF Progress
  <2>2. \A i \in DOMAIN Chunks : i < r.next + 1 => i < r.next \/ i = r.next
    BY <1>3
  <2> QED
    BY <1>9, <2>1, <2>2
<1>11. ASSUME NEW q \in requests', NEW i \in DOMAIN Chunks, i < q.next
       PROVE  Got(i)'
  <2>1. q \in requests \/ q.next = r.next + 1
    BY <1>1 DEF TypeOK
  <2> QED
    BY <1>9, <1>10, <1>11, <2>1 DEF Progress
<1>12. ASSUME NEW h \in handlers', h.kind = "chunk", h.session = session', NEW i \in DOMAIN Chunks, i <= h.index
       PROVE  Got(i)'
  <2>1. CASE h \in handlers
    BY <1>1, <1>9, <1>12, <2>1 DEF Progress
  <2>2. CASE h = e
    BY <1>2, <1>3, <1>10, <1>12, <2>2
  <2> QED
    BY <1>1, <2>1, <2>2
<1>13. session' > 0 /\ raisedBy' = session' => \A u \in Users : Covered(u)'
  BY <1>1, <1>7 DEF Progress
<1> QED
  BY <1>8, <1>11, <1>12, <1>13 DEF Progress

\* A new session: what was not delivered is lost, and every answer starts again.
LEMMA TableFresh ==
  ASSUME TableInv, Fresh, UNCHANGED <<members, written, raisedBy>>
  PROVE  AllTrue' /\ Progress'
<1> USE DEF TableInv, TypeInv
<1> DEFINE e == [kind |-> "create", session |-> session']
<1>1. /\ UNCHANGED <<guild, members, written, raisedBy>> /\ session' = session + 1 /\ session \in Nat
      /\ handlers' = handlers \cup {e} /\ missed' = {} /\ requests' = {}
      /\ lost' = lost \cup {u \in Users : ~guild[u].member /\ \E m \in missed : m.user = u}
  BY Bounds DEF Fresh, TypeOK
<1>2. e.kind = "create" /\ Flight' \subseteq Flight \cup {e} /\ handlers \subseteq Flight'
  BY <1>1 DEF Flight
<1> HIDE DEF e
<1>3. \A h, u : Carried(h, u)' = Carried(h, u)
  BY DEF Carried
<1>4. \A u \in Users : Carried(e, u) = Nobody
  BY <1>2 DEF Carried
<1>5. ASSUME NEW u \in Users
      PROVE  Truthful(u)' /\ (~guild[u].member => Covered(u)')
  <2>1. /\ Truthful(u) /\ (~guild[u].member => Covered(u))
        /\ guild[u].version # Nobody /\ guild[u].version \in Nat /\ guild[u].version > 0
    BY CarriedType DEF AllTrue
  <2>2. Truthful(u)'
    BY <1>1, <1>2, <1>3, <1>4, <2>1 DEF Truthful, Current, Nobody
  <2>3. ~guild[u].member /\ Coming(u) => u \in lost' \/ Coming(u)'
    <3>1. ASSUME NEW h \in missed, Carried(h, u) = guild[u].version
          PROVE  h.user = u
      BY <2>1, <3>1 DEF TypeOK, Member, Carried
    <3> QED
      BY <1>1, <1>2, <1>3, <3>1 DEF Coming, Flight
  <2>4. Never(u) => Never(u)'
    BY <1>1, <1>2, <1>3, <1>4 DEF Never
  <2>5. Known(u) => Known(u)'
    BY <1>1 DEF Known
  <2> QED
    BY <1>1, <2>1, <2>2, <2>3, <2>4, <2>5 DEF Covered
<1>6. AllTrue'
  BY <1>1, <1>5 DEF AllTrue
<1>7. \A h \in handlers' : h.kind = "chunk" => h.session # session'
  <2>1. \A h \in handlers : h.kind = "chunk" => h.session \in Nat /\ h.session <= session
    BY HandlerKind, Bounds DEF Rounds, Chunking
  <2> QED
    BY <1>1, <1>2, <2>1
<1>8. raisedBy' # session'
  BY <1>1, Bounds DEF Rounds, TypeOK
<1> QED
  BY <1>1, <1>6, <1>7, <1>8 DEF Progress

\* A handler writes what it carries of a user, if anything, and carries no more.
LEMMA Written ==
  ASSUME TypeOK, UNCHANGED <<guild, lost>>, NEW u \in Users, NEW h \in handlers, Truthful(u),
         \A g \in Flight : g \in Flight' \/ g = h,
         \A g \in Flight' : g \in Flight \/ Carried(g, u) = Nobody,
         IF Carried(h, u) = Nobody
         THEN written'[u] = written[u] /\ members'[u] = members[u]
         ELSE /\ written'[u] = Write(u, Carried(h, u))
              /\ members'[u] = IF h.kind = "chunk" \/ h.member THEN Carried(h, u) ELSE Nobody
  PROVE  Truthful(u)' /\ (Covered(u) => Covered(u)')
<1> DEFINE v == Carried(h, u)
<1>1. h \in Flight
  BY DEF Flight
<1>2. /\ v \in Nat /\ written[u].newest \in Nat /\ written[u].last \in Nat /\ guild[u].version \in Nat
      /\ guild[u].version > 0 /\ Nobody = 0
  BY <1>1, CarriedType DEF Nobody
<1>3. \A g : Carried(g, u)' = Carried(g, u)
  BY DEF Carried
<1>4. v <= guild[u].version /\ (v = guild[u].version => (guild[u].member <=> h.kind = "chunk" \/ h.member))
  BY <1>1 DEF Truthful
<1>5. \A g \in Flight' :
        /\ Carried(g, u) <= guild[u].version
        /\ Carried(g, u) = guild[u].version => (guild[u].member <=> g.kind = "chunk" \/ g.member)
  BY <1>2 DEF Truthful
<1>6. CASE v = Nobody
  <2>1. written'[u] = written[u] /\ members'[u] = members[u]
    BY <1>6
  <2>2. Truthful(u)'
    BY <1>3, <1>5, <2>1 DEF Truthful, Current
  <2>3. Coming(u) => Coming(u)'
    BY <1>2, <1>3, <1>6 DEF Coming
  <2>4. Never(u) => Never(u)'
    BY <1>3, <2>1 DEF Never
  <2> QED
    BY <2>1, <2>2, <2>3, <2>4 DEF Covered, Known
<1>7. CASE v # Nobody
  <2>1. /\ written'[u].last = v
        /\ written'[u].newest = IF v >= written[u].newest THEN v ELSE written[u].newest
        /\ members'[u] = IF h.kind = "chunk" \/ h.member THEN v ELSE Nobody
    BY <1>2, <1>7, MaxOfTwo DEF Write
  <2> HIDE DEF v
  <2>2. Current(u)' = Current(u)
    BY DEF Current
  <2>3. v = guild[u].version => members'[u] = Current(u)
    BY <1>4, <2>1 DEF Current
  <2>4. written'[u].newest <= guild[u].version /\ written'[u].last <= written'[u].newest /\ written'[u].newest # Nobody
    BY <1>2, <1>4, <1>7, <2>1 DEF Truthful
  <2>5. Truthful(u)'
    BY <1>3, <1>5, <2>1, <2>2, <2>3, <2>4 DEF Truthful
  <2>6. v = guild[u].version => Known(u)'
    BY <1>2, <2>1 DEF Known, Truthful
  <2>7. v # guild[u].version /\ Coming(u) => Coming(u)'
    BY <1>3 DEF Coming, v
  <2>8. Known(u) => Known(u)'
    BY <1>2, <1>4, <2>1 DEF Known
  <2>9. ~Never(u)
    BY <1>1, <1>7 DEF Never, v
  <2> QED
    BY <2>5, <2>6, <2>7, <2>8, <2>9 DEF Covered
<1> QED
  BY <1>6, <1>7

LEMMA TableWrite ==
  ASSUME TableInv, NEW h \in handlers, ApplyChunk(h) \/ (MemberEvent(h) /\ ApplyMember(h) /\ Then(h, "notify") /\ h.step = "apply")
  PROVE  AllTrue' /\ Progress'
<1> USE DEF TableInv, TypeInv
<1>1. UNCHANGED <<guild, lost, missed, requests, session, raisedBy>>
  BY DEF ApplyChunk, MemberEvent, ApplyMember, discord, connection
<1>2. /\ \A g \in Flight : g \in Flight' \/ g = h
      /\ \A g \in Flight' : g \in Flight \/ \A u \in Users : Carried(g, u) = Nobody
      /\ \A g \in handlers' : g.kind = "chunk" =>
           \E f \in handlers : f.kind = "chunk" /\ f.session = g.session /\ f.index = g.index
  <2>1. CASE ApplyChunk(h)
    <3> DEFINE e == [h EXCEPT !.step = "raise"]
    <3>1. h.kind = "chunk" /\ handlers \ {h} \subseteq handlers' /\ handlers' \subseteq handlers \cup {e}
      BY <2>1 DEF ApplyChunk, Done, Then
    <3>2. e.kind = "chunk" /\ e.step = "raise" /\ e.session = h.session /\ e.index = h.index
      BY <3>1, HandlerKind DEF Chunking
    <3> HIDE DEF e
    <3>3. \A u \in Users : Carried(e, u) = Nobody
      BY <3>2 DEF Carried
    <3> QED
      BY <1>1, <3>1, <3>2, <3>3 DEF Flight
  <2>2. CASE MemberEvent(h) /\ Then(h, "notify")
    <3> DEFINE e == [h EXCEPT !.step = "notify"]
    <3>1. h.kind = "member" /\ handlers' = (handlers \ {h}) \cup {e}
      BY <2>2 DEF MemberEvent, Then
    <3>2. e.kind = "member" /\ e.step = "notify"
      BY <3>1, HandlerKind DEF Member
    <3> HIDE DEF e
    <3>3. \A u \in Users : Carried(e, u) = Nobody
      BY <3>2 DEF Carried
    <3> QED
      BY <1>1, <3>1, <3>2, <3>3 DEF Flight
  <2> QED
    BY <2>1, <2>2
<1>3. ASSUME NEW u \in Users
      PROVE  IF Carried(h, u) = Nobody
             THEN written'[u] = written[u] /\ members'[u] = members[u]
             ELSE /\ written'[u] = Write(u, Carried(h, u))
                  /\ members'[u] = IF h.kind = "chunk" \/ h.member THEN Carried(h, u) ELSE Nobody
  <2>1. CASE ApplyChunk(h)
    <3>1. h.kind = "chunk" /\ h.step = "apply" /\ Carried(h, u) = h.content[u]
      BY <2>1 DEF ApplyChunk, Carried
    <3>2. /\ members'[u] = IF h.content[u] # Nobody THEN h.content[u] ELSE members[u]
          /\ written'[u] = IF h.content[u] # Nobody THEN Write(u, h.content[u]) ELSE written[u]
      BY <2>1 DEF ApplyChunk
    <3> QED
      BY <3>1, <3>2
  <2>2. CASE MemberEvent(h) /\ ApplyMember(h) /\ h.step = "apply"
    <3>1. h \in Member /\ h.kind = "member"
      BY <2>2, HandlerKind DEF MemberEvent
    <3>2. h.version # Nobody /\ Carried(h, u) = IF u = h.user THEN h.version ELSE Nobody
      BY <2>2, <3>1 DEF Member, Versions, Nobody, Carried
    <3>3. /\ members' = [members EXCEPT ![h.user] = IF h.member THEN h.version ELSE Nobody]
          /\ written' = [written EXCEPT ![h.user] = Write(h.user, h.version)]
      BY <2>2 DEF ApplyMember
    <3>4. members \in [Users -> {Nobody} \cup Versions] /\ DOMAIN written = Users
      BY DEF TypeOK
    <3>5. CASE u = h.user
      BY <3>1, <3>2, <3>3, <3>4, <3>5
    <3>6. CASE u # h.user
      BY <3>1, <3>2, <3>3, <3>4, <3>6
    <3> QED
      BY <3>5, <3>6
  <2> QED
    BY <2>1, <2>2
<1>4. \A u \in Users : Truthful(u)' /\ (Covered(u) => Covered(u)')
  BY <1>1, <1>2, <1>3, Written DEF AllTrue
<1>5. AllTrue'
  BY <1>1, <1>4 DEF AllTrue
<1>6. Progress'
  BY <1>1, <1>2, <1>4, ProgressKept, ChunkUsers
<1> QED
  BY <1>5, <1>6

\* The last chunk: every member is covered if it answers this session.
LEMMA TableRaise ==
  ASSUME TableInv, NEW h \in handlers, RaiseReady(h)
  PROVE  AllTrue' /\ Progress'
<1> USE DEF TableInv, TypeInv
<1>1. /\ UNCHANGED <<guild, written, members, lost, session, missed, requests>> /\ raisedBy' = h.session
      /\ handlers' = handlers \ {h} /\ h.kind = "chunk" /\ h.step = "raise"
  BY DEF RaiseReady, Done, discord, connection
<1>2. \A u \in Users : Carried(h, u) = Nobody
  BY <1>1 DEF Carried
<1>3. \A u \in Users : \A g \in Flight \cup Flight' : Carried(g, u) # Nobody => (g \in Flight <=> g \in Flight')
  BY <1>1, <1>2 DEF Flight
<1>4. \A u \in Users : (Covered(u) => Covered(u)') /\ (Truthful(u) => Truthful(u)')
  BY <1>1, <1>3, SameFlight
<1>5. AllTrue'
  BY <1>1, <1>4 DEF AllTrue
<1>6. \A i \in DOMAIN Chunks : Got(i) => Got(i)'
  BY <1>4, ChunkUsers DEF Got
<1>7. h.session = session => \A u \in Users : Covered(u)
  <2>1. h \in Chunking /\ h.index >= Len(Chunks)
    BY <1>1, HandlerKind DEF Rounds
  <2>2. \A i \in DOMAIN Chunks : i <= h.index
    BY <2>1, ChunkUsers, GatewayAssumption DEF Chunking
  <2> QED
    BY <1>1, <2>2, ChunkUsers DEF Progress, Got
<1> QED
  BY <1>1, <1>4, <1>5, <1>6, <1>7 DEF Progress

LEMMA TableNext ==
  ASSUME TableInv, TypeInv', [Next]_vars
  PROVE  TableInv'
<1> USE DEF TableInv
<1>0. Rounds'
  BY RoundsNext DEF TypeInv
<1> SUFFICES AllTrue' /\ Progress'
  BY <1>0
<1>1. CASE UNCHANGED <<discord, handlers, session, members, written, raisedBy>>
  <2>1. UNCHANGED <<guild, lost, requests, missed, session, members, written, raisedBy, handlers>>
    BY <1>1 DEF discord
  <2> QED
    BY <2>1, QuietStep DEF Flight
<1>2. CASE UNCHANGED <<discord, session, members, written, raisedBy>>
           /\ \E why, copies : handlers' = handlers \cup Told(why, copies)
  <2>1. UNCHANGED <<guild, lost, requests, missed, session, members, written, raisedBy>>
    BY <1>2 DEF discord
  <2>2. handlers \subseteq handlers' /\ \A g \in handlers' : g \in handlers \/ g.kind = "disconnect"
    BY <1>2 DEF Told
  <2>3. \A g : g.kind = "disconnect" => \A u \in Users : Carried(g, u) = Nobody
    BY DEF Carried
  <2>4. \A u \in Users : \A g \in Flight \cup Flight' : Carried(g, u) # Nobody => (g \in Flight <=> g \in Flight')
    BY <2>1, <2>2, <2>3 DEF Flight
  <2>5. \A g \in handlers' : g.kind = "chunk" => g \in handlers
    BY <2>2
  <2> QED
    BY <2>1, <2>4, <2>5, QuietStep
<1>3. CASE \E u \in Users : Change(u)
  BY <1>3, TableChange
<1>4. CASE \E r \in requests : Deliver(r)
  BY <1>4, TableDeliver
<1>5. CASE Drop
  BY <1>2, <1>5 DEF Drop, table
<1>6. CASE CloseSession /\ UNCHANGED table
  BY <1>2, <1>6 DEF CloseSession, table
<1>7. CASE Fresh /\ UNCHANGED <<members, written, raisedBy>>
  BY <1>7, TableFresh
<1>8. CASE Resumed /\ UNCHANGED <<members, written, raisedBy>>
  <2>1. UNCHANGED <<guild, lost, requests, session>> /\ handlers' = handlers \cup missed /\ missed' = {}
    BY <1>8 DEF Resumed
  <2>2. Flight' = Flight
    BY <2>1 DEF Flight
  <2>3. \A g \in handlers' : g.kind = "chunk" => g \in handlers
    BY <2>1 DEF TypeInv, TypeOK, Member
  <2> QED
    BY <1>8, <2>1, <2>2, <2>3, QuietStep
<1>9. CASE Begin \/ Supervise \/ StopClose \/ Stop \/ UNCHANGED vars
  BY <1>1, <1>6, <1>7, <1>8, <1>9
  DEF Begin, StartOpen, StartTick, StorePointer, StartTimeout, Supervise, Take, SuperviseStop, TryOpen,
      GiveUp, StopClose, Stop, CloseSession, Refused, connection, table, vars
<1>10. ASSUME NEW h \in handlers, HandleGuildCreate(h) \/ HandleDisconnect(h) \/ (MemberEvent(h) /\ Notify(h) /\ Done(h) /\ h.step = "notify")
       PROVE  AllTrue' /\ Progress'
  <2>1. /\ UNCHANGED <<guild, lost, missed, session, members, written, raisedBy>> /\ handlers' = handlers \ {h}
        /\ \A r \in requests' : r \in requests \/ r.next = 1
    BY <1>10 DEF HandleGuildCreate, HandleDisconnect, MemberEvent, Notify, Done, discord, connection, table
  <2>2. h.kind \in {"create", "disconnect"} \/ (h.kind = "member" /\ h.step = "notify")
    BY <1>10 DEF HandleGuildCreate, HandleDisconnect, MemberEvent
  <2>3. \A u \in Users : Carried(h, u) = Nobody
    BY <2>2 DEF Carried
  <2>4. \A u \in Users : \A g \in Flight \cup Flight' : Carried(g, u) # Nobody => (g \in Flight <=> g \in Flight')
    BY <2>1, <2>3 DEF Flight
  <2> QED
    BY <2>1, <2>4, QuietStep
<1>11. ASSUME NEW h \in handlers, ApplyChunk(h) \/ RaiseReady(h) \/ MemberEvent(h)
       PROVE  AllTrue' /\ Progress'
  <2>1. CASE ApplyChunk(h) \/ RaiseReady(h)
    BY <2>1, TableWrite, TableRaise
  <2>2. CASE MemberEvent(h)
    BY <1>10, <2>2, TableWrite DEF MemberEvent, HandleMember
  <2> QED
    BY <1>11, <2>1, <2>2
<1> QED
  BY <1>3, <1>4, <1>5, <1>9, <1>10, <1>11 DEF Next, Program, Handle

\* Once the events are handled, a table that the present connection has filled tells
\* the truth, but for a user whose events overtook each other and one who left
\* unnoticed: for any guild, any split of it into chunks, and any order of events.
THEOREM GatewayTableTrue == Spec => []TableTrue
<1>1. Init => TableInv
  <2> SUFFICES ASSUME Init PROVE TableInv
    OBVIOUS
  <2>1. Flight = {} /\ session = 0
    BY DEF Init, Flight
  <2>2. TypeOK
    BY TypeInit DEF TypeInv
  <2>3. \A u \in Users : written[u].newest = Nobody /\ written[u].last = Nobody /\ members[u] = Nobody
    BY DEF Init
  <2>4. AllTrue
    BY <2>1, <2>2, <2>3, CarriedType DEF AllTrue, Truthful, Covered, Never, Nobody
  <2>5. Progress /\ Rounds
    BY <2>1, <2>3 DEF Init, Progress, Rounds
  <2> QED
    BY <2>4, <2>5, TypeInit DEF TableInv
<1>2. TableInv => TableTrue
  <2> SUFFICES ASSUME TableInv, Settled, link = "up", raisedBy = session, NEW u \in Users
               PROVE  members[u] = Current(u) \/ Overtaken(u) \/ u \in lost
    BY DEF TableTrue
  <2>1. Flight = {}
    BY DEF Flight, Settled, TableInv, Rounds
  <2>2. Truthful(u) /\ Covered(u)
    BY DEF TableInv, TypeInv, Sessions, AllTrue, Progress
  <2> QED
    BY <2>1, <2>2 DEF Truthful, Covered, Coming, Known, Never, Overtaken, Current, Nobody
<1> QED
  BY <1>1, <1>2, TableNext, TypeInit, TypeNext, PTL DEF Spec

-----------------------------------------------------------------------------
(* What OutageEnds rests on *)

\* A connection that is down is somebody's business: a handler is about to ask for a
\* new one, the request is in the channel, or supervise is at it.
OutageOwned ==
  link = "down" /\ stop = "no" /\ start \notin {"new", "failed"} /\ supervisor # "ended" =>
    ~NoDisconnect \/ token \/ supervisor \in {"backoff", "closing"}

LEMMA OwnedNext ==
  ASSUME TypeInv, OutageOwned, [Next]_vars
  PROVE  OutageOwned'
<1> USE DEF TypeInv
<1>1. CASE /\ UNCHANGED <<link, token, supervisor>>
           /\ stop' = "no" => stop = "no"
           /\ start' \notin {"new", "failed"} => start \notin {"new", "failed"}
           /\ \A g \in handlers : g.kind = "disconnect" => g \in handlers'
  BY <1>1 DEF OutageOwned, NoDisconnect
<1>2. CASE (\E u \in Users : Change(u)) \/ \E r \in requests : Deliver(r)
  <2>1. \A g \in handlers : g \in handlers'
    BY <1>2 DEF Change, Deliver
  <2> QED
    BY <1>1, <1>2, <2>1 DEF Change, Deliver, connection, program
<1>3. CASE Drop
  <2>1. PICK copies \in {{1}, {1, 2}} : handlers' = handlers \cup Told("drop", copies)
    BY <1>3 DEF Drop
  <2>2. \E d \in Told("drop", copies) : d.kind = "disconnect"
    BY ToldOf
  <2> QED
    BY <2>1, <2>2 DEF OutageOwned, NoDisconnect
<1>4. ASSUME NEW h \in handlers,
             HandleGuildCreate(h) \/ ApplyChunk(h) \/ RaiseReady(h) \/ MemberEvent(h)
      PROVE  OutageOwned'
  <2>1. h.kind \in {"create", "chunk", "member"} /\ UNCHANGED <<link, token, supervisor, start, stop>>
        /\ (Done(h) \/ Then(h, "raise") \/ Then(h, "notify"))
    BY <1>4 DEF HandleGuildCreate, ApplyChunk, RaiseReady, MemberEvent, HandleMember, connection, program
  <2>2. \A g \in handlers : g.kind = "disconnect" => g \in handlers'
    BY <2>1 DEF Done, Then
  <2> QED
    BY <1>1, <2>1, <2>2
<1>5. ASSUME NEW h \in handlers, HandleDisconnect(h)
      PROVE  OutageOwned'
  BY <1>5 DEF HandleDisconnect, OutageOwned
<1>6. CASE stop' # "no" \/ start' \in {"new", "failed"} \/ supervisor' = "ended" \/ link' = "up"
  BY <1>6 DEF OutageOwned
<1>7. CASE StartOpen \/ StartTimeout \/ StopClose \/ Stop \/ GiveUp
  BY <1>6, <1>7 DEF StartOpen, StartTimeout, StopClose, Stop, GiveUp, Fresh
<1>8. CASE StartTick \/ StorePointer
  <2>1. UNCHANGED <<link, token, stop, handlers>> /\ start \notin {"new", "failed"}
        /\ (supervisor' = supervisor \/ supervisor = "none")
    BY <1>8 DEF StartTick, StorePointer, connection, Sessions
  <2> QED
    BY <2>1 DEF OutageOwned, NoDisconnect
<1>9. CASE Take
  BY <1>9 DEF Take, NextAttempt, OutageOwned
<1>10. CASE SuperviseStop
  BY <1>6, <1>10 DEF SuperviseStop
<1>11. CASE TryOpen
  <2>1. CASE Fresh \/ Resumed
    BY <1>6, <2>1 DEF Fresh, Resumed
  <2>2. CASE NextAttempt(attempt + 1) \/ FatalClose
    BY <2>2 DEF NextAttempt, FatalClose, OutageOwned
  <2> QED
    BY <1>11, <2>1, <2>2 DEF TryOpen
<1>12. CASE UNCHANGED vars
  BY <1>1, <1>12 DEF vars, connection, program
<1> QED
  BY <1>2, <1>3, <1>4, <1>5, <1>7, <1>8, <1>9, <1>10, <1>11, <1>12
  DEF Next, Program, Handle, Begin, Supervise

\* No outage is forgotten: from the loss of a connection until it is made again, given up
\* or the server stops, some goroutine or the channel has it in hand, however events,
\* losses told twice and attempts interleave.
THEOREM GatewayOutageOwned == Spec => []OutageOwned
<1>1. Init => OutageOwned
  BY DEF Init, OutageOwned
<1>2. TypeInv /\ OutageOwned /\ [Next]_vars => OutageOwned'
  BY OwnedNext
<1>3. Spec => []TypeInv
  BY TypeInit, TypeNext, PTL DEF Spec
<1> QED
  BY <1>1, <1>2, <1>3, PTL DEF Spec
=============================================================================
