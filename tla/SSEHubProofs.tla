---------------------------- MODULE SSEHubProofs ----------------------------
(***************************************************************************)
(* Theorems about SSEHub, for every value of its constants.                *)
(***************************************************************************)
EXTENDS SSEHub, TLAPS

\* The types of a task in refreshFilter and of one in RefreshUserFilter.
Lookups == [step : {"none", "dirs", "home", "admin", "store"}, dirs : SUBSET Dirs, admin : BOOLEAN]

Jobs == [step : {"none", "called", "next", "filter", "send"}, user : {None} \cup Users,
         left : SUBSET Clients, client : {None} \cup Clients]

-----------------------------------------------------------------------------
(* Type correctness *)

LEMMA ConstantTypes ==
  /\ NoLookup \in Lookups /\ Lookup \in Lookups
  /\ AtRest \in Jobs /\ \A user \in Users : Called(user) \in Jobs
  /\ Quiet \in [dir : EventDirs \cup {Everybody}, left : SUBSET Clients]
BY DEF NoLookup, Lookup, AtRest, Called, Quiet, Lookups, Jobs

LEMMA AccessibleDirsType ==
  ASSUME NEW user \in Users, NEW ans
  PROVE  /\ SharedDirs(user, ans) \subseteq Dirs /\ HomeDirs(user, ans) \subseteq Dirs
         /\ AccessibleDirs(user, ans) \subseteq Dirs
BY DEF AccessibleDirs, SharedDirs, HomeDirs, Dirs

\* A channel never holds more than its capacity.
LEMMA OfferType ==
  ASSUME NEW S, NEW q \in Seq(S), Len(q) <= Capacity, NEW dir \in S
  PROVE  /\ Offer(q, dir) \in Seq(S)
         /\ Len(Offer(q, dir)) <= Capacity
BY SSEAssumption DEF Offer

LEMMA LookupStepsType ==
  ASSUME TypeOK, NEW t \in Clients \cup Notifiers, NEW c \in Clients, LookupSteps(t, c)
  PROVE  TypeOK'
<1>1. Owner[c] \in Users
  BY SSEAssumption
<1>2. lookup' \in [Clients \cup Notifiers -> Lookups]
  <2>1. CASE ReadDirs(t, c)
    <3> DEFINE found == [step |-> "home", dirs |-> SharedDirs(Owner[c], answer[Owner[c]]),
                         admin |-> FALSE]
    <3>1. found \in Lookups
      BY <1>1, AccessibleDirsType DEF Lookups
    <3> HIDE DEF found
    <3>2. lookup' = [lookup EXCEPT ![t] = found]
      BY <2>1 DEF ReadDirs, found
    <3> QED
      BY <3>1, <3>2 DEF TypeOK, Lookups
  <2>3. CASE ReadHome(t, c)
    <3> DEFINE home == HomeDirs(Owner[c], answer[Owner[c]])
               found == [step |-> "admin", dirs |-> lookup[t].dirs \cup home, admin |-> FALSE]
    <3>1. home \subseteq Dirs
      BY <1>1, AccessibleDirsType
    <3> HIDE DEF home
    <3>2. found \in Lookups
      BY <3>1 DEF TypeOK, Lookups
    <3> HIDE DEF found
    <3>3. lookup' = [lookup EXCEPT ![t] = found]
      BY <2>3 DEF ReadHome, found, home
    <3> QED
      BY <3>2, <3>3 DEF TypeOK, Lookups
  <2>2. CASE ReadAdmin(t, c)
    <3> DEFINE admin == IsAdmin(answer[Owner[c]])
               found == [step |-> "store", dirs |-> lookup[t].dirs, admin |-> admin]
    <3>1. admin \in BOOLEAN
      BY DEF IsAdmin
    <3> HIDE DEF admin
    <3>2. found \in Lookups
      BY <3>1 DEF TypeOK, Lookups
    <3> HIDE DEF found
    <3>3. lookup' = [lookup EXCEPT ![t] = found]
      BY <2>2 DEF ReadAdmin, found, admin
    <3> QED
      BY <3>2, <3>3 DEF TypeOK, Lookups
  <2> QED
    BY <2>1, <2>2, <2>3 DEF LookupSteps
<1>3. UNCHANGED <<phase, gone, filter, queue, work, sending, answer, changes, events, panicked, held>>
  BY DEF LookupSteps, ReadDirs, ReadHome, ReadAdmin
<1> QED
  BY <1>2, <1>3 DEF TypeOK, Lookups

\* Storing a filter keeps the types of filter and lookup.
LEMMA StoreType ==
  ASSUME TypeOK, NEW t \in Clients \cup Notifiers, NEW c \in Clients, Store(t, c)
  PROVE  /\ filter' \in [Clients -> {NoFilter} \cup Filters]
         /\ filter'[c] \in Filters
         /\ lookup' \in [Clients \cup Notifiers -> Lookups]
<1> DEFINE new == [dirs |-> lookup[t].dirs, admin |-> lookup[t].admin]
<1>1. new \in Filters
  BY DEF TypeOK, Filters
<1> HIDE DEF new
<1>2. filter' = [filter EXCEPT ![c] = new]
  BY DEF Store, new
<1>3. lookup' \in [Clients \cup Notifiers -> Lookups]
  BY ConstantTypes DEF Store, TypeOK, Lookups
<1> QED
  BY <1>1, <1>2, <1>3 DEF TypeOK

LEMMA ConnectionType ==
  ASSUME TypeOK, NEW c \in Clients,
         \/ Connection(c) \/ Connect(c) \/ Tick(c) \/ Deliver(c) \/ HangUp(c) \/ Leave(c)
  PROVE  TypeOK'
<1>1. CASE LookupSteps(c, c)
  BY <1>1, LookupStepsType
<1>2. CASE Resolved(c)
  <2>1. filter' \in [Clients -> {NoFilter} \cup Filters] /\ lookup' \in [Clients \cup Notifiers -> Lookups]
    BY <1>2, StoreType DEF Resolved
  <2>2. phase' \in [Clients -> Phases]
    BY <1>2 DEF Resolved, TypeOK, Phases
  <2> QED
    BY <1>2, <2>1, <2>2 DEF Resolved, TypeOK, Lookups
<1>3. CASE Register(c) \/ Unregister(c) \/ Close(c) \/ Leave(c)
  <2>1. phase' \in [Clients -> Phases]
    BY <1>3 DEF Register, Unregister, Close, Leave, TypeOK, Phases
  <2>2. UNCHANGED <<gone, filter, queue, lookup, work, sending, answer, changes, events, panicked, held>>
    BY <1>3 DEF Register, Unregister, Close, Leave
  <2> QED
    BY <2>1, <2>2 DEF TypeOK
<1>4. CASE Connect(c)
  <2>1. lookup' \in [Clients \cup Notifiers -> Lookups]
    BY <1>4, ConstantTypes DEF Connect, TypeOK, Lookups
  <2>2. answer[Owner[c]] \in Answers
    BY SSEAssumption DEF TypeOK
  <2>3. held' \in [Clients -> SUBSET Answers]
    BY <1>4, <2>2 DEF Connect, TypeOK
  <2> QED
    BY <1>4, <2>1, <2>3 DEF Connect, TypeOK, Phases, Lookups
<1>5. CASE Tick(c)
  <2>1. lookup' \in [Clients \cup Notifiers -> Lookups]
    BY <1>5, ConstantTypes DEF Tick, TypeOK, Lookups
  <2> QED
    BY <1>5, <2>1 DEF Tick, TypeOK, Phases, Lookups
<1>6. CASE Deliver(c)
  <2>1. queue[c] \in Seq(EventDirs \cup {Everybody}) /\ queue[c] # <<>> /\ Len(queue[c]) <= Capacity
    BY <1>6 DEF Deliver, TypeOK
  <2>2. Tail(queue[c]) \in Seq(EventDirs \cup {Everybody}) /\ Len(Tail(queue[c])) <= Capacity
    BY <2>1, SSEAssumption
  <2> QED
    BY <1>6, <2>2 DEF Deliver, TypeOK
<1>7. CASE HangUp(c)
  BY <1>7 DEF HangUp, TypeOK
<1> QED
  BY <1>1, <1>2, <1>3, <1>4, <1>5, <1>6, <1>7 DEF Connection

LEMMA BroadcastType ==
  ASSUME TypeOK, NEW b \in Broadcasters,
         \/ \E dir \in EventDirs : StartBroadcast(b, dir)
         \/ \E c \in Clients : SendTo(b, c)
  PROVE  TypeOK'
<1>1. CASE \E dir \in EventDirs : StartBroadcast(b, dir)
  <2>1. PICK dir \in EventDirs : StartBroadcast(b, dir)
    BY <1>1
  <2>2. events' \in 0..MaxEvents
    BY <2>1, SSEAssumption DEF StartBroadcast, TypeOK
  <2>3. sending' \in [Broadcasters -> [dir : EventDirs \cup {Everybody}, left : SUBSET Clients]]
    <3>1. [dir |-> dir, left |-> Registered] \in [dir : EventDirs \cup {Everybody}, left : SUBSET Clients]
      BY DEF Registered
    <3> QED
      BY <2>1, <3>1 DEF StartBroadcast, TypeOK
  <2> QED
    BY <2>1, <2>2, <2>3 DEF StartBroadcast, TypeOK
<1>2. CASE \E c \in Clients : SendTo(b, c)
  <2>1. PICK c \in Clients : SendTo(b, c)
    BY <1>2
  <2>2. sending[b].dir \in EventDirs \cup {Everybody}
    BY DEF TypeOK
  <2>3. /\ Offer(queue[c], sending[b].dir) \in Seq(EventDirs \cup {Everybody})
        /\ Len(Offer(queue[c], sending[b].dir)) <= Capacity
    BY <2>2, OfferType DEF TypeOK
  <2> DEFINE offered == IF CanReceive(c, sending[b].dir) THEN Offer(queue[c], sending[b].dir) ELSE queue[c]
             rest == [dir |-> sending[b].dir, left |-> sending[b].left \ {c}]
  <2>4. offered \in Seq(EventDirs \cup {Everybody}) /\ Len(offered) <= Capacity
    BY <2>3 DEF TypeOK
  <2>5. rest \in [dir : EventDirs \cup {Everybody}, left : SUBSET Clients]
    BY DEF TypeOK
  <2> HIDE DEF offered, rest
  <2>6. queue' = [queue EXCEPT ![c] = offered] /\ sending' = [sending EXCEPT ![b] = rest]
    BY <2>1 DEF SendTo, offered, rest
  <2>7. queue' \in [Clients -> Seq(EventDirs \cup {Everybody})] /\ \A d \in Clients : Len(queue'[d]) <= Capacity
    BY <2>4, <2>6 DEF TypeOK
  <2>8. sending' \in [Broadcasters -> [dir : EventDirs \cup {Everybody}, left : SUBSET Clients]]
    BY <2>5, <2>6 DEF TypeOK
  <2> QED
    BY <2>1, <2>7, <2>8 DEF SendTo, TypeOK
<1> QED
  BY <1>1, <1>2

\* While a notifier refreshes a filter or notifies, it has a client.
BusyWithClient ==
  \A n \in Notifiers : work[n].step \in {"filter", "send"} => work[n].client \in Clients

LEMMA JobChanged ==
  ASSUME TypeOK, BusyWithClient, NEW n \in Notifiers, NEW job \in Jobs,
         job.step \in {"filter", "send"} => job.client \in Clients,
         work' = [work EXCEPT ![n] = job]
  PROVE  work' \in [Notifiers -> Jobs] /\ BusyWithClient'
BY DEF TypeOK, Jobs, BusyWithClient

LEMMA NotifierType ==
  ASSUME TypeOK, BusyWithClient, NEW n \in Notifiers, Notifier(n)
  PROVE  TypeOK' /\ BusyWithClient'
<1>1. CASE Collect(n)
  <2> DEFINE left == {c \in Registered : Owner[c] = work[n].user}
  <2>1. left \in SUBSET Clients
    BY DEF Registered
  <2> HIDE DEF left
  <2> DEFINE job == [step |-> "next", user |-> work[n].user, client |-> None, left |-> left]
  <2>2. job \in Jobs /\ job.step = "next"
    BY <2>1 DEF TypeOK, Jobs
  <2> HIDE DEF job
  <2>3. work' = [work EXCEPT ![n] = job]
    BY <1>1 DEF Collect, left, job
  <2>4. work' \in [Notifiers -> Jobs] /\ BusyWithClient'
    BY <2>2, <2>3, JobChanged
  <2> QED
    BY <1>1, <2>4 DEF Collect, TypeOK, Jobs
<1>2. CASE NextClient(n)
  <2>1. CASE work' = [work EXCEPT ![n] = AtRest] /\ UNCHANGED lookup
    <3>1. work' \in [Notifiers -> Jobs] /\ BusyWithClient'
      BY <2>1, ConstantTypes, JobChanged DEF AtRest
    <3> QED
      BY <1>2, <2>1, <3>1 DEF NextClient, TypeOK, Jobs
  <2>2. CASE \E c \in work[n].left :
               /\ work' = [work EXCEPT ![n] =
                     [step |-> "filter", user |-> @.user, client |-> c, left |-> @.left \ {c}]]
               /\ lookup' = [lookup EXCEPT ![n] = Lookup]
    <3>1. PICK c \in work[n].left :
               /\ work' = [work EXCEPT ![n] =
                     [step |-> "filter", user |-> @.user, client |-> c, left |-> @.left \ {c}]]
               /\ lookup' = [lookup EXCEPT ![n] = Lookup]
      BY <2>2
    <3>2. c \in Clients
      BY DEF TypeOK
    <3> DEFINE job == [step |-> "filter", user |-> work[n].user, client |-> c, left |-> work[n].left \ {c}]
    <3>3. job \in Jobs /\ job.client = c
      BY <3>2 DEF TypeOK, Jobs
    <3> HIDE DEF job
    <3>4. work' = [work EXCEPT ![n] = job]
      BY <3>1 DEF job
    <3>5. work' \in [Notifiers -> Jobs] /\ BusyWithClient'
      BY <3>2, <3>3, <3>4, JobChanged
    <3>6. lookup' \in [Clients \cup Notifiers -> Lookups]
      BY <3>1, ConstantTypes DEF TypeOK, Lookups
    <3> QED
      BY <1>2, <3>5, <3>6 DEF NextClient, TypeOK, Jobs, Lookups
  <2> QED
    BY <1>2, <2>1, <2>2 DEF NextClient
<1>3. CASE Notify(n)
  <2> DEFINE c == work[n].client
  <2>1. c \in Clients
    BY <1>3 DEF Notify, BusyWithClient
  <2> HIDE DEF c
  <2>2. /\ Offer(queue[c], Everybody) \in Seq(EventDirs \cup {Everybody})
        /\ Len(Offer(queue[c], Everybody)) <= Capacity
    BY <2>1, OfferType DEF TypeOK
  <2>3. queue' = [queue EXCEPT ![c] = Offer(queue[c], Everybody)]
    BY <1>3 DEF Notify, c
  <2>4. queue' \in [Clients -> Seq(EventDirs \cup {Everybody})] /\ \A d \in Clients : Len(queue'[d]) <= Capacity
    BY <2>1, <2>2, <2>3 DEF TypeOK
  <2> DEFINE job == [step |-> "next", user |-> work[n].user, client |-> None, left |-> work[n].left]
  <2>5. job \in Jobs /\ job.step = "next"
    BY DEF TypeOK, Jobs
  <2> HIDE DEF job
  <2>6. work' = [work EXCEPT ![n] = job]
    BY <1>3 DEF Notify, job
  <2>7. work' \in [Notifiers -> Jobs] /\ BusyWithClient'
    BY <2>5, <2>6, JobChanged
  <2> QED
    BY <1>3, <2>4, <2>7 DEF Notify, TypeOK, Jobs
<1>4. CASE NotifyPanics(n)
  <2>1. /\ queue' \in [Clients -> Seq(EventDirs \cup {Everybody})]
        /\ \A d \in Clients : Len(queue'[d]) <= Capacity
    BY <1>4, SSEAssumption DEF NotifyPanics
  <2>2. /\ lookup' \in [Clients \cup Notifiers -> Lookups]
        /\ sending' \in [Broadcasters -> [dir : EventDirs \cup {Everybody}, left : SUBSET Clients]]
        /\ work' \in [Notifiers -> Jobs]
    BY <1>4, ConstantTypes DEF NotifyPanics
  <2>3. BusyWithClient'
    BY <1>4 DEF NotifyPanics, BusyWithClient, AtRest
  <2>4. phase' \in [Clients -> Phases]
    BY <1>4 DEF NotifyPanics, Phases
  <2> QED
    BY <1>4, <2>1, <2>2, <2>3, <2>4 DEF NotifyPanics, TypeOK, Jobs, Lookups
<1>5. CASE work[n].step = "filter" /\ LookupSteps(n, work[n].client)
  <2>1. TypeOK'
    BY <1>5, LookupStepsType DEF BusyWithClient
  <2>2. UNCHANGED work
    BY <1>5 DEF LookupSteps, ReadDirs, ReadHome, ReadAdmin
  <2> QED
    BY <2>1, <2>2 DEF BusyWithClient
<1>6. CASE work[n].step = "filter" /\ FilterRefreshed(n)
  <2>1. /\ filter' \in [Clients -> {NoFilter} \cup Filters]
        /\ lookup' \in [Clients \cup Notifiers -> Lookups]
    BY <1>6, StoreType DEF FilterRefreshed, BusyWithClient
  <2> DEFINE job == [step |-> "send", user |-> work[n].user, client |-> work[n].client, left |-> work[n].left]
  <2>2. job \in Jobs /\ job.client \in Clients
    BY <1>6 DEF TypeOK, Jobs, BusyWithClient
  <2> HIDE DEF job
  <2>3. work' = [work EXCEPT ![n] = job]
    BY <1>6 DEF FilterRefreshed, job
  <2>4. work' \in [Notifiers -> Jobs] /\ BusyWithClient'
    BY <2>2, <2>3, JobChanged
  <2> QED
    BY <1>6, <2>1, <2>4 DEF FilterRefreshed, TypeOK, Jobs, Lookups
<1> QED
  BY <1>1, <1>2, <1>3, <1>4, <1>5, <1>6 DEF Notifier

LEMMA RolesChangeType ==
  ASSUME TypeOK, BusyWithClient, NEW user \in Users, NEW ans \in Answers, RolesChange(user, ans)
  PROVE  TypeOK' /\ BusyWithClient'
<1>1. changes' \in 0..MaxChanges
  BY SSEAssumption DEF RolesChange, TypeOK
<1>2. answer' \in [Users -> Answers] /\ held' \in [Clients -> SUBSET Answers]
  BY DEF RolesChange, TypeOK
<1>3. work' \in [Notifiers -> Jobs] /\ BusyWithClient'
  <2>1. CASE UNCHANGED work
    BY <2>1 DEF TypeOK, Jobs, BusyWithClient
  <2>2. CASE \E n \in Notifiers : work[n] = AtRest /\ work' = [work EXCEPT ![n] = Called(user)]
    BY <2>2, ConstantTypes, JobChanged DEF Called, AtRest
  <2> QED
    BY <2>1, <2>2 DEF RolesChange
<1> QED
  BY <1>1, <1>2, <1>3 DEF RolesChange, TypeOK, Jobs

TypeInv == TypeOK /\ BusyWithClient

LEMMA TypeStep == TypeInv /\ [Next]_vars => TypeInv'
<1> SUFFICES ASSUME TypeInv, [Next]_vars
             PROVE  TypeInv'
  OBVIOUS
<1>1. ASSUME NEW c \in Clients,
             \/ Connection(c) \/ Connect(c) \/ Tick(c) \/ Deliver(c) \/ HangUp(c) \/ Leave(c)
      PROVE  TypeInv'
  <2>1. TypeOK'
    BY <1>1, ConnectionType DEF TypeInv
  <2>2. UNCHANGED work
    BY <1>1 DEF Connection, LookupSteps, ReadDirs, ReadHome, ReadAdmin, Resolved, Register, Unregister,
                Close, Connect, Tick, Deliver, HangUp, Leave
  <2> QED
    BY <2>1, <2>2 DEF TypeInv, BusyWithClient
<1>2. ASSUME NEW b \in Broadcasters,
             \/ \E dir \in EventDirs : StartBroadcast(b, dir)
             \/ \E c \in Clients : SendTo(b, c)
      PROVE  TypeInv'
  <2>1. TypeOK'
    BY <1>2, BroadcastType DEF TypeInv
  <2>2. UNCHANGED work
    BY <1>2 DEF StartBroadcast, SendTo
  <2> QED
    BY <2>1, <2>2 DEF TypeInv, BusyWithClient
<1>3. ASSUME NEW n \in Notifiers, Notifier(n) PROVE TypeInv'
  BY <1>3, NotifierType DEF TypeInv
<1>4. ASSUME NEW user \in Users, NEW ans \in Answers, RolesChange(user, ans) PROVE TypeInv'
  BY <1>4, RolesChangeType DEF TypeInv
<1>5. CASE UNCHANGED vars
  BY <1>5 DEF vars, TypeInv, TypeOK, BusyWithClient
<1> QED
  BY <1>1, <1>2, <1>3, <1>4, <1>5 DEF Next

LEMMA TypeInit == Init => TypeInv
<1> SUFFICES ASSUME Init PROVE TypeInv
  OBVIOUS
<1>1. /\ lookup \in [Clients \cup Notifiers -> Lookups] /\ work \in [Notifiers -> Jobs]
      /\ sending \in [Broadcasters -> [dir : EventDirs \cup {Everybody}, left : SUBSET Clients]]
  BY ConstantTypes DEF Init
<1>2. BusyWithClient
  BY DEF Init, BusyWithClient, AtRest
<1>3. /\ filter \in [Clients -> {NoFilter} \cup Filters] /\ gone \subseteq Clients
      /\ held \in [Clients -> SUBSET Answers] /\ answer \in [Users -> Answers]
      /\ phase \in [Clients -> Phases]
  BY DEF Init, Phases
<1>4. panicked \in BOOLEAN
  BY DEF Init
<1>5. queue \in [Clients -> Seq(EventDirs \cup {Everybody})]
  BY DEF Init
<1>6. changes \in 0..MaxChanges /\ events \in 0..MaxEvents
  BY SSEAssumption DEF Init
<1>7. \A c \in Clients : Len(queue[c]) <= Capacity
  BY SSEAssumption DEF Init
<1>8. TypeOK
  BY <1>1, <1>3, <1>4, <1>5, <1>6, <1>7 DEF TypeOK, Lookups, Jobs
<1> QED
  BY <1>2, <1>8 DEF TypeInv

\* Every variable of the event stream keeps its type; in particular no channel
\* exceeds its capacity and RefreshUserFilter always has a client to send to.
THEOREM SSETypeCorrect == Spec => []TypeOK
<1>1. TypeInv => TypeOK
  BY DEF TypeInv
<1> QED
  BY <1>1, TypeInit, TypeStep, PTL DEF Spec
-----------------------------------------------------------------------------
(* Broadcasts and the lock *)

\* The write lock keeps Registered as it is while a broadcast is under way,
\* and a client has a filter before it asks for the lock to register.
SafeInv ==
  /\ TypeInv
  /\ \A b \in Broadcasters : sending[b].left \subseteq Registered
  /\ \A c \in Clients : phase[c] \in {"joining", "open", "refreshing", "leaving"} => filter[c] \in Filters

LEMMA SafeConnection ==
  ASSUME SafeInv, NEW c \in Clients,
         \/ Connection(c) \/ Connect(c) \/ Tick(c) \/ Deliver(c) \/ HangUp(c) \/ Leave(c)
  PROVE  /\ \A b \in Broadcasters : sending'[b].left \subseteq Registered'
         /\ \A d \in Clients : phase'[d] \in {"joining", "open", "refreshing", "leaving"} => filter'[d] \in Filters
<1>1. phase \in [Clients -> Phases] /\ filter \in [Clients -> {NoFilter} \cup Filters]
  BY DEF SafeInv, TypeInv, TypeOK
<1>2. CASE LookupSteps(c, c) \/ Deliver(c) \/ HangUp(c)
  BY <1>2 DEF LookupSteps, ReadDirs, ReadHome, ReadAdmin, Deliver, HangUp, SafeInv, Registered
<1>3. CASE Resolved(c)
  <2>1. filter'[c] \in Filters /\ \A d \in Clients \ {c} : filter'[d] = filter[d]
    <3>1. Store(c, c)
      BY <1>3 DEF Resolved
    <3>2. \A d \in Clients \ {c} : filter'[d] = filter[d]
      BY <1>1, <3>1 DEF Store
    <3> QED
      BY <3>1, <3>2, StoreType DEF SafeInv, TypeInv
  <2>2. Registered \subseteq Registered'
    BY <1>1, <1>3 DEF Resolved, Registered
  <2>3. sending' = sending
    BY <1>3 DEF Resolved
  <2>4. \A d \in Clients \ {c} : phase'[d] = phase[d]
    BY <1>1, <1>3 DEF Resolved
  <2> QED
    BY <2>1, <2>2, <2>3, <2>4 DEF SafeInv
<1>4. CASE Register(c) \/ Leave(c) \/ Tick(c) \/ Connect(c) \/ Close(c)
  <2>1. Registered \subseteq Registered' /\ sending' = sending /\ filter' = filter
    BY <1>1, <1>4 DEF Register, Leave, Tick, Connect, Close, Registered
  <2>2. \A d \in Clients : phase'[d] \in {"joining", "open", "refreshing", "leaving"} =>
                            phase[d] \in {"joining", "open", "refreshing", "leaving"}
    BY <1>1, <1>4 DEF Register, Leave, Tick, Connect, Close
  <2> QED
    BY <2>1, <2>2 DEF SafeInv
<1>5. CASE Unregister(c)
  <2>1. \A b \in Broadcasters : sending'[b].left = {}
    BY <1>5 DEF Unregister, MayWriteLock
  <2>2. \A d \in Clients : phase'[d] \in {"joining", "open", "refreshing", "leaving"} =>
                            phase[d] \in {"joining", "open", "refreshing", "leaving"}
    BY <1>1, <1>5 DEF Unregister
  <2>3. filter' = filter
    BY <1>5 DEF Unregister
  <2> QED
    BY <2>1, <2>2, <2>3 DEF SafeInv
<1> QED
  BY <1>2, <1>3, <1>4, <1>5 DEF Connection

LEMMA SafeBroadcast ==
  ASSUME SafeInv, NEW b \in Broadcasters,
         \/ \E dir \in EventDirs : StartBroadcast(b, dir)
         \/ \E c \in Clients : SendTo(b, c)
  PROVE  /\ \A d \in Broadcasters : sending'[d].left \subseteq Registered'
         /\ \A d \in Clients : phase'[d] \in {"joining", "open", "refreshing", "leaving"} => filter'[d] \in Filters
<1>1. phase' = phase /\ filter' = filter
  BY DEF StartBroadcast, SendTo
<1>2. Registered' = Registered
  BY <1>1 DEF Registered
<1>3. sending \in [Broadcasters -> [dir : EventDirs \cup {Everybody}, left : SUBSET Clients]]
  BY DEF SafeInv, TypeInv, TypeOK
<1>4. sending'[b].left \subseteq Registered /\ \A d \in Broadcasters \ {b} : sending'[d] = sending[d]
  BY <1>3 DEF StartBroadcast, SendTo, SafeInv
<1> QED
  BY <1>1, <1>2, <1>4 DEF SafeInv

LEMMA SafeNotifier ==
  ASSUME SafeInv, NEW n \in Notifiers, Notifier(n)
  PROVE  /\ \A b \in Broadcasters : sending'[b].left \subseteq Registered'
         /\ \A d \in Clients : phase'[d] \in {"joining", "open", "refreshing", "leaving"} => filter'[d] \in Filters
<1>1. CASE \/ Collect(n) \/ NextClient(n) \/ Notify(n)
           \/ LookupSteps(n, work[n].client)
  BY <1>1 DEF Collect, NextClient, Notify, LookupSteps, ReadDirs, ReadHome, ReadAdmin, SafeInv, Registered
<1>2. CASE NotifyPanics(n)
  <2>1. \A b \in Broadcasters : sending'[b].left = {}
    BY <1>2 DEF NotifyPanics, Quiet
  <2>2. \A d \in Clients : phase'[d] \in {"absent", "closed"}
    BY <1>2 DEF NotifyPanics
  <2> QED
    BY <2>1, <2>2
<1>3. CASE work[n].step = "filter" /\ FilterRefreshed(n)
  <2> DEFINE c == work[n].client
  <2>1. c \in Clients
    BY <1>3 DEF SafeInv, TypeInv, BusyWithClient
  <2>2. Store(n, c) /\ phase' = phase /\ sending' = sending
    BY <1>3 DEF FilterRefreshed
  <2> HIDE DEF c
  <2>3. filter'[c] \in Filters
    BY <2>1, <2>2, StoreType DEF SafeInv, TypeInv
  <2>4. \A d \in Clients \ {c} : filter'[d] = filter[d]
    BY <2>1, <2>2 DEF Store, SafeInv, TypeInv, TypeOK
  <2> QED
    BY <2>2, <2>3, <2>4 DEF SafeInv, Registered
<1> QED
  BY <1>1, <1>2, <1>3 DEF Notifier

LEMMA SafeStep == SafeInv /\ [Next]_vars => SafeInv'
<1> SUFFICES ASSUME SafeInv, [Next]_vars
             PROVE  SafeInv'
  OBVIOUS
<1>1. TypeInv'
  BY TypeStep DEF SafeInv
<1>2. ASSUME NEW c \in Clients,
             \/ Connection(c) \/ Connect(c) \/ Tick(c) \/ Deliver(c) \/ HangUp(c) \/ Leave(c)
      PROVE  SafeInv'
  BY <1>1, <1>2, SafeConnection DEF SafeInv
<1>3. ASSUME NEW b \in Broadcasters,
             \/ \E dir \in EventDirs : StartBroadcast(b, dir)
             \/ \E c \in Clients : SendTo(b, c)
      PROVE  SafeInv'
  BY <1>1, <1>3, SafeBroadcast DEF SafeInv
<1>4. ASSUME NEW n \in Notifiers, Notifier(n) PROVE SafeInv'
  BY <1>1, <1>4, SafeNotifier DEF SafeInv
<1>5. CASE \E user \in Users, ans \in Answers : RolesChange(user, ans)
  BY <1>1, <1>5 DEF RolesChange, SafeInv, Registered
<1>6. CASE UNCHANGED vars
  BY <1>1, <1>6 DEF vars, SafeInv, Registered
<1> QED
  BY <1>2, <1>3, <1>4, <1>5, <1>6 DEF Next

\* A broadcast only ever visits clients that are registered, whose channels
\* are open, and whose filters are there: the RWMutex does what the comment of
\* HandleSSE says of broadcast.
THEOREM SSEBroadcastSafe == Spec => []BroadcastSafe
<1>1. Init => SafeInv
  BY TypeInit DEF Init, SafeInv, Quiet
<1>2. SafeInv => BroadcastSafe
  BY SSEAssumption DEF SafeInv, BroadcastSafe, Registered, Filters
<1> QED
  BY <1>1, <1>2, SafeStep, PTL DEF Spec
-----------------------------------------------------------------------------
(* What is sent *)

\* Each part of a snapshot was given by some answer in the set.
Covered(user, answers, found) ==
  /\ \A d \in found.dirs : \E ans \in answers : d \in AccessibleDirs(user, ans)
  /\ found.admin => \E ans \in answers : IsAdmin(ans)

\* Before it connects, a client has nothing; afterwards the answer its user
\* would get now is among those held, and only then has a notifier it in hand.
Attended ==
  /\ \A c \in Clients : phase[c] = "absent" =>
        filter[c] = NoFilter /\ queue[c] = <<>> /\ lookup[c].step = "none"
  /\ \A c \in Clients : phase[c] # "absent" => answer[Owner[c]] \in held[c]
  /\ \A n \in Notifiers :
        /\ \A c \in work[n].left : phase[c] # "absent"
        /\ work[n].step \in {"filter", "send"} => phase[work[n].client] # "absent"

FiltersCovered ==
  \A c \in Clients : filter[c] # NoFilter => Covered(Owner[c], held[c], filter[c])

LookupsCovered ==
  /\ \A c \in Clients : lookup[c].step # "none" => Covered(Owner[c], held[c], lookup[c])
  /\ \A n \in Notifiers : work[n].step = "filter" =>
        Covered(Owner[work[n].client], held[work[n].client], lookup[n])

HistoryInv == TypeInv /\ Attended /\ FiltersCovered /\ LookupsCovered /\ NothingForeign

LEMMA CoveredMore ==
  ASSUME NEW user, NEW answers, NEW more, NEW found, answers \subseteq more, Covered(user, answers, found)
  PROVE  Covered(user, more, found)
BY DEF Covered

LEMMA NothingCovered ==
  ASSUME NEW user, NEW answers
  PROVE  Covered(user, answers, Lookup) /\ Covered(user, answers, NoLookup)
<1>1. /\ Lookup.dirs = {} /\ Lookup.admin = FALSE
      /\ NoLookup.dirs = {} /\ NoLookup.admin = FALSE
  BY DEF Lookup, NoLookup
<1> QED
  BY <1>1 DEF Covered

\* What a filter lets through, one of the answers behind it lets the user read.
LEMMA CoveredMayRead ==
  ASSUME NEW user, NEW answers, NEW found, NEW dir,
         Covered(user, answers, found), CanRead(found, dir)
  PROVE  \E ans \in answers : MayRead(user, ans, dir)
<1>1. CASE found.admin
  <2>1. PICK ans \in answers : IsAdmin(ans)
    BY <1>1 DEF Covered
  <2>2. MayRead(user, ans, dir)
    BY <2>1 DEF IsAdmin, RolesIn, MayRead, RolesAllow
  <2> QED
    BY <2>2
<1>2. CASE \E allowed \in found.dirs : IsPrefix(allowed, dir)
  <2>1. PICK allowed \in found.dirs : IsPrefix(allowed, dir)
    BY <1>2
  <2>2. PICK ans \in answers : allowed \in AccessibleDirs(user, ans)
    BY DEF Covered
  <2>3. CASE ans.home /\ allowed = Homes[user]
    BY <2>1, <2>3 DEF MayRead, OwnHome
  <2>4. CASE allowed \in Configured /\ IsAdmin(ans)
    BY <2>4 DEF IsAdmin, RolesIn, MayRead, RolesAllow
  <2>5. CASE allowed \in Configured /\ ReadGrants[allowed] \cap ({Anyone, user} \cup RolesIn(ans)) # {}
    BY <2>1, <2>5 DEF RolesIn, MayRead, RolesAllow
  <2> QED
    BY <2>2, <2>3, <2>4, <2>5 DEF AccessibleDirs, SharedDirs, HomeDirs
<1> QED
  BY <1>1, <1>2 DEF CanRead

\* A step of a lookup leaves what it has found covered.
LEMMA LookupStepsCovered ==
  ASSUME HistoryInv, NEW t \in Clients \cup Notifiers, NEW c \in Clients, phase[c] # "absent",
         LookupSteps(t, c), Covered(Owner[c], held[c], lookup[t])
  PROVE  /\ Covered(Owner[c], held[c], lookup'[t])
         /\ lookup[t].step # "none"
         /\ \A s \in (Clients \cup Notifiers) \ {t} : lookup'[s] = lookup[s]
<1> DEFINE now == answer[Owner[c]]
<1>1. now \in held[c]
  BY DEF HistoryInv, Attended
<1>2. DOMAIN lookup = Clients \cup Notifiers
  BY DEF HistoryInv, TypeInv, TypeOK
<1>3. CASE ReadDirs(t, c)
  <2>1. /\ lookup'[t].dirs = SharedDirs(Owner[c], now)
        /\ lookup'[t].admin = FALSE
        /\ \A s \in (Clients \cup Notifiers) \ {t} : lookup'[s] = lookup[s]
    BY <1>2, <1>3 DEF ReadDirs, HistoryInv, TypeInv, TypeOK
  <2>2. lookup[t].step # "none"
    BY <1>3 DEF ReadDirs
  <2> HIDE DEF now
  <2> QED
    BY <1>1, <2>1, <2>2 DEF Covered, AccessibleDirs
<1>5. CASE ReadHome(t, c)
  <2>1. /\ lookup'[t].dirs = lookup[t].dirs \cup HomeDirs(Owner[c], now)
        /\ lookup'[t].admin = FALSE
        /\ \A s \in (Clients \cup Notifiers) \ {t} : lookup'[s] = lookup[s]
    BY <1>2, <1>5 DEF ReadHome, HistoryInv, TypeInv, TypeOK
  <2>2. lookup[t].step # "none"
    BY <1>5 DEF ReadHome
  <2> HIDE DEF now
  <2> QED
    BY <1>1, <2>1, <2>2 DEF Covered, AccessibleDirs
<1>4. CASE ReadAdmin(t, c)
  <2>1. /\ lookup'[t].dirs = lookup[t].dirs
        /\ lookup'[t].admin = IsAdmin(now)
        /\ \A s \in (Clients \cup Notifiers) \ {t} : lookup'[s] = lookup[s]
    BY <1>2, <1>4 DEF ReadAdmin, HistoryInv, TypeInv, TypeOK
  <2>2. lookup[t].step # "none"
    BY <1>4 DEF ReadAdmin
  <2> HIDE DEF now
  <2> QED
    BY <1>1, <2>1, <2>2 DEF Covered
<1> QED
  BY <1>3, <1>4, <1>5 DEF LookupSteps

LEMMA StoreCovered ==
  ASSUME HistoryInv, NEW t \in Clients \cup Notifiers, NEW c \in Clients, phase[c] # "absent",
         Store(t, c), Covered(Owner[c], held[c], lookup[t])
  PROVE  /\ Covered(Owner[c], held[c], filter'[c])
         /\ \A d \in Clients \ {c} : filter'[d] = filter[d]
         /\ lookup'[t].step = "none"
         /\ \A s \in (Clients \cup Notifiers) \ {t} : lookup'[s] = lookup[s]
<1>1. /\ filter'[c].dirs = lookup[t].dirs
      /\ filter'[c].admin = lookup[t].admin
      /\ \A d \in Clients \ {c} : filter'[d] = filter[d]
  BY DEF Store, HistoryInv, TypeInv, TypeOK
<1>2. /\ lookup'[t].step = "none"
      /\ \A s \in (Clients \cup Notifiers) \ {t} : lookup'[s] = lookup[s]
  BY DEF Store, NoLookup, HistoryInv, TypeInv, TypeOK
<1> QED
  BY <1>1, <1>2 DEF Covered

\* An offer adds at most the directory offered.
LEMMA OfferElements ==
  ASSUME NEW S, NEW q \in Seq(S), NEW dir \in S, NEW k \in DOMAIN Offer(q, dir)
  PROVE  Offer(q, dir)[k] = dir \/ (k \in DOMAIN q /\ Offer(q, dir)[k] = q[k])
BY DEF Offer
History == Attended /\ FiltersCovered /\ LookupsCovered /\ NothingForeign

\* No step of a connection's goroutine breaks any part of the history.
LEMMA HistoryConnection ==
  ASSUME HistoryInv, NEW c \in Clients,
         \/ Connection(c) \/ Connect(c) \/ Tick(c) \/ Deliver(c) \/ HangUp(c) \/ Leave(c)
  PROVE  History'
<1>1. /\ phase \in [Clients -> Phases] /\ DOMAIN lookup = Clients \cup Notifiers
      /\ queue \in [Clients -> Seq(EventDirs \cup {Everybody})]
      /\ c \notin Notifiers /\ DOMAIN held = Clients
  BY SSEAssumption DEF HistoryInv, TypeInv, TypeOK
<1>2. CASE LookupSteps(c, c)
  <2>1. lookup[c].step # "none"
    BY <1>2 DEF LookupSteps, ReadDirs, ReadHome, ReadAdmin
  <2>2. phase[c] # "absent" /\ Covered(Owner[c], held[c], lookup[c])
    BY <2>1 DEF HistoryInv, Attended, LookupsCovered
  <2>3. /\ Covered(Owner[c], held[c], lookup'[c])
        /\ \A s \in (Clients \cup Notifiers) \ {c} : lookup'[s] = lookup[s]
    BY <1>2, <2>2, LookupStepsCovered
  <2>4. UNCHANGED <<phase, filter, queue, work, answer, held>>
    BY <1>2 DEF LookupSteps, ReadDirs, ReadHome, ReadAdmin
  <2>5. Attended'
    BY <2>2, <2>3, <2>4 DEF HistoryInv, Attended
  <2>6. LookupsCovered'
    BY <1>1, <2>3, <2>4 DEF HistoryInv, LookupsCovered
  <2> QED
    BY <2>4, <2>5, <2>6 DEF History, HistoryInv, FiltersCovered, NothingForeign
<1>3. CASE Resolved(c)
  <2>1. Store(c, c) /\ UNCHANGED <<queue, work, answer, held>>
    BY <1>3 DEF Resolved
  <2>2. phase[c] # "absent" /\ Covered(Owner[c], held[c], lookup[c])
    BY <2>1 DEF Store, HistoryInv, Attended, LookupsCovered
  <2>3. /\ Covered(Owner[c], held[c], filter'[c])
        /\ \A d \in Clients \ {c} : filter'[d] = filter[d]
        /\ lookup'[c].step = "none"
        /\ \A s \in (Clients \cup Notifiers) \ {c} : lookup'[s] = lookup[s]
    BY <2>1, <2>2, StoreCovered
  <2>4. phase'[c] # "absent" /\ \A d \in Clients \ {c} : phase'[d] = phase[d]
    BY <1>1, <1>3 DEF Resolved
  <2>5. Attended'
    <3>1. /\ \A n \in Notifiers : work[n].left \subseteq Clients /\
                                (work[n].step \in {"filter", "send"} => work[n].client \in Clients)
          /\ answer[Owner[c]] \in held[c]
      BY <2>2 DEF HistoryInv, Attended, TypeInv, TypeOK, BusyWithClient
    <3> QED
      BY <2>1, <2>3, <2>4, <3>1 DEF HistoryInv, Attended
  <2>6. LookupsCovered'
    BY <1>1, <2>1, <2>3 DEF HistoryInv, LookupsCovered
  <2>7. FiltersCovered'
    BY <2>1, <2>3 DEF HistoryInv, FiltersCovered
  <2> QED
    BY <2>1, <2>5, <2>6, <2>7 DEF History, HistoryInv, NothingForeign
<1>4. CASE Register(c) \/ Unregister(c) \/ Close(c) \/ Leave(c) \/ HangUp(c)
  <2>1. UNCHANGED <<filter, queue, lookup, work, answer, held>>
    BY <1>4 DEF Register, Unregister, Close, Leave, HangUp
  <2>2. \A d \in Clients : phase'[d] = "absent" <=> phase[d] = "absent"
    BY <1>1, <1>4 DEF Register, Unregister, Close, Leave, HangUp
  <2>3. Attended'
    <3>1. \A n \in Notifiers : work[n].left \subseteq Clients /\
                                (work[n].step \in {"filter", "send"} => work[n].client \in Clients)
      BY DEF HistoryInv, TypeInv, TypeOK, BusyWithClient
    <3> QED
      BY <2>1, <2>2, <3>1 DEF HistoryInv, Attended
  <2> QED
    BY <2>1, <2>3 DEF History, HistoryInv, FiltersCovered, LookupsCovered, NothingForeign
<1>5. CASE Connect(c)
  <2>1. /\ phase[c] = "absent" /\ phase'[c] # "absent"
        /\ \A d \in Clients \ {c} : phase'[d] = phase[d] /\ held'[d] = held[d]
        /\ held'[c] = {answer[Owner[c]]}
        /\ lookup'[c] = Lookup
        /\ \A s \in (Clients \cup Notifiers) \ {c} : lookup'[s] = lookup[s]
        /\ UNCHANGED <<filter, queue, work, answer>>
    BY <1>1, <1>5 DEF Connect
  <2>2. filter[c] = NoFilter /\ queue[c] = <<>>
    BY <2>1 DEF HistoryInv, Attended
  <2>3. \A n \in Notifiers : work[n].left \subseteq Clients /\
                              (work[n].step \in {"filter", "send"} => work[n].client \in Clients \ {c})
    BY <2>1 DEF HistoryInv, Attended, TypeInv, TypeOK, BusyWithClient
  <2>4. Attended'
    BY <2>1, <2>3 DEF HistoryInv, Attended
  <2>5. LookupsCovered'
    BY <1>1, <2>1, <2>3, NothingCovered DEF HistoryInv, LookupsCovered
  <2>6. FiltersCovered'
    BY <2>1, <2>2 DEF HistoryInv, FiltersCovered
  <2>7. NothingForeign'
    <3>1. DOMAIN queue[c] = {}
      BY <2>2
    <3> QED
      BY <2>1, <3>1 DEF HistoryInv, NothingForeign
  <2> QED
    BY <2>4, <2>5, <2>6, <2>7 DEF History
<1>6. CASE Tick(c)
  <2>1. /\ phase[c] # "absent" /\ phase'[c] # "absent"
        /\ \A d \in Clients \ {c} : phase'[d] = phase[d]
        /\ lookup'[c] = Lookup
        /\ \A s \in (Clients \cup Notifiers) \ {c} : lookup'[s] = lookup[s]
        /\ UNCHANGED <<filter, queue, work, answer, held>>
    BY <1>1, <1>6 DEF Tick
  <2>2. Attended'
    <3>1. /\ \A n \in Notifiers : work[n].left \subseteq Clients /\
                                (work[n].step \in {"filter", "send"} => work[n].client \in Clients)
          /\ answer[Owner[c]] \in held[c]
      BY <2>1 DEF HistoryInv, Attended, TypeInv, TypeOK, BusyWithClient
    <3> QED
      BY <2>1, <3>1 DEF HistoryInv, Attended
  <2>3. LookupsCovered'
    BY <1>1, <2>1, NothingCovered DEF HistoryInv, LookupsCovered
  <2> QED
    BY <2>1, <2>2, <2>3 DEF History, HistoryInv, FiltersCovered, NothingForeign
<1>7. CASE Deliver(c)
  <2>1. /\ queue[c] # <<>>
        /\ queue'[c] = Tail(queue[c])
        /\ \A d \in Clients \ {c} : queue'[d] = queue[d]
        /\ UNCHANGED <<phase, filter, lookup, work, answer, held>>
    BY <1>1, <1>7 DEF Deliver
  <2>2. \A k \in DOMAIN Tail(queue[c]) : k + 1 \in DOMAIN queue[c] /\ Tail(queue[c])[k] = queue[c][k + 1]
    BY <1>1, <2>1
  <2>3. NothingForeign'
    BY <2>1, <2>2 DEF HistoryInv, NothingForeign
  <2>4. Attended'
    BY <2>1 DEF HistoryInv, Attended
  <2> QED
    BY <2>1, <2>3, <2>4 DEF History, HistoryInv, FiltersCovered, LookupsCovered
<1> QED
  BY <1>2, <1>3, <1>4, <1>5, <1>6, <1>7 DEF Connection
LEMMA HistoryBroadcast ==
  ASSUME HistoryInv, SafeInv, NEW b \in Broadcasters,
         \/ \E dir \in EventDirs : StartBroadcast(b, dir)
         \/ \E c \in Clients : SendTo(b, c)
  PROVE  History'
<1>1. CASE \E dir \in EventDirs : StartBroadcast(b, dir)
  BY <1>1 DEF StartBroadcast, History, HistoryInv, Attended, FiltersCovered, LookupsCovered, NothingForeign
<1>2. CASE \E c \in Clients : SendTo(b, c)
  <2>1. PICK c \in Clients : SendTo(b, c)
    BY <1>2
  <2> DEFINE dir == sending[b].dir
             DirsSent == EventDirs \cup {Everybody}
  <2>2. queue \in [Clients -> Seq(DirsSent)] /\ dir \in DirsSent
    BY DEF HistoryInv, TypeInv, TypeOK
  <2>3. UNCHANGED <<phase, filter, lookup, work, answer, held>>
    BY <2>1 DEF SendTo
  <2>4. /\ queue'[c] = queue[c] \/ (queue'[c] = Offer(queue[c], dir) /\ CanReceive(c, dir))
        /\ \A d \in Clients \ {c} : queue'[d] = queue[d]
    BY <2>1, <2>2 DEF SendTo
  <2> HIDE DEF dir, DirsSent
  <2>5. ASSUME NEW k \in DOMAIN queue'[c], queue'[c][k] # Everybody
        PROVE  \E ans \in held[c] : MayRead(Owner[c], ans, queue'[c][k])
    <3>1. CASE k \in DOMAIN queue[c] /\ queue'[c][k] = queue[c][k]
      BY <2>5, <3>1 DEF HistoryInv, NothingForeign
    <3>2. CASE queue'[c][k] = dir /\ CanReceive(c, dir)
      <4>1. CanRead(filter[c], dir)
        BY <2>5, <3>2 DEF CanReceive
      <4>2. Covered(Owner[c], held[c], filter[c])
        BY <4>1 DEF CanRead, HistoryInv, FiltersCovered
      <4> QED
        BY <3>2, <4>1, <4>2, CoveredMayRead
    <3>3. CASE queue'[c] = Offer(queue[c], dir) /\ CanReceive(c, dir)
      <4>1. k \in DOMAIN Offer(queue[c], dir)
        BY <2>5, <3>3
      <4>2. Offer(queue[c], dir)[k] = dir \/ (k \in DOMAIN queue[c] /\ Offer(queue[c], dir)[k] = queue[c][k])
        BY <2>2, <4>1, OfferElements
      <4> QED
        BY <3>1, <3>2, <3>3, <4>2
    <3> QED
      BY <2>4, <2>5, <3>1, <3>3
  <2>6. NothingForeign'
    BY <2>3, <2>4, <2>5 DEF HistoryInv, NothingForeign
  <2>7. Attended'
    <3>1. phase[c] # "absent"
      BY <2>1 DEF SendTo, SafeInv, Registered
    <3> QED
      BY <2>3, <2>4, <3>1 DEF HistoryInv, Attended
  <2> QED
    BY <2>3, <2>6, <2>7 DEF History, HistoryInv, FiltersCovered, LookupsCovered
<1> QED
  BY <1>1, <1>2
LEMMA HistoryNotifier ==
  ASSUME HistoryInv, SafeInv, NEW n \in Notifiers, Notifier(n)
  PROVE  History'
<1> DEFINE c == work[n].client
<1>1. /\ DOMAIN lookup = Clients \cup Notifiers /\ DOMAIN work = Notifiers
      /\ queue \in [Clients -> Seq(EventDirs \cup {Everybody})]
      /\ n \notin Clients
  BY SSEAssumption DEF HistoryInv, TypeInv, TypeOK
<1>2. /\ work[n].step \in {"filter", "send"} => c \in Clients /\ phase[c] # "absent"
      /\ \A m \in Notifiers : work[m].left \subseteq Clients /\
                              (work[m].step \in {"filter", "send"} => work[m].client \in Clients)
  BY DEF HistoryInv, Attended, TypeInv, TypeOK, BusyWithClient
<1>3. CASE Collect(n)
  <2>1. /\ work'[n].step = "next" /\ \A m \in Notifiers \ {n} : work'[m] = work[m]
        /\ work'[n].left \subseteq Registered
        /\ UNCHANGED <<phase, filter, queue, lookup, answer, held>>
    BY <1>1, <1>3 DEF Collect
  <2>2. Attended'
    BY <2>1 DEF HistoryInv, Attended, Registered
  <2>3. LookupsCovered'
    BY <2>1 DEF HistoryInv, LookupsCovered
  <2> QED
    BY <2>1, <2>2, <2>3 DEF History, HistoryInv, FiltersCovered, NothingForeign
<1>4. CASE NextClient(n)
  <2>1. UNCHANGED <<phase, filter, queue, answer, held>>
    BY <1>4 DEF NextClient
  <2>2. CASE work' = [work EXCEPT ![n] = AtRest] /\ UNCHANGED lookup
    <3>1. /\ work'[n].step = "none" /\ work'[n].left = {}
          /\ \A m \in Notifiers \ {n} : work'[m] = work[m]
      BY <1>1, <2>2 DEF AtRest
    <3>2. Attended' /\ LookupsCovered'
      BY <2>1, <2>2, <3>1 DEF HistoryInv, Attended, LookupsCovered
    <3> QED
      BY <2>1, <3>2 DEF History, HistoryInv, FiltersCovered, NothingForeign
  <2>3. CASE \E d \in work[n].left :
               /\ work' = [work EXCEPT ![n] =
                     [step |-> "filter", user |-> @.user, client |-> d, left |-> @.left \ {d}]]
               /\ lookup' = [lookup EXCEPT ![n] = Lookup]
    <3>1. PICK d \in work[n].left :
               /\ work' = [work EXCEPT ![n] =
                     [step |-> "filter", user |-> @.user, client |-> d, left |-> @.left \ {d}]]
               /\ lookup' = [lookup EXCEPT ![n] = Lookup]
      BY <2>3
    <3>2. /\ work'[n].client = d /\ work'[n].left \subseteq work[n].left
          /\ \A m \in Notifiers \ {n} : work'[m] = work[m]
          /\ lookup'[n] = Lookup
          /\ \A t \in (Clients \cup Notifiers) \ {n} : lookup'[t] = lookup[t]
      BY <1>1, <3>1
    <3>3. Attended'
      BY <1>1, <2>1, <3>1, <3>2 DEF HistoryInv, Attended
    <3>4. LookupsCovered'
      BY <1>1, <2>1, <3>2, NothingCovered DEF HistoryInv, LookupsCovered
    <3> QED
      BY <2>1, <3>3, <3>4 DEF History, HistoryInv, FiltersCovered, NothingForeign
  <2> QED
    BY <1>4, <2>2, <2>3 DEF NextClient
<1>5. CASE Notify(n)
  <2>1. /\ work[n].step = "send" /\ work'[n].step = "next" /\ work'[n].left = work[n].left
        /\ \A m \in Notifiers \ {n} : work'[m] = work[m]
        /\ UNCHANGED <<phase, filter, lookup, answer, held>>
    BY <1>1, <1>5 DEF Notify
  <2>2. c \in Clients /\ phase[c] # "absent"
    BY <1>2, <2>1
  <2>3. queue'[c] = Offer(queue[c], Everybody) /\ \A d \in Clients \ {c} : queue'[d] = queue[d]
    BY <1>1, <1>5, <2>2 DEF Notify
  <2> HIDE DEF c
  <2>4. \A k \in DOMAIN queue'[c] : queue'[c][k] = Everybody \/
                                     (k \in DOMAIN queue[c] /\ queue'[c][k] = queue[c][k])
    BY <1>1, <2>2, <2>3, OfferElements
  <2>5. NothingForeign'
    BY <2>1, <2>3, <2>4 DEF HistoryInv, NothingForeign
  <2>6. Attended'
    BY <2>1, <2>2, <2>3 DEF HistoryInv, Attended
  <2>7. LookupsCovered'
    BY <2>1 DEF HistoryInv, LookupsCovered
  <2> QED
    BY <2>1, <2>5, <2>6, <2>7 DEF History, HistoryInv, FiltersCovered
<1>6. CASE NotifyPanics(n)
  <2>1. /\ \A d \in Clients : phase'[d] = "absent" <=> phase[d] = "absent"
        /\ \A d \in Clients : queue'[d] = <<>>
        /\ \A t \in Clients \cup Notifiers : lookup'[t].step = "none"
        /\ \A m \in Notifiers : work'[m].step = "none" /\ work'[m].left = {}
        /\ UNCHANGED <<filter, answer, held>>
    BY <1>6 DEF NotifyPanics, NoLookup, AtRest
  <2>2. Attended' /\ LookupsCovered'
    BY <2>1 DEF HistoryInv, Attended, LookupsCovered
  <2>3. NothingForeign'
    <3>1. \A d \in Clients : DOMAIN queue'[d] = {}
      BY <2>1
    <3> QED
      BY <3>1 DEF NothingForeign
  <2> QED
    BY <2>1, <2>2, <2>3 DEF History, HistoryInv, FiltersCovered
<1>7. CASE work[n].step = "filter" /\ LookupSteps(n, c)
  <2>1. /\ c \in Clients /\ phase[c] # "absent"
        /\ Covered(Owner[c], held[c], lookup[n])
    BY <1>2, <1>7 DEF HistoryInv, LookupsCovered
  <2>2. /\ Covered(Owner[c], held[c], lookup'[n])
        /\ \A t \in (Clients \cup Notifiers) \ {n} : lookup'[t] = lookup[t]
    BY <1>7, <2>1, LookupStepsCovered
  <2>3. UNCHANGED <<phase, filter, queue, work, answer, held>>
    BY <1>7 DEF LookupSteps, ReadDirs, ReadHome, ReadAdmin
  <2>4. Attended'
    BY <1>1, <2>2, <2>3 DEF HistoryInv, Attended
  <2>5. LookupsCovered'
    BY <1>1, <2>2, <2>3 DEF HistoryInv, LookupsCovered
  <2> QED
    BY <2>3, <2>4, <2>5 DEF History, HistoryInv, FiltersCovered, NothingForeign
<1>8. CASE work[n].step = "filter" /\ FilterRefreshed(n)
  <2>1. /\ c \in Clients /\ phase[c] # "absent"
        /\ Covered(Owner[c], held[c], lookup[n])
    BY <1>2, <1>8 DEF HistoryInv, LookupsCovered
  <2>2. Store(n, c) /\ UNCHANGED <<phase, queue, answer, held>>
    BY <1>8 DEF FilterRefreshed
  <2>3. /\ work'[n].step = "send" /\ work'[n].client = c /\ work'[n].left = work[n].left
        /\ \A m \in Notifiers \ {n} : work'[m] = work[m]
    BY <1>1, <1>8 DEF FilterRefreshed
  <2> HIDE DEF c
  <2>4. /\ Covered(Owner[c], held[c], filter'[c])
        /\ \A d \in Clients \ {c} : filter'[d] = filter[d]
        /\ \A t \in (Clients \cup Notifiers) \ {n} : lookup'[t] = lookup[t]
    BY <2>1, <2>2, StoreCovered
  <2>5. Attended'
    <3>1. \A d \in Clients : phase[d] = "absent" =>
            filter'[d] = NoFilter /\ queue'[d] = <<>> /\ lookup'[d].step = "none"
      BY <1>1, <2>1, <2>2, <2>4 DEF HistoryInv, Attended
    <3>2. \A m \in Notifiers :
            /\ \A d \in work'[m].left : phase[d] # "absent"
            /\ work'[m].step \in {"filter", "send"} => phase[work'[m].client] # "absent"
      BY <2>1, <2>3 DEF HistoryInv, Attended
    <3> QED
      BY <2>2, <3>1, <3>2 DEF HistoryInv, Attended
  <2>6. LookupsCovered'
    BY <1>1, <2>2, <2>3, <2>4 DEF HistoryInv, LookupsCovered
  <2>7. FiltersCovered'
    BY <2>2, <2>4 DEF HistoryInv, FiltersCovered
  <2> QED
    BY <2>2, <2>5, <2>6, <2>7 DEF History, HistoryInv, NothingForeign
<1> QED
  BY <1>3, <1>4, <1>5, <1>6, <1>7, <1>8 DEF Notifier

LEMMA HistoryRolesChange ==
  ASSUME HistoryInv, NEW user \in Users, NEW ans \in Answers, RolesChange(user, ans)
  PROVE  History'
<1>1. /\ answer'[user] = ans /\ \A u \in Users \ {user} : answer'[u] = answer[u]
      /\ \A c \in Clients : held[c] \subseteq held'[c]
      /\ \A c \in Clients : Owner[c] = user /\ phase[c] # "absent" => ans \in held'[c]
      /\ UNCHANGED <<phase, filter, queue, lookup>>
  BY DEF RolesChange, HistoryInv, TypeInv, TypeOK
<1>2. \A m \in Notifiers : \/ work'[m] = work[m]
                           \/ work'[m].step = "called" /\ work'[m].left = {}
  <2>1. CASE \E n \in Notifiers : work[n] = AtRest /\ work' = [work EXCEPT ![n] = Called(user)]
    <3>1. Called(user).step = "called" /\ Called(user).left = {}
      BY DEF Called, AtRest
    <3>2. DOMAIN work = Notifiers
      BY DEF HistoryInv, TypeInv, TypeOK
    <3> QED
      BY <2>1, <3>1, <3>2
  <2> QED
    BY <2>1 DEF RolesChange
<1>3. \A m \in Notifiers : work[m].step \in {"filter", "send"} => work[m].client \in Clients
  BY DEF HistoryInv, TypeInv, BusyWithClient
<1>4. Attended'
  <2>1. \A c \in Clients : Owner[c] \in Users
    BY SSEAssumption
  <2>2. \A c \in Clients : phase[c] # "absent" => answer'[Owner[c]] \in held'[c]
    BY <1>1, <2>1 DEF HistoryInv, Attended
  <2> QED
    BY <1>1, <1>2, <2>2 DEF HistoryInv, Attended
<1>5. FiltersCovered'
  BY <1>1, CoveredMore DEF HistoryInv, FiltersCovered
<1>6. LookupsCovered'
  BY <1>1, <1>2, <1>3, CoveredMore DEF HistoryInv, LookupsCovered
<1>7. NothingForeign'
  BY <1>1 DEF HistoryInv, NothingForeign
<1> QED
  BY <1>4, <1>5, <1>6, <1>7 DEF History

LEMMA HistoryStep == HistoryInv /\ SafeInv /\ [Next]_vars => HistoryInv'
<1> SUFFICES ASSUME HistoryInv, SafeInv, [Next]_vars
             PROVE  HistoryInv'
  OBVIOUS
<1>1. TypeInv'
  BY TypeStep DEF SafeInv
<1>2. History'
  <2>1. ASSUME NEW c \in Clients,
               \/ Connection(c) \/ Connect(c) \/ Tick(c) \/ Deliver(c) \/ HangUp(c) \/ Leave(c)
        PROVE  History'
    BY <2>1, HistoryConnection
  <2>2. ASSUME NEW b \in Broadcasters,
               \/ \E dir \in EventDirs : StartBroadcast(b, dir)
               \/ \E c \in Clients : SendTo(b, c)
        PROVE  History'
    BY <2>2, HistoryBroadcast
  <2>3. ASSUME NEW n \in Notifiers, Notifier(n) PROVE History'
    BY <2>3, HistoryNotifier
  <2>4. ASSUME NEW user \in Users, NEW ans \in Answers, RolesChange(user, ans) PROVE History'
    BY <2>4, HistoryRolesChange
  <2>5. CASE UNCHANGED vars
    BY <2>5 DEF vars, History, HistoryInv, Attended, FiltersCovered, LookupsCovered, NothingForeign
  <2> QED
    BY <2>1, <2>2, <2>3, <2>4, <2>5 DEF Next
<1> QED
  BY <1>1, <1>2 DEF HistoryInv, History

LEMMA HistoryInit == Init => HistoryInv
<1> SUFFICES ASSUME Init PROVE HistoryInv
  OBVIOUS
<1>1. Attended /\ FiltersCovered /\ LookupsCovered
  BY DEF Init, Attended, FiltersCovered, LookupsCovered, NoLookup, AtRest
<1>2. NothingForeign
  BY DEF Init, NothingForeign
<1> QED
  BY <1>1, <1>2, TypeInit DEF HistoryInv

\* Nothing is put into a client's channel about a directory that its user could
\* at no moment of the connection read, for any roles, rules and interleaving:
\* a snapshot that mixes two answers mixes only things that were allowed.
THEOREM SSENothingForeign == Spec => []NothingForeign
<1>1. Init => SafeInv
  BY TypeInit DEF Init, SafeInv, Quiet
<1>2. HistoryInv => NothingForeign
  BY DEF HistoryInv
<1> QED
  BY <1>1, <1>2, SafeStep, HistoryInit, HistoryStep, PTL DEF Spec

-----------------------------------------------------------------------------
(* The promise of the stream *)

\* What the roles open is in a snapshot as one answer says, the home as one does, and
\* the flag as one does.
DirsDrawn(user, answers, found) ==
  \E ans, other \in answers : found.dirs = SharedDirs(user, ans) \cup HomeDirs(user, other)
SharedDrawn(user, answers, found) == \E ans \in answers : found.dirs = SharedDirs(user, ans)
FlagDrawn(answers, found) == \E ans \in answers : found.admin = IsAdmin(ans)

LookupDrawn(user, answers, l) ==
  /\ l.step = "home" => SharedDrawn(user, answers, l)
  /\ l.step \in {"admin", "store"} => DirsDrawn(user, answers, l)
  /\ l.step = "store" => FlagDrawn(answers, l)

FiltersDrawn ==
  \A c \in Clients : filter[c] # NoFilter =>
    DirsDrawn(Owner[c], held[c], filter[c]) /\ FlagDrawn(held[c], filter[c])

LookupsDrawn ==
  /\ \A c \in Clients : LookupDrawn(Owner[c], held[c], lookup[c])
  /\ \A n \in Notifiers : work[n].step = "filter" =>
       LookupDrawn(Owner[work[n].client], held[work[n].client], lookup[n])

Drawn == FiltersDrawn /\ LookupsDrawn

\* Where the goroutines are: a connection looks roles up only while its phase says
\* so, and a notifier deals only with clients that have been registered.
Joined == {c \in Clients : phase[c] \in {"open", "refreshing", "leaving", "removed", "closed"}}

Placed ==
  /\ \A c \in Clients : lookup[c].step # "none" => phase[c] \in {"resolving", "refreshing"}
  /\ \A c \in Clients : phase[c] = "absent" => held[c] = {}
  /\ \A n \in Notifiers : /\ work[n].left \subseteq Joined
                          /\ work[n].step \in {"filter", "send"} => work[n].client \in Joined

StreamInv == SafeInv /\ HistoryInv /\ Drawn /\ Placed

\* No filter is stored, no lookup goes on, and no answer is forgotten.
LEMMA DrawnKept ==
  ASSUME Drawn, HistoryInv, filter' = filter, \A c \in Clients : held[c] \subseteq held'[c],
         \A t \in Clients \cup Notifiers : lookup'[t] = lookup[t] \/ lookup'[t].step \in {"none", "dirs"},
         \A n \in Notifiers : work'[n].step = "filter" =>
           \/ work[n].step = "filter" /\ work'[n].client = work[n].client
           \/ lookup'[n].step \in {"none", "dirs"}
  PROVE  Drawn'
<1>1. \A n \in Notifiers : work[n].step = "filter" => work[n].client \in Clients
  BY DEF HistoryInv, TypeInv, BusyWithClient
<1>2. FiltersDrawn'
  BY DEF Drawn, FiltersDrawn, DirsDrawn, FlagDrawn
<1>3. ASSUME NEW c \in Clients PROVE LookupDrawn(Owner[c], held'[c], lookup'[c])
  BY DEF Drawn, LookupsDrawn, LookupDrawn, SharedDrawn, DirsDrawn, FlagDrawn
<1>4. ASSUME NEW n \in Notifiers, work'[n].step = "filter"
      PROVE  LookupDrawn(Owner[work'[n].client], held'[work'[n].client], lookup'[n])
  BY <1>1, <1>4 DEF Drawn, LookupsDrawn, LookupDrawn, SharedDrawn, DirsDrawn, FlagDrawn
<1> QED
  BY <1>2, <1>3, <1>4 DEF Drawn, LookupsDrawn

LEMMA LookupStepsDrawn ==
  ASSUME HistoryInv, NEW t \in Clients \cup Notifiers, NEW c \in Clients, phase[c] # "absent",
         LookupSteps(t, c), LookupDrawn(Owner[c], held[c], lookup[t])
  PROVE  /\ LookupDrawn(Owner[c], held[c], lookup'[t])
         /\ \A s \in (Clients \cup Notifiers) \ {t} : lookup'[s] = lookup[s]
<1> DEFINE now == answer[Owner[c]]
<1>1. now \in held[c]
  BY DEF HistoryInv, Attended
<1>2. DOMAIN lookup = Clients \cup Notifiers
  BY DEF HistoryInv, TypeInv, TypeOK
<1>3. CASE ReadDirs(t, c)
  <2>1. /\ lookup'[t].step = "home" /\ lookup'[t].dirs = SharedDirs(Owner[c], now)
        /\ \A s \in (Clients \cup Notifiers) \ {t} : lookup'[s] = lookup[s]
    BY <1>2, <1>3 DEF ReadDirs
  <2> HIDE DEF now
  <2> QED
    BY <1>1, <2>1 DEF LookupDrawn, SharedDrawn
<1>5. CASE ReadHome(t, c)
  <2>1. /\ lookup[t].step = "home" /\ lookup'[t].step = "admin"
        /\ lookup'[t].dirs = lookup[t].dirs \cup HomeDirs(Owner[c], now)
        /\ \A s \in (Clients \cup Notifiers) \ {t} : lookup'[s] = lookup[s]
    BY <1>2, <1>5 DEF ReadHome
  <2> HIDE DEF now
  <2>2. PICK ans \in held[c] : lookup[t].dirs = SharedDirs(Owner[c], ans)
    BY <2>1 DEF LookupDrawn, SharedDrawn
  <2> QED
    BY <1>1, <2>1, <2>2 DEF LookupDrawn, DirsDrawn
<1>4. CASE ReadAdmin(t, c)
  <2>1. /\ lookup[t].step = "admin" /\ lookup'[t].step = "store"
        /\ lookup'[t].dirs = lookup[t].dirs /\ lookup'[t].admin = IsAdmin(now)
        /\ \A s \in (Clients \cup Notifiers) \ {t} : lookup'[s] = lookup[s]
    BY <1>2, <1>4 DEF ReadAdmin
  <2> HIDE DEF now
  <2> QED
    BY <1>1, <2>1 DEF LookupDrawn, SharedDrawn, DirsDrawn, FlagDrawn
<1> QED
  BY <1>3, <1>4, <1>5 DEF LookupSteps

LEMMA StoreDrawn ==
  ASSUME HistoryInv, Drawn, NEW t \in Clients \cup Notifiers, NEW c \in Clients,
         Store(t, c), LookupDrawn(Owner[c], held[c], lookup[t]), UNCHANGED held,
         \A n \in Notifiers : work'[n].step = "filter" => work'[n] = work[n]
  PROVE  Drawn'
<1>1. /\ lookup[t].step = "store"
      /\ filter'[c].dirs = lookup[t].dirs /\ filter'[c].admin = lookup[t].admin
      /\ \A d \in Clients \ {c} : filter'[d] = filter[d]
  BY DEF Store, HistoryInv, TypeInv, TypeOK
<1>2. /\ lookup'[t].step = "none"
      /\ \A s \in (Clients \cup Notifiers) \ {t} : lookup'[s] = lookup[s]
  BY DEF Store, NoLookup, HistoryInv, TypeInv, TypeOK
<1>3. FiltersDrawn'
  BY <1>1 DEF Drawn, FiltersDrawn, LookupDrawn, SharedDrawn, DirsDrawn, FlagDrawn
<1>4. LookupsDrawn'
  <2>1. ASSUME NEW d \in Clients PROVE LookupDrawn(Owner[d], held[d], lookup'[d])
    BY <1>2 DEF Drawn, LookupsDrawn, LookupDrawn
  <2>2. ASSUME NEW n \in Notifiers, work'[n].step = "filter"
        PROVE  LookupDrawn(Owner[work'[n].client], held[work'[n].client], lookup'[n])
    BY <1>2, <2>2 DEF Drawn, LookupsDrawn, LookupDrawn
  <2> QED
    BY <2>1, <2>2 DEF LookupsDrawn
<1> QED
  BY <1>3, <1>4 DEF Drawn

\* A lookup goes on for a client.
LEMMA LookupDrawnOn ==
  ASSUME Drawn, HistoryInv, NEW t \in Clients \cup Notifiers,
         UNCHANGED <<filter, work, held>>,
         \A s \in (Clients \cup Notifiers) \ {t} : lookup'[s] = lookup[s],
         t \in Clients => LookupDrawn(Owner[t], held[t], lookup'[t]),
         t \in Notifiers /\ work[t].step = "filter" =>
           LookupDrawn(Owner[work[t].client], held[work[t].client], lookup'[t])
  PROVE  Drawn'
<1>1. FiltersDrawn'
  BY DEF Drawn, FiltersDrawn
<1>2. ASSUME NEW d \in Clients PROVE LookupDrawn(Owner[d], held[d], lookup'[d])
  BY DEF Drawn, LookupsDrawn
<1>3. ASSUME NEW n \in Notifiers, work[n].step = "filter"
      PROVE  LookupDrawn(Owner[work[n].client], held[work[n].client], lookup'[n])
  BY <1>3 DEF Drawn, LookupsDrawn
<1> QED
  BY <1>1, <1>2, <1>3 DEF Drawn, LookupsDrawn

LEMMA DrawnConnection ==
  ASSUME HistoryInv, Drawn, NEW c \in Clients,
         \/ Connection(c) \/ Connect(c) \/ Tick(c) \/ Deliver(c) \/ HangUp(c) \/ Leave(c)
  PROVE  Drawn'
<1>1. /\ DOMAIN lookup = Clients \cup Notifiers /\ DOMAIN held = Clients /\ c \notin Notifiers
      /\ Lookup.step = "dirs"
  BY SSEAssumption DEF HistoryInv, TypeInv, TypeOK, Lookup, NoLookup
<1>2. LookupDrawn(Owner[c], held[c], lookup[c])
  BY DEF Drawn, LookupsDrawn
<1>3. CASE LookupSteps(c, c)
  <2>1. phase[c] # "absent"
    BY <1>3 DEF LookupSteps, ReadDirs, ReadHome, ReadAdmin, HistoryInv, Attended
  <2>2. UNCHANGED <<filter, work, held>>
    BY <1>3 DEF LookupSteps, ReadDirs, ReadHome, ReadAdmin
  <2> QED
    BY <1>1, <1>2, <1>3, <2>1, <2>2, LookupStepsDrawn, LookupDrawnOn
<1>4. CASE Resolved(c)
  BY <1>2, <1>4, StoreDrawn DEF Resolved
<1>5. CASE Connect(c)
  <2>1. /\ phase[c] = "absent" /\ filter' = filter /\ work' = work
        /\ lookup'[c].step = "dirs" /\ \A t \in (Clients \cup Notifiers) \ {c} : lookup'[t] = lookup[t]
        /\ \A d \in Clients \ {c} : held'[d] = held[d]
    BY <1>1, <1>5 DEF Connect
  <2>2. filter[c] = NoFilter
    BY <2>1 DEF HistoryInv, Attended
  <2>3. \A n \in Notifiers : work[n].step = "filter" => work[n].client \in Clients \ {c}
    BY <2>1 DEF HistoryInv, Attended, TypeInv, BusyWithClient
  <2>4. FiltersDrawn'
    BY <2>1, <2>2 DEF Drawn, FiltersDrawn
  <2>5. ASSUME NEW d \in Clients PROVE LookupDrawn(Owner[d], held'[d], lookup'[d])
    BY <2>1 DEF Drawn, LookupsDrawn, LookupDrawn
  <2>6. ASSUME NEW n \in Notifiers, work[n].step = "filter"
        PROVE  LookupDrawn(Owner[work[n].client], held'[work[n].client], lookup'[n])
    BY <1>1, <2>1, <2>3, <2>6 DEF Drawn, LookupsDrawn
  <2> QED
    BY <2>1, <2>4, <2>5, <2>6 DEF Drawn, LookupsDrawn
<1>6. CASE Tick(c)
  <2>1. /\ UNCHANGED <<filter, work, held>> /\ lookup'[c].step = "dirs"
        /\ \A t \in (Clients \cup Notifiers) \ {c} : lookup'[t] = lookup[t]
    BY <1>1, <1>6 DEF Tick
  <2> QED
    BY <2>1, DrawnKept
<1>7. CASE Register(c) \/ Unregister(c) \/ Close(c) \/ Deliver(c) \/ HangUp(c) \/ Leave(c)
  <2>1. UNCHANGED <<filter, lookup, work, held>>
    BY <1>7 DEF Register, Unregister, Close, Deliver, HangUp, Leave
  <2> QED
    BY <2>1, DrawnKept
<1> QED
  BY <1>3, <1>4, <1>5, <1>6, <1>7 DEF Connection

LEMMA DrawnNotifier ==
  ASSUME HistoryInv, Drawn, NEW n \in Notifiers, Notifier(n)
  PROVE  Drawn'
<1> DEFINE c == work[n].client
<1>1. /\ DOMAIN lookup = Clients \cup Notifiers /\ DOMAIN work = Notifiers /\ n \notin Clients
      /\ Lookup.step = "dirs"
  BY SSEAssumption DEF HistoryInv, TypeInv, TypeOK, Lookup, NoLookup
<1>2. work[n].step = "filter" =>
        c \in Clients /\ phase[c] # "absent" /\ LookupDrawn(Owner[c], held[c], lookup[n])
  BY DEF HistoryInv, TypeInv, BusyWithClient, Attended, Drawn, LookupsDrawn
<1>3. CASE Collect(n) \/ Notify(n)
  <2>1. /\ UNCHANGED <<filter, lookup, held>>
        /\ work'[n].step = "next" /\ \A m \in Notifiers \ {n} : work'[m] = work[m]
    BY <1>1, <1>3 DEF Collect, Notify
  <2> QED
    BY <2>1, DrawnKept
<1>4. CASE NextClient(n)
  <2>1. /\ UNCHANGED <<filter, held>>
        /\ \A m \in Notifiers \ {n} : work'[m] = work[m]
        /\ \A t \in (Clients \cup Notifiers) \ {n} : lookup'[t] = lookup[t]
        /\ \/ work'[n].step = "none" /\ lookup'[n] = lookup[n]
           \/ work'[n].step = "filter" /\ lookup'[n].step = "dirs"
    BY <1>1, <1>4 DEF NextClient, AtRest
  <2> QED
    BY <2>1, DrawnKept
<1>5. CASE NotifyPanics(n)
  <2>1. /\ UNCHANGED <<filter, held>>
        /\ \A m \in Notifiers : work'[m].step = "none"
        /\ \A t \in Clients \cup Notifiers : lookup'[t].step = "none"
    BY <1>5 DEF NotifyPanics, NoLookup, AtRest
  <2> QED
    BY <2>1, DrawnKept
<1>6. CASE work[n].step = "filter" /\ LookupSteps(n, c)
  <2>1. UNCHANGED <<filter, work, held>>
    BY <1>6 DEF LookupSteps, ReadDirs, ReadHome, ReadAdmin
  <2> HIDE DEF c
  <2>2. /\ LookupDrawn(Owner[c], held[c], lookup'[n])
        /\ \A s \in (Clients \cup Notifiers) \ {n} : lookup'[s] = lookup[s]
    BY <1>2, <1>6, LookupStepsDrawn
  <2> QED
    BY <1>1, <2>1, <2>2, LookupDrawnOn DEF c
<1>7. CASE work[n].step = "filter" /\ FilterRefreshed(n)
  <2>1. /\ UNCHANGED held /\ Store(n, c)
        /\ work'[n].step = "send" /\ \A m \in Notifiers \ {n} : work'[m] = work[m]
    BY <1>1, <1>7 DEF FilterRefreshed
  <2> HIDE DEF c
  <2> QED
    BY <1>2, <1>7, <2>1, StoreDrawn
<1> QED
  BY <1>3, <1>4, <1>5, <1>6, <1>7 DEF Notifier

LEMMA CalledOnly ==
  ASSUME HistoryInv, NEW user \in Users, NEW ans \in Answers, RolesChange(user, ans)
  PROVE  \A m \in Notifiers : work'[m] = work[m] \/ (work'[m].step = "called" /\ work'[m].left = {})
<1>1. CASE \E n \in Notifiers : work[n] = AtRest /\ work' = [work EXCEPT ![n] = Called(user)]
  <2>1. Called(user).step = "called" /\ Called(user).left = {}
    BY DEF Called, AtRest
  <2>2. DOMAIN work = Notifiers
    BY DEF HistoryInv, TypeInv, TypeOK
  <2> QED
    BY <1>1, <2>1, <2>2
<1> QED
  BY <1>1 DEF RolesChange

LEMMA DrawnStep == HistoryInv /\ Drawn /\ [Next]_vars => Drawn'
<1> SUFFICES ASSUME HistoryInv, Drawn, [Next]_vars PROVE Drawn'
  OBVIOUS
<1>1. CASE \E b \in Broadcasters : \/ \E dir \in EventDirs : StartBroadcast(b, dir)
                                   \/ \E c \in Clients : SendTo(b, c)
  <2>1. UNCHANGED <<filter, lookup, work, held>>
    BY <1>1 DEF StartBroadcast, SendTo
  <2> QED
    BY <2>1, DrawnKept
<1>2. ASSUME NEW user \in Users, NEW ans \in Answers, RolesChange(user, ans) PROVE Drawn'
  <2>1. UNCHANGED <<filter, lookup>> /\ \A c \in Clients : held[c] \subseteq held'[c]
    BY <1>2 DEF RolesChange, HistoryInv, TypeInv, TypeOK
  <2>2. \A m \in Notifiers : work'[m] = work[m] \/ work'[m].step = "called"
    BY <1>2, CalledOnly
  <2> QED
    BY <2>1, <2>2, DrawnKept
<1>3. CASE UNCHANGED vars
  BY <1>3, DrawnKept DEF vars
<1> QED
  BY <1>1, <1>2, <1>3, DrawnConnection, DrawnNotifier DEF Next

LEMMA PlacedConnection ==
  ASSUME HistoryInv, Placed, NEW c \in Clients,
         \/ Connection(c) \/ Connect(c) \/ Tick(c) \/ Deliver(c) \/ HangUp(c) \/ Leave(c)
  PROVE  Placed'
<1>1. /\ DOMAIN lookup = Clients \cup Notifiers /\ DOMAIN held = Clients /\ phase \in [Clients -> Phases]
      /\ NoLookup.step = "none"
  BY DEF HistoryInv, TypeInv, TypeOK, NoLookup
<1>2. work' = work /\ \A d \in Clients \ {c} : phase'[d] = phase[d] /\ lookup'[d].step = lookup[d].step /\ held'[d] = held[d]
  BY <1>1 DEF Connection, LookupSteps, ReadDirs, ReadHome, ReadAdmin, Resolved, Store, Register, Unregister, Close,
       Connect, Tick, Deliver, HangUp, Leave
<1>3. CASE LookupSteps(c, c)
  BY <1>1, <1>2, <1>3 DEF LookupSteps, ReadDirs, ReadHome, ReadAdmin, Placed, Joined
<1>4. CASE Resolved(c)
  <2>1. lookup[c].step = "store" /\ lookup'[c].step = "none" /\ held' = held
    BY <1>1, <1>4 DEF Resolved, Store
  <2>2. /\ phase[c] \in {"resolving", "refreshing"}
        /\ phase'[c] = IF phase[c] = "resolving" THEN "joining" ELSE "open"
    BY <1>1, <1>4, <2>1 DEF Resolved, Placed
  <2>3. Joined \subseteq Joined'
    BY <1>2, <2>2 DEF Joined
  <2> QED
    BY <1>2, <2>1, <2>2, <2>3 DEF Placed
<1>5. CASE Connect(c) \/ Tick(c)
  <2>1. /\ phase'[c] \in {"resolving", "refreshing"} /\ phase[c] \in {"absent", "open"}
        /\ phase[c] = "open" => phase'[c] = "refreshing"
    BY <1>1, <1>5 DEF Connect, Tick
  <2>2. Joined \subseteq Joined'
    BY <1>2, <2>1 DEF Joined
  <2> QED
    BY <1>2, <2>1, <2>2 DEF Placed
<1>6. CASE Register(c) \/ Unregister(c) \/ Close(c) \/ Deliver(c) \/ HangUp(c) \/ Leave(c)
  <2>1. /\ held' = held /\ lookup' = lookup
        /\ \/ phase' = phase
           \/ /\ phase[c] \in {"joining", "open", "leaving", "removed"}
              /\ phase'[c] \in {"open", "leaving", "removed", "closed"}
    BY <1>1, <1>6 DEF Register, Unregister, Close, Deliver, HangUp, Leave
  <2>2. Joined \subseteq Joined'
    BY <1>2, <2>1 DEF Joined
  <2> QED
    BY <1>2, <2>1, <2>2 DEF Placed
<1> QED
  BY <1>3, <1>4, <1>5, <1>6 DEF Connection

LEMMA PlacedNotifier ==
  ASSUME HistoryInv, Placed, NEW n \in Notifiers, Notifier(n)
  PROVE  Placed'
<1>1. /\ DOMAIN lookup = Clients \cup Notifiers /\ DOMAIN work = Notifiers /\ n \notin Clients
      /\ phase \in [Clients -> Phases] /\ held' = held
  BY SSEAssumption DEF HistoryInv, TypeInv, TypeOK, Notifier, Collect, NextClient, Notify, NotifyPanics,
     LookupSteps, ReadDirs, ReadHome, ReadAdmin, FilterRefreshed
<1>2. CASE NotifyPanics(n)
  BY <1>1, <1>2 DEF NotifyPanics, Placed, NoLookup, AtRest
<1>3. CASE ~NotifyPanics(n)
  <2>1. phase' = phase /\ Joined' = Joined
    BY <1>3 DEF Notifier, Collect, NextClient, Notify, LookupSteps, ReadDirs, ReadHome, ReadAdmin, FilterRefreshed, Joined
  <2>2. \A c \in Clients : lookup'[c] = lookup[c]
    BY <1>1, <1>3 DEF Notifier, Collect, NextClient, Notify, LookupSteps, ReadDirs, ReadHome, ReadAdmin, FilterRefreshed, Store
  <2>3. \A m \in Notifiers \ {n} : work'[m] = work[m]
    BY <1>1, <1>3 DEF Notifier, Collect, NextClient, Notify, LookupSteps, ReadDirs, ReadHome, ReadAdmin, FilterRefreshed
  <2>4. /\ work'[n].left \subseteq Joined
        /\ work'[n].step \in {"filter", "send"} => work'[n].client \in Joined
    <3>1. CASE Collect(n)
      <4>1. Registered \subseteq Joined
        BY DEF Registered, Joined
      <4>2. work'[n].step = "next" /\ work'[n].left \subseteq Registered
        BY <1>1, <3>1 DEF Collect
      <4> QED
        BY <4>1, <4>2
    <3>2. CASE NextClient(n)
      <4>1. \/ work'[n].step = "none" /\ work'[n].left = {}
            \/ \E c \in work[n].left : work'[n].client = c /\ work'[n].left = work[n].left \ {c}
        BY <1>1, <3>2 DEF NextClient, AtRest
      <4> QED
        BY <4>1 DEF Placed
    <3>3. CASE Notify(n)
      <4>1. work'[n].step = "next" /\ work'[n].left = work[n].left
        BY <1>1, <3>3 DEF Notify
      <4> QED
        BY <4>1 DEF Placed
    <3>4. CASE work[n].step = "filter" /\ (LookupSteps(n, work[n].client) \/ FilterRefreshed(n))
      <4>1. work'[n].client = work[n].client /\ work'[n].left = work[n].left
        BY <1>1, <3>4 DEF LookupSteps, ReadDirs, ReadHome, ReadAdmin, FilterRefreshed
      <4> QED
        BY <3>4, <4>1 DEF Placed
    <3> QED
      BY <1>3, <3>1, <3>2, <3>3, <3>4 DEF Notifier
  <2> QED
    BY <1>1, <2>1, <2>2, <2>3, <2>4 DEF Placed
<1> QED
  BY <1>2, <1>3

LEMMA PlacedStep == HistoryInv /\ Placed /\ [Next]_vars => Placed'
<1> SUFFICES ASSUME HistoryInv, Placed, [Next]_vars PROVE Placed'
  OBVIOUS
<1>1. CASE \/ UNCHANGED vars
           \/ \E b \in Broadcasters : \/ \E dir \in EventDirs : StartBroadcast(b, dir)
                                      \/ \E c \in Clients : SendTo(b, c)
  <2>1. UNCHANGED <<phase, lookup, work, held>>
    BY <1>1 DEF StartBroadcast, SendTo, vars
  <2> QED
    BY <2>1 DEF Placed, Joined
<1>2. ASSUME NEW user \in Users, NEW ans \in Answers, RolesChange(user, ans) PROVE Placed'
  <2>1. UNCHANGED <<phase, lookup>> /\ \A c \in Clients : phase[c] = "absent" => held'[c] = held[c]
    BY <1>2 DEF RolesChange
  <2>2. \A m \in Notifiers : work'[m] = work[m] \/ (work'[m].step = "called" /\ work'[m].left = {})
    BY <1>2, CalledOnly
  <2> QED
    BY <2>1, <2>2 DEF Placed, Joined
<1> QED
  BY <1>1, <1>2, PlacedConnection, PlacedNotifier DEF Next

LEMMA StreamInit == Init => StreamInv
<1> SUFFICES ASSUME Init PROVE StreamInv
  OBVIOUS
<1>1. SafeInv
  BY TypeInit DEF Init, SafeInv, Quiet
<1>2. Drawn
  BY DEF Init, Drawn, FiltersDrawn, LookupsDrawn, LookupDrawn, NoLookup, AtRest
<1>3. Placed
  BY DEF Init, Placed, NoLookup, AtRest
<1> QED
  BY <1>1, <1>2, <1>3, HistoryInit DEF StreamInv

LEMMA StreamStep == StreamInv /\ [Next]_vars => StreamInv'
BY SafeStep, HistoryStep, DrawnStep, PlacedStep DEF StreamInv

\* What the user may read as owner of the home under every answer of a connection, or
\* by the roles of every answer, its filter lets through, be the shared directories,
\* the home and the flag from three answers.
LEMMA DrawnReads ==
  ASSUME NEW user, NEW answers, NEW found, NEW dir, found # NoFilter,
         DirsDrawn(user, answers, found), FlagDrawn(answers, found),
         \/ \A ans \in answers : OwnHome(user, ans, dir)
         \/ \A ans \in answers : RolesAllow(user, ans, dir)
  PROVE  CanRead(found, dir)
<1>1. PICK first \in answers, third \in answers :
        found.dirs = SharedDirs(user, first) \cup HomeDirs(user, third)
  BY DEF DirsDrawn
<1>2. PICK second \in answers : found.admin = IsAdmin(second)
  BY DEF FlagDrawn
<1>3. CASE \A ans \in answers : OwnHome(user, ans, dir)
  BY <1>1, <1>3 DEF CanRead, OwnHome, HomeDirs
<1>4. CASE \E d \in Configured : IsPrefix(d, dir) /\
              (Anyone \in ReadGrants[d] \/ user \in ReadGrants[d]
               \/ (first.roles # NoAnswer /\ first.roles \cap ReadGrants[d] # {}))
  <2>1. PICK d \in Configured : IsPrefix(d, dir) /\
              (Anyone \in ReadGrants[d] \/ user \in ReadGrants[d]
               \/ (first.roles # NoAnswer /\ first.roles \cap ReadGrants[d] # {}))
    BY <1>4
  <2>2. d \in SharedDirs(user, first)
    BY <2>1 DEF SharedDirs, RolesIn
  <2> QED
    BY <1>1, <2>1, <2>2 DEF CanRead
<1>5. CASE /\ \E role \in AdminRoles : first.roles # NoAnswer /\ role \in first.roles
           /\ \E d \in Configured : IsPrefix(d, dir)
  <2>1. Configured \subseteq SharedDirs(user, first)
    BY <1>5 DEF SharedDirs, IsAdmin, RolesIn
  <2> QED
    BY <1>1, <1>5, <2>1 DEF CanRead
<1>6. CASE (\A ans \in answers : RolesAllow(user, ans, dir)) /\ ~\E d \in Configured : IsPrefix(d, dir)
  <2>1. \E role \in AdminRoles : second.roles # NoAnswer /\ role \in second.roles
    BY <1>6 DEF RolesAllow
  <2>2. found.admin
    BY <1>2, <2>1 DEF IsAdmin, RolesIn
  <2> QED
    BY <2>2 DEF CanRead
<1> QED
  BY <1>3, <1>4, <1>5, <1>6 DEF RolesAllow

\* The variables of StreamPromise, as SSEHub gives them values.
Streams == [c \in Clients |-> StreamView(c)]
Onces == [c \in Clients |-> ReadOnce(c)]
Alwayses == [c \in Clients |-> ReadAlways(c)]

LEMMA ViewOf ==
  ASSUME NEW c \in Clients
  PROVE  /\ phase[c] \in {"absent", "resolving", "joining"} => StreamView(c) = "before"
         /\ phase[c] \in {"open", "refreshing", "leaving"} => StreamView(c) = "subscribed"
         /\ phase[c] = "removed" => StreamView(c) = "ended"
         /\ phase[c] = "closed" => StreamView(c) = "closed"
BY DEF StreamView

LEMMA SubscribedAre == TypeOK => Promise!Subscribed = Registered
<1> SUFFICES ASSUME TypeOK, NEW c \in Clients
             PROVE  StreamView(c) = "subscribed" <=> phase[c] \in {"open", "refreshing", "leaving"}
  BY DEF Promise!Subscribed, Registered
<1>1. phase[c] \in Phases
  BY DEF TypeOK
<1> QED
  BY <1>1, ViewOf DEF Phases

\* What is seen of the connections when only one moves on, and what could be read
\* while no answer is added.
LEMMA OneView ==
  ASSUME NEW c \in Clients, \A d \in Clients \ {c} : phase'[d] = phase[d]
  PROVE  Streams' = [Streams EXCEPT ![c] = StreamView(c)']
<1>1. \A d \in Clients \ {c} : StreamView(d)' = StreamView(d)
  BY DEF StreamView
<1> QED
  BY <1>1 DEF Streams

LEMMA ViewsKept ==
  ASSUME \A c \in Clients : phase'[c] = phase[c]
  PROVE  Streams' = Streams
<1>1. \A c \in Clients : StreamView(c)' = StreamView(c)
  BY DEF StreamView
<1> QED
  BY <1>1 DEF Streams

LEMMA ReadsKept ==
  ASSUME held' = held
  PROVE  Onces' = Onces /\ Alwayses' = Alwayses
BY DEF Onces, Alwayses, ReadOnce, ReadAlways

\* More answers: something more was readable once, something less always.
LEMMA ReadsGrow ==
  ASSUME \A c \in Clients : held[c] \subseteq held'[c]
  PROVE  \A c \in Clients : Onces[c] \subseteq Onces'[c] /\ Alwayses'[c] \subseteq Alwayses[c]
BY DEF Onces, Alwayses, ReadOnce, ReadAlways

PromiseStep == [Promise!Next]_<<Streams, sending, queue, Onces, Alwayses>>

LEMMA PromisedConnection ==
  ASSUME StreamInv, NEW c \in Clients,
         \/ Connection(c) \/ Connect(c) \/ Tick(c) \/ Deliver(c) \/ HangUp(c) \/ Leave(c)
  PROVE  PromiseStep
<1>1. TypeOK /\ DOMAIN phase = Clients /\ phase[c] \in Phases
  BY DEF StreamInv, SafeInv, TypeInv, TypeOK
<1>2. Streams[c] = StreamView(c)
  BY DEF Streams
<1>3. CASE LookupSteps(c, c) \/ HangUp(c)
  BY <1>3, ViewsKept, ReadsKept DEF LookupSteps, ReadDirs, ReadHome, ReadAdmin, HangUp, PromiseStep
<1>4. CASE Connect(c)
  <2>1. UNCHANGED <<sending, queue>> /\ \A d \in Clients \ {c} : phase'[d] = phase[d]
    BY <1>1, <1>4 DEF Connect
  <2>2. StreamView(c)' = StreamView(c)
    BY <1>1, <1>4, ViewOf DEF Connect, StreamView
  <2>3. Streams' = Streams
    BY <1>2, <2>1, <2>2, OneView DEF Streams
  <2>4. \A d \in Clients : held[d] \subseteq held'[d]
    BY <1>1, <1>4 DEF Connect, StreamInv, Placed, TypeOK
  <2>5. Promise!Change
    BY <2>1, <2>3, <2>4, ReadsGrow DEF Promise!Change, Streams, Onces, Alwayses
  <2> QED
    BY <2>5 DEF Promise!Next, PromiseStep
<1>5. CASE Resolved(c) \/ Tick(c) \/ Leave(c)
  <2>1. UNCHANGED <<sending, queue, held>> /\ \A d \in Clients \ {c} : phase'[d] = phase[d]
    BY <1>1, <1>5 DEF Resolved, Tick, Leave
  <2>2. phase[c] \in {"resolving", "open", "refreshing"}
    BY <1>5 DEF Resolved, Store, Tick, Leave, StreamInv, Placed
  <2>3. \/ phase'[c] = "joining" /\ phase[c] = "resolving"
        \/ phase'[c] \in {"open", "refreshing", "leaving"} /\ phase[c] \in {"open", "refreshing"}
    BY <1>1, <1>5, <2>2 DEF Resolved, Store, Tick, Leave, StreamInv, Placed
  <2>4. StreamView(c)' = StreamView(c)
    BY <2>3 DEF StreamView
  <2>5. Streams' = Streams
    BY <1>2, <2>1, <2>4, OneView DEF Streams
  <2> QED
    BY <2>1, <2>5, ReadsKept DEF PromiseStep
<1>6. CASE Register(c) \/ Unregister(c) \/ Close(c)
  <2>1. UNCHANGED <<sending, queue, held>> /\ \A d \in Clients \ {c} : phase'[d] = phase[d]
    BY <1>1, <1>6 DEF Register, Unregister, Close
  <2>2. Streams' = [Streams EXCEPT ![c] = StreamView(c)'] /\ Onces' = Onces /\ Alwayses' = Alwayses
    BY <2>1, OneView, ReadsKept
  <2>3. CASE Register(c)
    <3>1. StreamView(c) = "before" /\ StreamView(c)' = "subscribed"
      BY <1>1, <2>3 DEF Register, StreamView
    <3>2. Promise!Subscribe(c)
      BY <1>2, <2>1, <2>2, <3>1 DEF Promise!Subscribe, Promise!Goes, Streams, Onces, Alwayses
    <3> QED
      BY <3>2 DEF Promise!Next, PromiseStep
  <2>4. CASE Unregister(c)
    <3>1. StreamView(c) = "subscribed" /\ StreamView(c)' = "ended"
      BY <1>1, <2>4 DEF Unregister, StreamView
    <3>2. \A b \in Broadcasters : c \notin sending[b].left
      BY <2>4 DEF Unregister, MayWriteLock
    <3>3. Promise!End(c)
      BY <1>2, <2>1, <2>2, <3>1, <3>2 DEF Promise!End, Promise!Goes, Streams, Onces, Alwayses
    <3> QED
      BY <3>3 DEF Promise!Next, PromiseStep
  <2>5. CASE Close(c)
    <3>1. StreamView(c) = "ended" /\ StreamView(c)' = "closed"
      BY <1>1, <2>5 DEF Close, StreamView
    <3>2. Promise!Close(c)
      BY <1>2, <2>1, <2>2, <3>1 DEF Promise!Close, Promise!Goes, Streams, Onces, Alwayses
    <3> QED
      BY <3>2 DEF Promise!Next, PromiseStep
  <2> QED
    BY <1>6, <2>3, <2>4, <2>5
<1>7. CASE Deliver(c)
  <2>1. Streams' = Streams /\ Onces' = Onces /\ Alwayses' = Alwayses
    BY <1>7, ViewsKept, ReadsKept DEF Deliver
  <2>2. StreamView(c) = "subscribed"
    BY <1>7 DEF Deliver, StreamView
  <2>3. Promise!Send(c)
    BY <1>2, <1>7, <2>1, <2>2 DEF Deliver, Promise!Send, Streams, Onces, Alwayses
  <2> QED
    BY <2>3 DEF Promise!Next, PromiseStep
<1> QED
  BY <1>3, <1>4, <1>5, <1>6, <1>7 DEF Connection

\* An offer that the filter decides is one that the promise allows.
LEMMA OfferAllowed ==
  ASSUME StreamInv, NEW c \in Registered, NEW dir \in EventDirs \cup {Everybody}
  PROVE  /\ CanReceive(c, dir) => dir \in {Everybody} \cup ReadOnce(c)
         /\ ~CanReceive(c, dir) => dir \notin {Everybody} \cup ReadAlways(c)
<1>1. c \in Clients /\ phase[c] \in {"joining", "open", "refreshing", "leaving"}
  BY DEF Registered
<1>2. filter[c] \in Filters /\ filter[c] # NoFilter
  BY <1>1, SSEAssumption DEF StreamInv, SafeInv, Filters
<1>3. /\ Covered(Owner[c], held[c], filter[c])
      /\ DirsDrawn(Owner[c], held[c], filter[c]) /\ FlagDrawn(held[c], filter[c])
  BY <1>1, <1>2 DEF StreamInv, HistoryInv, FiltersCovered, Drawn, FiltersDrawn
<1>4. CASE dir # Everybody /\ CanReceive(c, dir)
  BY <1>1, <1>3, <1>4, CoveredMayRead DEF CanReceive, ReadOnce, About
<1>5. CASE dir # Everybody /\ ~CanReceive(c, dir)
  BY <1>1, <1>2, <1>3, <1>5, DrawnReads DEF CanReceive, ReadAlways
<1>6. CASE dir = Everybody
  BY <1>6 DEF CanReceive
<1> QED
  BY <1>4, <1>5, <1>6

LEMMA PromisedBroadcast ==
  ASSUME StreamInv, NEW b \in Broadcasters,
         \/ \E dir \in EventDirs : StartBroadcast(b, dir)
         \/ \E c \in Clients : SendTo(b, c)
  PROVE  PromiseStep
<1>1. TypeOK
  BY DEF StreamInv, SafeInv, TypeInv
<1>2. Streams' = Streams /\ Onces' = Onces /\ Alwayses' = Alwayses
  BY ViewsKept, ReadsKept DEF StartBroadcast, SendTo
<1>3. ASSUME NEW dir \in EventDirs, StartBroadcast(b, dir) PROVE PromiseStep
  <2>1. Promise!Announce(b, dir)
    BY <1>1, <1>2, <1>3, SubscribedAre
    DEF StartBroadcast, Promise!Announce, Streams, Onces, Alwayses
  <2> QED
    BY <2>1 DEF Promise!Next, PromiseStep
<1>4. ASSUME NEW c \in Clients, SendTo(b, c) PROVE PromiseStep
  <2> DEFINE dir == sending[b].dir
  <2>1. c \in Registered /\ dir \in EventDirs \cup {Everybody}
    BY <1>1, <1>4 DEF SendTo, StreamInv, SafeInv, TypeOK
  <2>2. CASE CanReceive(c, dir)
    <3>1. queue' = [queue EXCEPT ![c] = Promise!With(@, dir)]
      BY <1>4, <2>2 DEF SendTo, Offer, Promise!With
    <3>2. dir \in {Everybody} \cup ReadOnce(c)
      BY <2>1, <2>2, OfferAllowed
    <3>3. Promise!Offer(b, c)
      BY <1>2, <1>4, <3>1, <3>2 DEF SendTo, Promise!Offer, Streams, Onces, Alwayses
    <3> QED
      BY <3>3 DEF Promise!Next, PromiseStep
  <2>3. CASE ~CanReceive(c, dir)
    <3>1. queue' = queue
      BY <1>1, <1>4, <2>3 DEF SendTo, TypeOK
    <3>2. dir \notin {Everybody} \cup ReadAlways(c)
      BY <2>1, <2>3, OfferAllowed
    <3>3. Promise!Offer(b, c)
      BY <1>2, <1>4, <3>1, <3>2 DEF SendTo, Promise!Offer, Streams, Onces, Alwayses
    <3> QED
      BY <3>3 DEF Promise!Next, PromiseStep
  <2> QED
    BY <2>2, <2>3
<1> QED
  BY <1>3, <1>4

LEMMA PromisedNotifier ==
  ASSUME StreamInv, NEW n \in Notifiers, Notifier(n)
  PROVE  PromiseStep
<1>1. TypeOK
  BY DEF StreamInv, SafeInv, TypeInv
<1>2. CASE Collect(n) \/ NextClient(n) \/ LookupSteps(n, work[n].client) \/ FilterRefreshed(n)
  <2>1. UNCHANGED <<phase, sending, queue, held>>
    BY <1>2 DEF Collect, NextClient, LookupSteps, ReadDirs, ReadHome, ReadAdmin, FilterRefreshed
  <2> QED
    BY <2>1, ViewsKept, ReadsKept DEF PromiseStep
<1>3. CASE Notify(n)
  <2> DEFINE c == work[n].client
  <2>1. c \in Clients /\ phase[c] \in {"open", "refreshing", "leaving", "removed"}
    BY <1>3 DEF Notify, StreamInv, Placed, Joined
  <2>2. Streams' = Streams /\ Onces' = Onces /\ Alwayses' = Alwayses
    BY <1>3, ViewsKept, ReadsKept DEF Notify
  <2>3. StreamView(c) \in {"subscribed", "ended"}
    BY <2>1, ViewOf
  <2>4. Promise!Tell(c)
    BY <1>3, <2>1, <2>2, <2>3 DEF Notify, Offer, Promise!Tell, Promise!With, Streams, Onces, Alwayses
  <2> QED
    BY <2>1, <2>4 DEF Promise!Next, PromiseStep
<1>4. CASE NotifyPanics(n)
  <2>1. Onces' = Onces /\ Alwayses' = Alwayses
    BY <1>4, ReadsKept DEF NotifyPanics
  <2>2. ASSUME NEW c \in Clients
        PROVE  StreamView(c)' \in {StreamView(c), "closed"} /\ StreamView(c)' # "subscribed"
    <3>1. (phase'[c] = "absent" /\ phase[c] = "absent") \/ phase'[c] = "closed"
      BY <1>4 DEF NotifyPanics
    <3> QED
      BY <3>1 DEF StreamView
  <2>3. Promise!Die
    BY <1>4, <2>1, <2>2 DEF NotifyPanics, Quiet, Promise!Die, Streams, Onces, Alwayses
  <2> QED
    BY <2>3 DEF Promise!Next, PromiseStep
<1> QED
  BY <1>2, <1>3, <1>4 DEF Notifier

LEMMA PromisedStep == StreamInv /\ [Next]_vars => PromiseStep
<1> SUFFICES ASSUME StreamInv, [Next]_vars PROVE PromiseStep
  OBVIOUS
<1>1. ASSUME NEW user \in Users, NEW ans \in Answers, RolesChange(user, ans) PROVE PromiseStep
  <2>1. Streams' = Streams /\ UNCHANGED <<sending, queue>>
    BY <1>1, ViewsKept DEF RolesChange
  <2>2. \A c \in Clients : held[c] \subseteq held'[c]
    BY <1>1 DEF RolesChange
  <2>3. Promise!Change
    BY <2>1, <2>2, ReadsGrow DEF Promise!Change, Streams, Onces, Alwayses
  <2> QED
    BY <2>3 DEF Promise!Next, PromiseStep
<1>2. CASE UNCHANGED vars
  BY <1>2, ViewsKept, ReadsKept DEF vars, PromiseStep
<1> QED
  BY <1>1, <1>2, PromisedConnection, PromisedBroadcast, PromisedNotifier DEF Next

\* The event stream implements StreamPromise, for any number of connections, notifiers
\* and broadcasts and any rules: a broadcast reaches each client that was registered when
\* it began, exactly once and before the client can go; what its user could read
\* throughout is not withheld by a stale or mixed snapshot, what it never could is.
THEOREM SSEStreamPromised == Spec => StreamPromised
<1>1. Init => Promise!Init
  <2> SUFFICES ASSUME Init PROVE Promise!Init
    OBVIOUS
  <2>1. \A c \in Clients : StreamView(c) = "before"
    BY DEF Init, StreamView
  <2>2. \A c \in Clients : ReadOnce(c) = {} /\ ReadAlways(c) = EventDirs \ {Everybody}
    BY DEF Init, ReadOnce, ReadAlways, About
  <2> QED
    BY <2>1, <2>2 DEF Init, Quiet, Promise!Init
<1>2. StreamInv /\ [Next]_vars =>
        /\ StreamInv'
        /\ [Promise!Next]_<<[c \in Clients |-> StreamView(c)], sending, queue,
                            [c \in Clients |-> ReadOnce(c)], [c \in Clients |-> ReadAlways(c)]>>
  BY StreamStep, PromisedStep DEF PromiseStep, Streams, Onces, Alwayses
<1> QED
  BY <1>1, <1>2, StreamInit, PTL DEF Spec, StreamPromised, Promise!Spec

-----------------------------------------------------------------------------
(* What FilterConverges rests on *)

\* The task t is in a refreshFilter of client c.
Serves(t, c) == t = c \/ (t \in Notifiers /\ work[t].step = "filter" /\ work[t].client = c)

\* What has been found so far is what would be found now.
UpToDate(t, c) ==
  /\ lookup[t].step = "home" => lookup[t].dirs = SharedDirs(Owner[c], answer[Owner[c]])
  /\ lookup[t].step \in {"admin", "store"} => lookup[t].dirs = AccessibleDirs(Owner[c], answer[Owner[c]])
  /\ lookup[t].step = "store" => lookup[t].admin = IsAdmin(answer[Owner[c]])

\* No lookup for c that began under an older answer is still to be stored.
Fresh(c) == \A t \in Clients \cup Notifiers : Serves(t, c) => UpToDate(t, c)

\* The filter is the one the present answer gives, and will not be overwritten by an
\* older one.
Settled(c) ==
  /\ filter[c] = [dirs |-> AccessibleDirs(Owner[c], answer[Owner[c]]), admin |-> IsAdmin(answer[Owner[c]])]
  /\ Fresh(c)

\* No stale lookup is begun, and if the filter changes it becomes the present one.
StaysFresh(c) == Fresh(c)' /\ (filter'[c] = filter[c] \/ Settled(c)')

LEMMA ServesOne ==
  ASSUME NEW c \in Clients, NEW d \in Clients, NEW t, Serves(t, c), Serves(t, d)
  PROVE  c = d
BY SSEAssumption DEF Serves

LEMMA LookupStepsFresh ==
  ASSUME TypeOK, NEW c \in Clients, Fresh(c), NEW d \in Clients, NEW t \in Clients \cup Notifiers,
         Serves(t, d), LookupSteps(t, d), work' = work, answer' = answer
  PROVE  StaysFresh(c)
<1>1. /\ filter' = filter /\ \A u \in Clients \cup Notifiers : u # t => lookup'[u] = lookup[u]
      /\ \A u : Serves(u, c)' <=> Serves(u, c)
  BY DEF LookupSteps, ReadDirs, ReadHome, ReadAdmin, TypeOK, Serves
<1>2. ASSUME Serves(t, c) PROVE UpToDate(t, c)'
  <2>1. c = d
    BY <1>2, ServesOne
  <2>2. UpToDate(t, c)
    BY <1>2 DEF Fresh
  <2>3. CASE ReadDirs(t, d)
    BY <2>1, <2>3 DEF ReadDirs, UpToDate, TypeOK
  <2>4. CASE ReadAdmin(t, d)
    BY <2>1, <2>2, <2>4 DEF ReadAdmin, UpToDate, TypeOK
  <2>5. CASE ReadHome(t, d)
    BY <2>1, <2>2, <2>5 DEF ReadHome, UpToDate, TypeOK, AccessibleDirs
  <2> QED
    BY <2>3, <2>4, <2>5 DEF LookupSteps
<1>3. ASSUME NEW u \in Clients \cup Notifiers, u # t, Serves(u, c) PROVE UpToDate(u, c)'
  BY <1>1, <1>3 DEF Fresh, UpToDate
<1> QED
  BY <1>1, <1>2, <1>3 DEF StaysFresh, Fresh

LEMMA StoreFresh ==
  ASSUME TypeOK, NEW c \in Clients, Fresh(c), NEW d \in Clients, NEW t \in Clients \cup Notifiers,
         Serves(t, d), Store(t, d), answer' = answer,
         \A n \in Notifiers : n # t => work'[n] = work[n]
  PROVE  StaysFresh(c)
<1>1. /\ filter' = [filter EXCEPT ![d] = [dirs |-> lookup[t].dirs, admin |-> lookup[t].admin]]
      /\ lookup[t].step = "store" /\ lookup'[t].step = "none"
      /\ \A u \in Clients \cup Notifiers : u # t => lookup'[u] = lookup[u]
  BY DEF Store, NoLookup, TypeOK
<1>2. filter'[c] = filter[c] \/
        filter'[c] = [dirs |-> AccessibleDirs(Owner[c], answer[Owner[c]]), admin |-> IsAdmin(answer[Owner[c]])]
  <2>1. CASE c = d
    <3>1. UpToDate(t, c)
      BY <2>1 DEF Fresh
    <3> QED
      BY <1>1, <2>1, <3>1 DEF UpToDate, TypeOK
  <2>2. CASE c # d
    BY <1>1, <2>2
  <2> QED
    BY <2>1, <2>2
<1>3. UpToDate(t, c)'
  BY <1>1 DEF UpToDate
<1>4. ASSUME NEW u \in Clients \cup Notifiers, u # t, Serves(u, c)' PROVE UpToDate(u, c)'
  <2>1. Serves(u, c)
    BY <1>4 DEF Serves
  <2> QED
    BY <1>1, <1>4, <2>1 DEF Fresh, UpToDate
<1> QED
  BY <1>2, <1>3, <1>4 DEF StaysFresh, Settled, Fresh

\* Nothing is stored, and whoever is looking for c was or has yet to begin.
LEMMA FreshKept ==
  ASSUME NEW c \in Clients, Fresh(c), filter' = filter, answer' = answer,
         \A t \in Clients \cup Notifiers : Serves(t, c)' =>
           \/ lookup'[t].step \in {"none", "dirs"}
           \/ Serves(t, c) /\ lookup'[t] = lookup[t]
  PROVE  StaysFresh(c)
<1>1. ASSUME NEW t \in Clients \cup Notifiers, Serves(t, c)' PROVE UpToDate(t, c)'
  BY <1>1 DEF Fresh, UpToDate
<1> QED
  BY <1>1 DEF StaysFresh, Fresh

LEMMA FreshStep ==
  ASSUME TypeInv, [Next]_vars, NEW c \in Clients, Fresh(c), answer' = answer
  PROVE  StaysFresh(c)
<1> USE DEF TypeInv
<1>1. ASSUME NEW d \in Clients, Connection(d) PROVE StaysFresh(c)
  <2>1. Serves(d, d)
    BY DEF Serves
  <2>2. CASE LookupSteps(d, d)
    BY <2>1, <2>2, LookupStepsFresh DEF LookupSteps, ReadDirs, ReadHome, ReadAdmin
  <2>3. CASE Resolved(d)
    BY <2>1, <2>3, StoreFresh DEF Resolved
  <2>4. CASE Register(d) \/ Unregister(d) \/ Close(d)
    BY <2>4, FreshKept DEF Register, Unregister, Close, Serves
  <2> QED
    BY <1>1, <2>2, <2>3, <2>4 DEF Connection
<1>2. ASSUME NEW d \in Clients, Connect(d) \/ Tick(d) \/ Deliver(d) \/ HangUp(d) \/ Leave(d)
      PROVE  StaysFresh(c)
  <2>1. CASE Connect(d) \/ Tick(d)
    <3>1. /\ filter' = filter /\ work' = work
          /\ \A t \in Clients \cup Notifiers : lookup'[t] = lookup[t] \/ lookup'[t].step = "dirs"
      BY <2>1 DEF Connect, Tick, Lookup, NoLookup, TypeOK
    <3> QED
      BY <3>1, FreshKept DEF Serves
  <2>2. CASE Deliver(d) \/ HangUp(d) \/ Leave(d)
    BY <2>2, FreshKept DEF Deliver, HangUp, Leave, Serves
  <2> QED
    BY <1>2, <2>1, <2>2
<1>3. CASE \/ \E b \in Broadcasters, dir \in EventDirs : StartBroadcast(b, dir)
           \/ \E b \in Broadcasters, d \in Clients : SendTo(b, d)
  BY <1>3, FreshKept DEF StartBroadcast, SendTo, Serves
<1>4. ASSUME NEW n \in Notifiers, Notifier(n) PROVE StaysFresh(c)
  <2>1. CASE Collect(n) \/ Notify(n)
    <3>1. /\ filter' = filter /\ lookup' = lookup
          /\ \A m \in Notifiers : work'[m] = work[m] \/ work'[m].step # "filter"
      BY <2>1 DEF Collect, Notify, TypeOK
    <3> QED
      BY <3>1, FreshKept DEF Serves
  <2>2. CASE NextClient(n)
    <3>1. filter' = filter /\ \A m \in Notifiers : m # n => work'[m] = work[m]
      BY <2>2 DEF NextClient, TypeOK
    <3>2. /\ \A t \in Clients \cup Notifiers : t # n => lookup'[t] = lookup[t]
          /\ work'[n].step = "filter" => lookup'[n].step = "dirs"
      BY <2>2 DEF NextClient, TypeOK, Lookup, NoLookup, AtRest
    <3> QED
      BY <3>1, <3>2, SSEAssumption, FreshKept DEF Serves
  <2>3. CASE work[n].step = "filter" /\ LookupSteps(n, work[n].client)
    <3>1. work[n].client \in Clients /\ Serves(n, work[n].client) /\ work' = work
      BY <2>3 DEF BusyWithClient, Serves, LookupSteps, ReadDirs, ReadHome, ReadAdmin
    <3> QED
      BY <2>3, <3>1, LookupStepsFresh
  <2>4. CASE work[n].step = "filter" /\ FilterRefreshed(n)
    <3>1. work[n].client \in Clients /\ Serves(n, work[n].client)
      BY <2>4 DEF BusyWithClient, Serves
    <3>2. Store(n, work[n].client) /\ \A m \in Notifiers : m # n => work'[m] = work[m]
      BY <2>4 DEF FilterRefreshed, TypeOK
    <3> QED
      BY <3>1, <3>2, StoreFresh
  <2>5. CASE NotifyPanics(n)
    BY <2>5, FreshKept DEF NotifyPanics, NoLookup
  <2> QED
    BY <1>4, <2>1, <2>2, <2>3, <2>4, <2>5 DEF Notifier
<1>5. ASSUME NEW user \in Users, NEW ans \in Answers, RolesChange(user, ans) PROVE StaysFresh(c)
  <2>1. /\ filter' = filter /\ lookup' = lookup
        /\ \A m \in Notifiers : work'[m] = work[m] \/ work'[m].step # "filter"
    BY <1>5 DEF RolesChange, Called, AtRest, TypeOK
  <2> QED
    BY <2>1, FreshKept DEF Serves
<1>6. CASE UNCHANGED vars
  BY <1>6, FreshKept DEF vars, Serves
<1> QED
  BY <1>1, <1>2, <1>3, <1>4, <1>5, <1>6 DEF Next

\* Once no lookup under an older answer is under way none ever is, and any filter that
\* is stored is the present one: the first refresh that is done settles the connection,
\* and from then on no refresh of the timer's or of a notifier's, however many run and in
\* whatever order they store, puts an older snapshot over it, until the answer changes.
THEOREM SSESettles ==
  Spec => [][\A c \in Clients : answer' = answer =>
               /\ Fresh(c) => Fresh(c)' /\ (filter'[c] = filter[c] \/ Settled(c)')
               /\ Settled(c) => Settled(c)']_vars
<1>1. TypeInv /\ [Next]_vars =>
        [\A c \in Clients : answer' = answer =>
           /\ Fresh(c) => Fresh(c)' /\ (filter'[c] = filter[c] \/ Settled(c)')
           /\ Settled(c) => Settled(c)']_vars
  <2> SUFFICES ASSUME TypeInv, [Next]_vars, NEW c \in Clients, answer' = answer, Fresh(c)
               PROVE  /\ Fresh(c)' /\ (filter'[c] = filter[c] \/ Settled(c)')
                      /\ Settled(c) => Settled(c)'
    BY DEF Settled
  <2>1. Fresh(c)' /\ (filter'[c] = filter[c] \/ Settled(c)')
    BY FreshStep DEF StaysFresh
  <2> QED
    BY <2>1 DEF Settled
<1>2. Spec => []TypeInv
  BY TypeInit, TypeStep, PTL DEF Spec
<1> QED
  BY <1>1, <1>2, PTL DEF Spec

-----------------------------------------------------------------------------
(* The snapshot is the checker's *)

CONSTANTS Roles, Names, DirName, Unset, NoDir

Checker == INSTANCE PermissionProofs WITH AnyRole <- Anyone

Shared(d) == d.type # "user_private"

ReadersOf(d) == LET gs == {g \in d.grants : "read" \in g.perms}
                IN ({g.role : g \in gs} \cup {g.user : g \in gs}) \ {Unset}

\* The constants of SSEHub are those of a configuration: the directories that are
\* not private with who may read them, and a private one, where each user's home has
\* its name, be it there or not.
Describes(config) ==
  LET dirs == {config.dirs[i] : i \in DOMAIN config.dirs}
  IN /\ AdminRoles = {config.admin} \ {Unset}
     /\ Configured = {d.path : d \in {e \in dirs : Shared(e)}}
     /\ \A d \in dirs : Shared(d) => ReadGrants[d.path] = ReadersOf(d)
     /\ \E d \in dirs : ~Shared(d)
     /\ \A u \in Users : Homes[u] = Checker!Home(u)
     /\ \A d \in dirs : d.grants \subseteq Checker!GrantConfig

\* An answer of the provider, with whether the home is on the disk.
Finds(user, ans, disk) == ans.home <=> Homes[user] \in disk

RolesOrError(ans) == ans.roles = NoAnswer \/ ans.roles \subseteq Roles

\* Users and roles have different IDs, for ReadGrants keeps both in one set.
DistinctNames ==
  /\ Users \cap Roles = {} /\ Unset \notin Users \cup Roles
  /\ Anyone \notin Users \cup Roles /\ Unset # Anyone

LEMMA ReadEffective ==
  ASSUME NEW d, d.grants \subseteq Checker!GrantConfig, NEW user \in Users, NEW ans,
         RolesOrError(ans), DistinctNames
  PROVE  "read" \in Checker!EffectivePermissions(d, user, ans.roles)
           <=> ReadersOf(d) \cap ({Anyone, user} \cup RolesIn(ans)) # {}
<1> USE DEF DistinctNames, RolesOrError
<1>1. RolesIn(ans) \subseteq Roles
  BY DEF RolesIn
<1>2. \A g \in d.grants : g.role \in Roles \cup {Unset, Anyone} /\ g.user \in Users \cup {Unset}
  BY DEF Checker!GrantConfig
<1>3. "read" \in Checker!EffectivePermissions(d, user, ans.roles)
        <=> \E g \in d.grants : "read" \in g.perms /\ (g.role = Anyone \/ g.user = user \/ g.role \in RolesIn(ans))
  <2>1. "read" \in Checker!StaticPermissions(d, user)
          <=> \E g \in d.grants : "read" \in g.perms /\ (g.role = Anyone \/ g.user = user)
    BY DEF Checker!StaticPermissions
  <2>2. "read" \in Checker!RolePermissions(d, ans.roles)
          <=> \E g \in d.grants : "read" \in g.perms /\ ans.roles # NoAnswer /\ g.role \in ans.roles \ {Unset, Anyone}
    BY DEF Checker!RolePermissions
  <2>3. \A r : ans.roles # NoAnswer /\ r \in ans.roles \ {Unset, Anyone} <=> r \in RolesIn(ans)
    BY <1>1 DEF RolesIn
  <2> QED
    BY <2>1, <2>2, <2>3 DEF Checker!EffectivePermissions
<1>4. \A x : x \in ReadersOf(d)
        <=> x # Unset /\ \E g \in d.grants : "read" \in g.perms /\ (x = g.role \/ x = g.user)
  BY DEF ReadersOf
<1>5. ReadersOf(d) \cap ({Anyone, user} \cup RolesIn(ans)) # {}
        <=> \E g \in d.grants : "read" \in g.perms /\ (g.role = Anyone \/ g.user = user \/ g.role \in RolesIn(ans))
  <2>1. ASSUME NEW x \in ReadersOf(d) \cap ({Anyone, user} \cup RolesIn(ans))
        PROVE  \E g \in d.grants : "read" \in g.perms /\ (g.role = Anyone \/ g.user = user \/ g.role \in RolesIn(ans))
    BY <1>1, <1>2, <1>4
  <2>2. ASSUME NEW g \in d.grants, "read" \in g.perms,
               g.role = Anyone \/ g.user = user \/ g.role \in RolesIn(ans)
        PROVE  ReadersOf(d) \cap ({Anyone, user} \cup RolesIn(ans)) # {}
    BY <1>1, <1>4, <2>2
  <2> QED
    BY <2>1, <2>2
<1> QED
  BY <1>3, <1>5

\* What a connection keeps after the lookups of refreshFilter is what ReadFilterFor
\* builds from the grants of the configuration the constants describe, for any two
\* answers of the provider, whether the user's home is on the disk or, as for an OIDC
\* user before the first upload, is not.
THEOREM SSEFilterIsCheckers ==
  ASSUME NEW config, NEW disk, Describes(config), NEW user \in Users, DistinctNames,
         NEW first, RolesOrError(first), Finds(user, first, disk),
         NEW second, RolesOrError(second)
  PROVE  Checker!ReadFilterFor(config, disk, first.roles, second.roles, user)
           = [dirs |-> AccessibleDirs(user, first), admin |-> IsAdmin(second)]
<1> DEFINE dirs == {config.dirs[i] : i \in DOMAIN config.dirs}
           private == {d \in dirs : d.type = "user_private"}
           shared == dirs \ private
           Effective(d) == IF Checker!HasAdminRole(config, first.roles) THEN Checker!Permissions
                           ELSE Checker!EffectivePermissions(d, user, first.roles)
           accessible == Checker!GetAccessibleDirectories(config, disk, first.roles, user)
           home == Checker!Home(user)
<1>1. \A ans : RolesOrError(ans) => (Checker!HasAdminRole(config, ans.roles) <=> IsAdmin(ans))
  BY DEF Checker!HasAdminRole, IsAdmin, RolesIn, Describes, DistinctNames, RolesOrError
<1>2. /\ Configured = {d.path : d \in shared} /\ private # {}
      /\ Homes[user] = home /\ (first.home <=> home \in disk)
      /\ \A d \in shared : ReadGrants[d.path] = ReadersOf(d) /\ d.grants \subseteq Checker!GrantConfig
  BY DEF Describes, Finds, Shared
<1>3. accessible =
        {[path |-> home, perms |-> Checker!Permissions] : d \in {p \in private : home \in disk}}
          \cup {[path |-> d.path, perms |-> Effective(d)] : d \in {s \in shared : Effective(s) # {}}}
  BY DEF Checker!GetAccessibleDirectories
<1>4. \A d \in shared : "read" \in Effective(d)
        <=> IsAdmin(first) \/ ReadGrants[d.path] \cap ({Anyone, user} \cup RolesIn(first)) # {}
  <2> HIDE DEF shared
  <2>1. ASSUME NEW d \in shared
        PROVE  "read" \in Checker!EffectivePermissions(d, user, first.roles)
                 <=> ReadGrants[d.path] \cap ({Anyone, user} \cup RolesIn(first)) # {}
    BY <1>2, ReadEffective
  <2>2. "read" \in Checker!Permissions
    BY DEF Checker!Permissions
  <2> QED
    BY <1>1, <2>1, <2>2
<1> HIDE DEF shared, private, Effective, accessible, home
<1>5. \A path : path \in Checker!ReadDirs(config, disk, first.roles, user)
        <=> (first.home /\ path = home) \/ \E d \in shared : path = d.path /\ "read" \in Effective(d)
  <2>1. \A e : e \in accessible <=>
          \/ first.home /\ e = [path |-> home, perms |-> Checker!Permissions]
          \/ \E d \in shared : Effective(d) # {} /\ e = [path |-> d.path, perms |-> Effective(d)]
    BY <1>2, <1>3
  <2>2. Checker!ReadDirs(config, disk, first.roles, user) = {e.path : e \in {a \in accessible : "read" \in a.perms}}
    BY DEF Checker!ReadDirs, accessible
  <2>3. "read" \in Checker!Permissions
    BY DEF Checker!Permissions
  <2>4. ASSUME NEW e \in accessible, "read" \in e.perms
        PROVE  (first.home /\ e.path = home) \/ \E d \in shared : e.path = d.path /\ "read" \in Effective(d)
    BY <2>1, <2>4
  <2>5. first.home => [path |-> home, perms |-> Checker!Permissions] \in accessible
    BY <2>1
  <2>6. first.home => home \in Checker!ReadDirs(config, disk, first.roles, user)
    BY <2>2, <2>3, <2>5
  <2>7. ASSUME NEW d \in shared, "read" \in Effective(d)
        PROVE  d.path \in Checker!ReadDirs(config, disk, first.roles, user)
    <3>1. [path |-> d.path, perms |-> Effective(d)] \in accessible
      BY <2>1, <2>7
    <3> QED
      BY <2>2, <2>7, <3>1
  <2> QED
    BY <2>2, <2>4, <2>6, <2>7
<1>6. \A path : path \in AccessibleDirs(user, first)
        <=> (first.home /\ path = home) \/ \E d \in shared : path = d.path /\ "read" \in Effective(d)
  <2> DEFINE Open(path) == IsAdmin(first) \/ ReadGrants[path] \cap ({Anyone, user} \cup RolesIn(first)) # {}
  <2>1. \A path : path \in AccessibleDirs(user, first)
          <=> (first.home /\ path = home) \/ (path \in Configured /\ Open(path))
    BY <1>2 DEF AccessibleDirs, SharedDirs, HomeDirs
  <2>2. \A path : path \in Configured <=> \E d \in shared : path = d.path
    BY <1>2
  <2>3. \A d \in shared : "read" \in Effective(d) <=> Open(d.path)
    BY <1>4
  <2> HIDE DEF Open
  <2> QED
    BY <2>1, <2>2, <2>3
<1>7. Checker!ReadDirs(config, disk, first.roles, user) = AccessibleDirs(user, first)
  BY <1>5, <1>6
<1>8. Checker!HasAdminRole(config, second.roles) = IsAdmin(second)
  <2>1. Checker!HasAdminRole(config, second.roles) \in BOOLEAN /\ IsAdmin(second) \in BOOLEAN
    BY DEF Checker!HasAdminRole, IsAdmin
  <2> QED
    BY <1>1, <2>1
<1> QED
  BY <1>7, <1>8 DEF Checker!ReadFilterFor

\* The directories on the disk an event may be about: below a configured one.  Of the
\* parent of the homes, which a download may name, snapshot and check differ: everybody
\* may read it, and its events reach administrators only.
OnDisk(config, disk) ==
  {dir \in Checker!Paths : /\ <<dir[1]>> \in Checker!ConfiguredPaths(config)
                           /\ dir[1] = "user" => Len(dir) > 1 /\ <<"user", dir[2]>> \in disk}

\* What the properties of the stream say of reading, CheckPermission says: the rules
\* of MayRead, by which NothingForeign and StreamPromised judge, are the check that a
\* download goes through, for users with a home and for those without.
THEOREM SSEMayReadIsChecked ==
  ASSUME Checker!NamesAssumption, DistinctNames,
         NEW config, config.dirs \in Seq(Checker!DirectoryConfig), Checker!Regular(config),
         Describes(config), NEW disk, NEW user \in Users,
         NEW ans, RolesOrError(ans), Finds(user, ans, disk), NEW dir \in OnDisk(config, disk)
  PROVE  MayRead(user, ans, dir) <=> Checker!CheckPermission(config, disk, ans.roles, user, dir, "read")
<1> DEFINE found == [dirs |-> AccessibleDirs(user, ans), admin |-> IsAdmin(ans)]
<1>1. Checker!ReadFilterFor(config, disk, ans.roles, ans.roles, user) = found
  BY SSEFilterIsCheckers
<1>2. Checker!CanRead(found, dir) <=> Checker!CheckPermission(config, disk, ans.roles, user, dir, "read")
  <2>1. /\ dir \in Checker!Paths /\ <<dir[1]>> \in Checker!ConfiguredPaths(config)
        /\ dir[1] = "user" => Len(dir) > 1 /\ <<"user", dir[2]>> \in disk
    BY DEF OnDisk
  <2>2. Checker!CanRead(Checker!ReadFilterFor(config, disk, ans.roles, ans.roles, user), dir)
          <=> Checker!CheckPermission(config, disk, ans.roles, user, dir, "read")
    BY <2>1, Checker!SnapshotAgree
  <2> QED
    BY <1>1, <2>2
<1>3. found # NoFilter
  <2>1. AccessibleDirs(user, ans) \subseteq Dirs /\ IsAdmin(ans) \in BOOLEAN
    BY AccessibleDirsType DEF IsAdmin
  <2> QED
    BY <2>1, SSEAssumption
<1>4. CanRead(found, dir) <=> Checker!CanRead(found, dir)
  BY <1>3 DEF CanRead, Checker!CanRead, IsPrefix, Checker!IsPrefix
<1>5. /\ DirsDrawn(user, {ans}, found) /\ FlagDrawn({ans}, found)
      /\ Covered(user, {ans}, found)
  BY DEF DirsDrawn, FlagDrawn, Covered, AccessibleDirs
<1> HIDE DEF found
<1>6. MayRead(user, ans, dir) => CanRead(found, dir)
  <2> SUFFICES ASSUME MayRead(user, ans, dir) PROVE CanRead(found, dir)
    OBVIOUS
  <2>1. \/ \A a \in {ans} : OwnHome(user, a, dir)
        \/ \A a \in {ans} : RolesAllow(user, a, dir)
    BY DEF MayRead
  <2> QED
    BY <1>3, <1>5, <2>1, DrawnReads
<1>7. CanRead(found, dir) => MayRead(user, ans, dir)
  BY <1>5, CoveredMayRead
<1> QED
  BY <1>2, <1>4, <1>6, <1>7

\* From the grants of config.yaml to the channel: nothing is put there about a directory
\* that no check during the connection would have let the user read.  The answer that
\* allows it is one of the connection, and the check says yes on every disk that has
\* the directory and the user's home if that answer found it.
THEOREM SSENothingUnchecked ==
  ASSUME Checker!NamesAssumption, DistinctNames, \A ans \in Answers : RolesOrError(ans),
         NEW CONSTANT config, config.dirs \in Seq(Checker!DirectoryConfig), Checker!Regular(config),
         Describes(config)
  PROVE  Spec => [](\A c \in Clients : \A k \in DOMAIN queue[c] : queue[c][k] # Everybody =>
                       \E ans \in held[c] : \A disk :
                         Finds(Owner[c], ans, disk) /\ queue[c][k] \in OnDisk(config, disk) =>
                           Checker!CheckPermission(config, disk, ans.roles, Owner[c], queue[c][k], "read"))
<1>1. TypeOK /\ NothingForeign =>
        \A c \in Clients : \A k \in DOMAIN queue[c] : queue[c][k] # Everybody =>
          \E ans \in held[c] : \A disk :
            Finds(Owner[c], ans, disk) /\ queue[c][k] \in OnDisk(config, disk) =>
              Checker!CheckPermission(config, disk, ans.roles, Owner[c], queue[c][k], "read")
  <2> SUFFICES ASSUME TypeOK, NothingForeign, NEW c \in Clients, NEW k \in DOMAIN queue[c],
                      queue[c][k] # Everybody
               PROVE  \E ans \in held[c] : \A disk :
                        Finds(Owner[c], ans, disk) /\ queue[c][k] \in OnDisk(config, disk) =>
                          Checker!CheckPermission(config, disk, ans.roles, Owner[c], queue[c][k], "read")
    OBVIOUS
  <2>1. PICK ans \in held[c] : MayRead(Owner[c], ans, queue[c][k])
    BY DEF NothingForeign
  <2>2. RolesOrError(ans) /\ Owner[c] \in Users
    BY SSEAssumption DEF TypeOK
  <2>3. ASSUME NEW disk, Finds(Owner[c], ans, disk), queue[c][k] \in OnDisk(config, disk)
        PROVE  Checker!CheckPermission(config, disk, ans.roles, Owner[c], queue[c][k], "read")
    BY <2>1, <2>2, <2>3, SSEMayReadIsChecked
  <2> QED
    BY <2>3
<1> QED
  BY <1>1, SSETypeCorrect, SSENothingForeign, PTL
=============================================================================
