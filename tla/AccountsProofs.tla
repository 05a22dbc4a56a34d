-------------------------- MODULE AccountsProofs --------------------------
(***************************************************************************)
(* Theorems about Accounts, for any number of users, browsers, sessions,   *)
(* changes of roles and restarts.                                          *)
(***************************************************************************)
EXTENDS Accounts, TLAPS

-----------------------------------------------------------------------------
(* Type correctness *)

\* What a request has in hand at each step.
Holding ==
  \A b \in Browsers :
    /\ step[b] \in {"fetched", "cached", "saved", "registered", "loaded"} => roles[b] \in Versions
    /\ step[b] = "cached" => provider = "oidc"
    /\ step[b] = "registered" => Owner[b] \in users
    /\ step[b] = "inserted" => roles[b] \in 1 .. issued

TypeInv == TypeOK /\ Holding

LEMMA TypeInit == Init => TypeInv
BY AccountsAssumption DEF Init, TypeInv, TypeOK, Holding, Versions

LEMMA VersionIsNoNone == None \notin Versions /\ None \notin 1 .. issued
BY AccountsAssumption DEF Versions

LEMMA TypeSigningIn ==
  ASSUME TypeInv, NEW b \in Browsers, SigningIn(b)
  PROVE  TypeInv'
<1> USE AccountsAssumption DEF TypeInv, TypeOK, Holding, tables, browser, request, Go, Hold, Fail
<1>1. CASE Login(b)
  BY <1>1 DEF Login
<1>2. CASE Callback(b)
  BY <1>2 DEF Callback
<1>3. CASE CacheRoles(b)
  <2> DEFINE crossed == \E c \in Rivals(b) : step[c] \in {"missed", "loaded"}
             other == [c \in Browsers |-> IF c = b THEN ~crossed ELSE alone[c] /\ c \notin Rivals(b)]
  <2>1. crossed \in BOOLEAN
    OBVIOUS
  <2>2. alone' \in {[alone EXCEPT ![b] = TRUE], other}
    BY <1>3 DEF CacheRoles
  <2> HIDE DEF crossed
  <2>3. alone' \in [Browsers -> BOOLEAN]
    BY <2>1, <2>2
  <2>4. CASE provider = "discord"
    BY <1>3, <2>3, <2>4 DEF CacheRoles
  <2>5. CASE provider # "discord"
    <3>1. /\ step[b] = "fetched" /\ step' = [step EXCEPT ![b] = "cached"]
          /\ cache' = [cache EXCEPT ![Owner[b]] = roles[b]] /\ sure' = [sure EXCEPT ![Owner[b]] = None]
          /\ UNCHANGED <<provider, granted, tables, expired, directories, browser, roles, issued, crashes>>
      BY <1>3, <2>5 DEF CacheRoles
    <3> QED
      BY <2>3, <2>5, <3>1
  <2> QED
    BY <2>4, <2>5
<1>4. CASE SaveRoles(b)
  BY <1>4 DEF SaveRoles
<1>5. CASE Admit(b)
  BY <1>5 DEF Admit
<1>6. CASE InsertSession(b)
  BY <1>6 DEF InsertSession
<1>7. CASE SetCookie(b)
  BY <1>7 DEF SetCookie
<1>8. CASE LoginFails(b)
  BY <1>8 DEF LoginFails
<1>9. CASE Logout(b)
  BY <1>9 DEF Logout
<1> QED
  BY <1>1, <1>2, <1>3, <1>4, <1>5, <1>6, <1>7, <1>8, <1>9 DEF SigningIn

LEMMA TypeVisiting ==
  ASSUME TypeInv, NEW b \in Browsers, Visiting(b)
  PROVE  TypeInv'
<1> USE AccountsAssumption DEF TypeInv, TypeOK, Holding, tables, browser, request, Go, Hold, Fail
<1>1. CASE Authenticate(b)
  BY <1>1 DEF Authenticate
<1>2. CASE Verify(b)
  BY <1>2 DEF Verify
<1>3. CASE AskRoles(b)
  BY <1>3 DEF AskRoles
<1>4. CASE LoadRoles(b)
  BY <1>4 DEF LoadRoles
<1>5. CASE Restore(b)
  BY <1>5 DEF Restore
<1> QED
  BY <1>1, <1>2, <1>3, <1>4, <1>5 DEF Visiting

LEMMA TypeNext ==
  ASSUME TypeInv, [Next]_vars
  PROVE  TypeInv'
<1> USE AccountsAssumption DEF TypeInv, TypeOK, Holding, tables, browser, request
<1>1. CASE \E i \in 1 .. MaxSessions : Expire(i)
  BY <1>1 DEF Expire
<1>2. CASE DeleteExpired
  BY <1>2 DEF DeleteExpired, Live
<1>3. CASE \E u \in Users : Grant(u)
  BY <1>3 DEF Grant, Versions
<1>4. CASE Restart
  BY <1>4 DEF Restart
<1>5. CASE UNCHANGED vars
  BY <1>5 DEF vars
<1> HIDE DEF TypeInv
<1> QED
  BY <1>1, <1>2, <1>3, <1>4, <1>5, TypeSigningIn, TypeVisiting DEF Next

\* No login, visit, restart or cleanup gives a session without a user's row or a
\* cookie without a session, however many browsers are at it.
THEOREM AccountsTypeCorrect == Spec => []TypeOK
<1>1. TypeInv => TypeOK
  BY DEF TypeInv
<1> QED
  BY <1>1, TypeInit, TypeNext, PTL DEF Spec

-----------------------------------------------------------------------------
(* The roles of a login *)

\* Roles that were saved undisturbed are those in memory and in every request
\* that is bringing them back, and no other login of the user is half done.
Kept ==
  \A u \in Users : sure[u] # None =>
    /\ store[u] = sure[u] /\ cache[u] \in {None, sure[u]}
    /\ \A c \in Browsers : Owner[c] = u =>
         step[c] # "cached" /\ (step[c] = "loaded" => roles[c] = sure[u])

\* A login that nothing has crossed finds its own roles in memory, and nobody
\* of the same user is between a miss and a restore.
Undisturbed ==
  \A b \in Browsers :
    alone[b] /\ (step[b] = "cached" \/ (step[b] = "saved" /\ provider = "oidc")) =>
      /\ cache[Owner[b]] = roles[b]
      /\ \A c \in Rivals(b) : step[c] \notin {"missed", "loaded"}

\* What is checked is what the session will be given.
Checked == \A b \in Browsers : step[b] = "registered" /\ alone[b] => roles[b] \in Qualified

RolesInv == TypeInv /\ Kept /\ Undisturbed /\ Checked /\ OwnRolesAdmit

LEMMA RolesInit == Init => RolesInv
BY TypeInit DEF Init, RolesInv, Kept, Undisturbed, Checked, OwnRolesAdmit

LEMMA RolesSigningIn ==
  ASSUME RolesInv, TypeInv', NEW b \in Browsers, SigningIn(b)
  PROVE  RolesInv'
<1> USE AccountsAssumption, VersionIsNoNone
    DEF RolesInv, TypeInv, TypeOK, Holding, Kept, Undisturbed, Checked, OwnRolesAdmit, Rivals,
        tables, browser, request, Go, Hold, Fail
<1>1. CASE Login(b)
  BY <1>1 DEF Login
<1>2. CASE Callback(b)
  BY <1>2 DEF Callback
<1>3. CASE CacheRoles(b)
  BY <1>3 DEF CacheRoles
<1>4. CASE SaveRoles(b)
  BY <1>4 DEF SaveRoles
<1>5. CASE Admit(b)
  BY <1>5 DEF Admit, RolesFor
<1>6. CASE InsertSession(b)
  BY <1>6 DEF InsertSession
<1>7. CASE SetCookie(b)
  BY <1>7 DEF SetCookie
<1>8. CASE LoginFails(b)
  BY <1>8 DEF LoginFails
<1>9. CASE Logout(b)
  BY <1>9 DEF Logout
<1> QED
  BY <1>1, <1>2, <1>3, <1>4, <1>5, <1>6, <1>7, <1>8, <1>9 DEF SigningIn

LEMMA RolesVisiting ==
  ASSUME RolesInv, TypeInv', NEW b \in Browsers, Visiting(b)
  PROVE  RolesInv'
<1> USE AccountsAssumption, VersionIsNoNone
    DEF RolesInv, TypeInv, TypeOK, Holding, Kept, Undisturbed, Checked, OwnRolesAdmit, Rivals,
        tables, browser, request, Go, Hold, Fail
<1>1. CASE Authenticate(b)
  BY <1>1 DEF Authenticate
<1>2. CASE Verify(b)
  BY <1>2 DEF Verify
<1>3. CASE AskRoles(b)
  BY <1>3 DEF AskRoles
<1>4. CASE LoadRoles(b)
  BY <1>4 DEF LoadRoles
<1>5. CASE Restore(b)
  BY <1>5 DEF Restore
<1> QED
  BY <1>1, <1>2, <1>3, <1>4, <1>5 DEF Visiting

LEMMA RolesNext ==
  ASSUME RolesInv, [Next]_vars
  PROVE  RolesInv'
<1>1. TypeInv'
  BY TypeNext DEF RolesInv
<1>2. CASE \/ \E i \in 1 .. MaxSessions : Expire(i)
           \/ DeleteExpired
           \/ \E u \in Users : Grant(u)
           \/ UNCHANGED vars
  BY <1>1, <1>2 DEF Expire, DeleteExpired, Live, Grant, vars, tables, browser, request,
                    RolesInv, Kept, Undisturbed, Checked, OwnRolesAdmit
<1>3. CASE Restart
  BY <1>1, <1>3 DEF Restart, tables, browser, RolesInv, Kept, Undisturbed, Checked, OwnRolesAdmit
<1> QED
  BY <1>1, <1>2, <1>3, RolesSigningIn, RolesVisiting DEF Next

\* Roles that a login saved and nothing crossed stay what the server goes by until
\* the next login: no restore, failed save, cleanup or restart brings back others.
THEOREM AccountsLoginKept == Spec => []LoginKept
<1>1. RolesInv => LoginKept
  BY DEF RolesInv, TypeInv, TypeOK, Kept, LoginKept
<1> QED
  BY <1>1, RolesInit, RolesNext, PTL DEF Spec

\* A login that nothing crossed is admitted on its own token's roles, never on
\* those that another login or a restore left in memory.
THEOREM AccountsOwnRolesAdmit == Spec => []OwnRolesAdmit
<1>1. RolesInv => OwnRolesAdmit
  BY DEF RolesInv
<1> QED
  BY <1>1, RolesInit, RolesNext, PTL DEF Spec

-----------------------------------------------------------------------------
(* The promise of a session *)

Steps == {"idle", "fetched", "cached", "saved", "registered", "inserted",
          "verifying", "admitted", "missed", "loaded"}

\* No two rows have the same id.
OneRow == \A s, t \in sessions : s.id = t.id => s = t

\* A browser has a session as its cookie, or is about to get it.
AboutToGet(b, i) == step[b] = "inserted" /\ roles[b] = i
Carries(b, i) == cookie[b] = i \/ AboutToGet(b, i)

OwnRow == \A b \in Browsers : \A s \in sessions : Carries(b, s.id) => s.user = Owner[b]

OneCarrier ==
  \A b, c \in Browsers : \A i \in 1 .. issued :
    /\ ~(cookie[b] = i /\ AboutToGet(c, i))
    /\ b # c => ~(cookie[b] = i /\ cookie[c] = i) /\ ~(AboutToGet(b, i) /\ AboutToGet(c, i))

InsideHolds == \A b \in Inside : cookie[b] # None

SessionInv == RolesInv /\ OneRow /\ OwnRow /\ OneCarrier /\ InsideHolds

LEMMA SessionInit == Init => SessionInv
<1> SUFFICES ASSUME Init PROVE SessionInv
  OBVIOUS
<1>1. RolesInv
  BY RolesInit
<1>2. OneRow /\ OwnRow /\ InsideHolds
  BY DEF Init, OneRow, OwnRow, InsideHolds, Inside
<1>3. OneCarrier
  BY DEF Init, OneCarrier
<1> QED
  BY <1>1, <1>2, <1>3 DEF SessionInv

\* A step that makes no session and gives none.
LEMMA SessionsKept ==
  ASSUME SessionInv, RolesInv', sessions' \subseteq sessions, issued' = issued,
         \A b \in Browsers : /\ cookie'[b] = cookie[b] \/ (cookie'[b] = None /\ b \notin Inside')
                             /\ step'[b] = "inserted" => step[b] = "inserted" /\ roles'[b] = roles[b]
                             /\ b \in Inside' => b \in Inside \/ cookie[b] # None
  PROVE  SessionInv'
<1> USE VersionIsNoNone DEF SessionInv, AboutToGet, Carries
<1>0. \A s \in sessions : s.id \in 1 .. issued
  BY DEF RolesInv, TypeInv, TypeOK
<1>1. OneRow'
  BY DEF OneRow
<1>2. OwnRow'
  BY <1>0 DEF OwnRow
<1>3. OneCarrier'
  BY DEF OneCarrier
<1>4. InsideHolds'
  BY DEF InsideHolds, Inside
<1> QED
  BY <1>1, <1>2, <1>3, <1>4

LEMMA SessionMade ==
  ASSUME SessionInv, RolesInv', NEW b \in Browsers, InsertSession(b)
  PROVE  SessionInv'
<1> USE VersionIsNoNone DEF SessionInv, AboutToGet, Carries, InsertSession, Go, Hold, browser
<1>0. /\ issued \in Nat /\ step \in [Browsers -> Steps]
      /\ roles \in [Browsers -> Versions \cup (1 .. MaxSessions) \cup {None}]
      /\ \A s \in sessions : s.id \in 1 .. issued
      /\ \A c \in Browsers : cookie[c] # issued + 1 /\ ~AboutToGet(c, issued + 1)
  <2>1. issued \in Nat /\ (\A c \in Browsers : cookie[c] \in 1 .. issued \/ cookie[c] = None)
    BY DEF RolesInv, TypeInv, TypeOK
  <2>2. \A c \in Browsers : cookie[c] # issued + 1
    BY <2>1, AccountsAssumption
  <2>3. \A c \in Browsers : ~AboutToGet(c, issued + 1)
    BY <2>1 DEF RolesInv, TypeInv, Holding
  <2> QED
    BY <2>1, <2>2, <2>3 DEF RolesInv, TypeInv, TypeOK, Steps
<1>1. OneRow'
  BY <1>0 DEF OneRow
<1>2. OwnRow'
  BY <1>0 DEF OwnRow
<1>3. OneCarrier'
  BY <1>0 DEF OneCarrier
<1>4. InsideHolds'
  BY <1>0 DEF InsideHolds, Inside
<1> QED
  BY <1>1, <1>2, <1>3, <1>4

LEMMA SessionGiven ==
  ASSUME SessionInv, RolesInv', NEW b \in Browsers, SetCookie(b)
  PROVE  SessionInv'
<1> USE VersionIsNoNone DEF SessionInv, AboutToGet, Carries, SetCookie, Go, Hold, Fail, tables
<1>0. /\ step \in [Browsers -> Steps] /\ cookie \in [Browsers -> (1 .. issued) \cup {None}]
      /\ roles[b] \in 1 .. issued
      /\ \A s \in sessions : s.id \in 1 .. issued
  BY DEF RolesInv, TypeInv, TypeOK, Holding, Steps
<1>1. OneRow'
  BY DEF OneRow
<1>2. OwnRow'
  BY <1>0 DEF OwnRow
<1>3. OneCarrier'
  BY <1>0 DEF OneCarrier
<1>4. InsideHolds'
  BY <1>0 DEF InsideHolds, Inside
<1> QED
  BY <1>1, <1>2, <1>3, <1>4

LEMMA SessionNext ==
  ASSUME SessionInv, [Next]_vars
  PROVE  SessionInv'
<1>1. RolesInv'
  BY RolesNext DEF SessionInv
<1>2. /\ step \in [Browsers -> Steps] /\ roles \in [Browsers -> Versions \cup (1 .. MaxSessions) \cup {None}]
      /\ cookie \in [Browsers -> (1 .. issued) \cup {None}]
  BY DEF SessionInv, RolesInv, TypeInv, TypeOK, Steps
<1> DEFINE NoneGiven ==
      /\ sessions' \subseteq sessions /\ issued' = issued
      /\ \A b \in Browsers : /\ cookie'[b] = cookie[b] \/ (cookie'[b] = None /\ b \notin Inside')
                             /\ step'[b] = "inserted" => step[b] = "inserted" /\ roles'[b] = roles[b]
                             /\ b \in Inside' => b \in Inside \/ cookie[b] # None
<1>3. ASSUME NEW b \in Browsers, SigningIn(b), ~InsertSession(b), ~SetCookie(b) PROVE NoneGiven
  BY <1>2, <1>3 DEF SigningIn, Login, Callback, CacheRoles, SaveRoles, Admit, LoginFails, Logout,
       Inside, Go, Hold, Fail, tables, browser, request
<1>4. ASSUME NEW b \in Browsers, Visiting(b) PROVE NoneGiven
  <2>1. CASE Authenticate(b)
    <3>1. cookie[b] # None
      BY <2>1, VersionIsNoNone DEF Authenticate, Live, SessionInv, RolesInv, TypeInv, TypeOK
    <3> QED
      BY <1>2, <2>1, <3>1 DEF Authenticate, Inside, Go, tables, browser
  <2>2. CASE Verify(b)
    BY <1>2, <2>2 DEF Verify, Inside, Go, tables
  <2>3. CASE AskRoles(b) \/ LoadRoles(b) \/ Restore(b)
    BY <1>2, <2>3 DEF AskRoles, LoadRoles, Restore, Inside, Go, Hold, Fail, tables, browser
  <2> QED
    BY <1>4, <2>1, <2>2, <2>3 DEF Visiting
<1>5. CASE (\E i \in 1 .. MaxSessions : Expire(i)) \/ DeleteExpired \/ (\E u \in Users : Grant(u))
             \/ Restart \/ UNCHANGED vars
  <2>1. NoneGiven
    BY <1>2, <1>5 DEF Expire, DeleteExpired, Grant, Restart, vars, Live, Inside, tables, browser, request
  <2> QED
    BY <1>1, <2>1, SessionsKept
<1> HIDE DEF NoneGiven
<1>6. NoneGiven => SessionInv'
  BY <1>1, SessionsKept DEF NoneGiven
<1> QED
  BY <1>1, <1>3, <1>4, <1>5, <1>6, SessionMade, SessionGiven DEF Next

LEMMA PromisedInit == Init => Promise!Init
BY DEF Init, Promise!Init, Live, Inside

\* No session is made, ended or given, and nobody comes or goes.
LEMMA PromiseUntouched ==
  ASSUME issued' = issued, sessions' = sessions, expired' = expired, cookie' = cookie, Inside' = Inside
  PROVE  UNCHANGED <<issued, Live, cookie, Inside>>
BY DEF Live

LEMMA PromisedSigningIn ==
  ASSUME SessionInv, NEW b \in Browsers, SigningIn(b)
  PROVE  [Promise!Next]_<<issued, Live, cookie, Inside>>
<1>0. /\ step \in [Browsers -> Steps] /\ cookie \in [Browsers -> (1 .. issued) \cup {None}]
      /\ issued \in Nat /\ expired \subseteq 1 .. issued
  BY DEF SessionInv, RolesInv, TypeInv, TypeOK, Steps
<1>1. CASE Login(b) \/ Callback(b) \/ CacheRoles(b) \/ SaveRoles(b) \/ Admit(b) \/ LoginFails(b)
  <2>1. Inside' = Inside
    BY <1>0, <1>1 DEF Login, Callback, CacheRoles, SaveRoles, Admit, LoginFails, Inside, Go, Fail, request
  <2> QED
    BY <1>1, <2>1, PromiseUntouched
       DEF Login, Callback, CacheRoles, SaveRoles, Admit, LoginFails, tables, browser
<1>2. CASE InsertSession(b)
  <2>1. Inside' = Inside
    BY <1>0, <1>2 DEF InsertSession, Inside, Go
  <2>2. roles[b] \in Versions /\ alone[b] \in BOOLEAN /\ (alone[b] => roles[b] \in Qualified)
    BY <1>2 DEF InsertSession, SessionInv, RolesInv, TypeInv, TypeOK, Holding, Checked
  <2>3. issued' \notin expired'
    BY <1>0, <1>2 DEF InsertSession
  <2>4. Live' = Live \cup {[id |-> issued', user |-> Owner[b], roles |-> roles[b], alone |-> alone[b]]}
    BY <1>2, <2>3 DEF InsertSession, Live
  <2>5. Promise!Open(b)
    BY <1>2, <2>1, <2>2, <2>4 DEF InsertSession, Promise!Open, browser
  <2> QED
    BY <2>5 DEF Promise!Next
<1>3. CASE SetCookie(b)
  <2>1. Inside' = Inside /\ b \notin Inside
    BY <1>0, <1>3 DEF SetCookie, Inside, Go, Fail
  <2>2. roles[b] \in 1 .. issued /\ \A c \in Browsers : cookie[c] # roles[b]
    BY <1>3 DEF SetCookie, SessionInv, RolesInv, TypeInv, Holding, OneCarrier, AboutToGet
  <2>3. Live' = Live
    BY <1>3 DEF SetCookie, Live, tables
  <2>4. Promise!Give(b)
    BY <1>3, <2>1, <2>2, <2>3 DEF SetCookie, Promise!Give
  <2> QED
    BY <2>4 DEF Promise!Next
<1>4. CASE Logout(b)
  <2>1. Inside' = Inside /\ b \notin Inside
    BY <1>0, <1>4 DEF Logout, Inside, request
  <2>2. Live' \in {Live, {s \in Live : s.id # cookie[b]}}
    BY <1>4 DEF Logout, Live
  <2>3. Promise!LogOut(b)
    BY <1>4, <2>1, <2>2 DEF Logout, Promise!LogOut
  <2> QED
    BY <2>3 DEF Promise!Next
<1> QED
  BY <1>1, <1>2, <1>3, <1>4 DEF SigningIn

LEMMA PromisedVisiting ==
  ASSUME SessionInv, NEW b \in Browsers, Visiting(b)
  PROVE  [Promise!Next]_<<issued, Live, cookie, Inside>>
<1>0. /\ step \in [Browsers -> Steps] /\ cookie \in [Browsers -> (1 .. issued) \cup {None}]
  BY DEF SessionInv, RolesInv, TypeInv, TypeOK, Steps
<1>1. CASE Authenticate(b)
  <2>1. PICK s \in Live : s.id = cookie[b]
    BY <1>1 DEF Authenticate
  <2>2. s.user = Owner[b]
    BY <2>1 DEF SessionInv, OwnRow, Carries, Live
  <2>3. b \notin Inside /\ Inside' = Inside \cup {b}
    BY <1>0, <1>1 DEF Authenticate, Inside, Go
  <2>4. UNCHANGED <<issued, Live, cookie>>
    BY <1>1 DEF Authenticate, Live, tables, browser
  <2>5. Promise!Enter(b)
    BY <2>1, <2>2, <2>3, <2>4 DEF Promise!Enter
  <2> QED
    BY <2>5 DEF Promise!Next
<1>2. CASE step'[b] = "idle"
  <2>1. b \in Inside /\ Inside' = Inside \ {b}
    BY <1>0, <1>2 DEF Visiting, Authenticate, Verify, AskRoles, LoadRoles, Restore, Inside, Go, Fail
  <2>2. cookie' \in {cookie, [cookie EXCEPT ![b] = None]}
    BY <1>0 DEF Visiting, Authenticate, Verify, AskRoles, LoadRoles, Restore, browser
  <2>3. UNCHANGED <<issued, Live>>
    BY DEF Visiting, Authenticate, Verify, AskRoles, LoadRoles, Restore, Live, tables
  <2>4. Promise!Leave(b)
    BY <2>1, <2>2, <2>3 DEF Promise!Leave
  <2> QED
    BY <2>4 DEF Promise!Next
<1>3. CASE ~Authenticate(b) /\ step'[b] # "idle"
  <2>1. Inside' = Inside
    BY <1>0, <1>3 DEF Visiting, Verify, AskRoles, LoadRoles, Restore, Inside, Go, Fail
  <2>2. UNCHANGED <<issued, sessions, expired, cookie>>
    BY <1>0, <1>3 DEF Visiting, Verify, AskRoles, LoadRoles, Restore, Go, Fail, tables, browser
  <2> QED
    BY <2>1, <2>2, PromiseUntouched
<1> QED
  BY <1>1, <1>2, <1>3

LEMMA PromisedStep ==
  ASSUME SessionInv, [Next]_vars
  PROVE  [Promise!Next]_<<issued, Live, cookie, Inside>>
<1>1. ASSUME NEW i \in 1 .. MaxSessions, Expire(i)
      PROVE  [Promise!Next]_<<issued, Live, cookie, Inside>>
  <2>1. UNCHANGED <<issued, cookie, Inside>>
    BY <1>1 DEF Expire, Inside, browser, request
  <2>2. CASE \E s \in Live : s.id = i
    <3>1. PICK s \in Live : s.id = i
      BY <2>2
    <3>2. Live' = Live \ {s}
      BY <1>1, <3>1 DEF Expire, Live, tables, SessionInv, OneRow
    <3> QED
      BY <2>1, <3>1, <3>2 DEF Promise!Next, Promise!End
  <2>3. CASE ~ \E s \in Live : s.id = i
    <3>1. Live' = Live
      BY <1>1, <2>3 DEF Expire, Live, tables
    <3> QED
      BY <2>1, <3>1
  <2> QED
    BY <2>2, <2>3
<1>2. CASE DeleteExpired \/ (\E u \in Users : Grant(u)) \/ UNCHANGED vars
  <2>1. Live' = Live
    BY <1>2 DEF DeleteExpired, Grant, vars, Live, tables
  <2>2. UNCHANGED <<issued, cookie, Inside>>
    BY <1>2 DEF DeleteExpired, Grant, vars, Inside, browser, request
  <2> QED
    BY <2>1, <2>2
<1>3. CASE Restart
  <2>1. Inside' = {}
    BY <1>3 DEF Restart, Inside
  <2>2. UNCHANGED <<issued, Live, cookie>>
    BY <1>3 DEF Restart, Live, tables, browser
  <2> QED
    BY <2>1, <2>2 DEF Promise!Next, Promise!Stop
<1> QED
  BY <1>1, <1>2, <1>3, PromisedSigningIn, PromisedVisiting DEF Next

\* The logins, visits, logouts, expiries, cleanups and restarts keep what a session
\* promises, for any number of users, browsers and sessions: a browser is let in
\* only with the session it was given, of its own user, while that has not ended.
THEOREM AccountsSessionsPromised == Spec => SessionsPromised
<1>1. SessionInv /\ [Next]_vars => SessionInv' /\ [Promise!Next]_<<issued, Live, cookie, Inside>>
  BY SessionNext, PromisedStep
<1> QED
  BY <1>1, SessionInit, PromisedInit, PTL DEF Spec, SessionsPromised, Promise!Spec
=============================================================================
