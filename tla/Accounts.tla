------------------------------ MODULE Accounts ------------------------------
(***************************************************************************)
(* Logins, sessions and the roles they bring: internal/handler/auth.go,    *)
(* AuthMiddleware and AdminMiddleware of internal/middleware, the OIDC     *)
(* provider of internal/authprovider/oidc.go with its role cache, and the  *)
(* tables sessions, users and oidc_user_roles.                             *)
(*                                                                         *)
(* A browser has one request under way at a time; two browsers of a user   *)
(* make the interleavings.  Roles are the number of times the provider has *)
(* changed them, of which those in Qualified hold a required role.  Every  *)
(* call of the database, and of the provider, may fail.  With Discord the  *)
(* provider answers for itself (DiscordRest, GatewaySync); here it says    *)
(* what holds now.  Names, pictures and addresses are left out.            *)
(***************************************************************************)
EXTENDS Naturals, FiniteSets

CONSTANTS
  Users, Browsers,
  Owner,             \* [Browsers -> Users]: who logs in there
  None,              \* no roles, no session
  MaxVersion,        \* bound on the changes of a user's roles
  Qualified,         \* the versions that hold one of required_roles
  MaxSessions,       \* bound on the sessions made
  MaxCrashes         \* bound on the restarts

VARIABLES
  provider,          \* auth.provider.type of the configuration
  granted,           \* the roles each user has at the provider now
  cache,             \* p.roleCache
  store,             \* table oidc_user_roles
  users, sessions,   \* tables users and sessions
  expired,           \* the sessions whose expires_at has passed
  directories,       \* the users whose private directory was made at a login
  cookie, oauth,     \* session_token of each browser; the browsers with an oauth_state
  step,              \* the request under way in each browser
  roles,             \* the roles it has in hand
  alone,             \* history: no login and no restore has crossed this login
  issued, crashes,   \* how many sessions and restarts there were
  sure               \* history: the roles of the last login, if alone and saved last

tables == <<store, users, sessions>>
browser == <<cookie, oauth>>
request == <<step, roles, alone>>
vars == <<provider, granted, cache, tables, expired, directories, browser, request, issued, crashes, sure>>

Versions == 0 .. MaxVersion

ASSUME AccountsAssumption ==
  /\ Owner \in [Browsers -> Users] /\ None \notin Nat
  /\ MaxVersion \in Nat /\ Qualified \subseteq Versions
  /\ MaxSessions \in Nat /\ MaxCrashes \in Nat

-----------------------------------------------------------------------------
Go(b, s) == step' = [step EXCEPT ![b] = s]
Hold(b, v) == roles' = [roles EXCEPT ![b] = v]
Fail(b) == Go(b, "idle") /\ Hold(b, None) /\ UNCHANGED alone

\* The other requests for the same user.
Rivals(b) == {c \in Browsers \ {b} : Owner[c] = Owner[b]}

Live == {s \in sessions : s.id \notin expired}

Init ==
  /\ provider \in {"oidc", "discord"}
  /\ granted = [u \in Users |-> 0]
  /\ cache = [u \in Users |-> None] /\ store = [u \in Users |-> None]
  /\ users = {} /\ sessions = {} /\ expired = {} /\ directories = {}
  /\ cookie = [b \in Browsers |-> None] /\ oauth = {}
  /\ step = [b \in Browsers |-> "idle"] /\ roles = [b \in Browsers |-> None]
  /\ alone = [b \in Browsers |-> FALSE]
  /\ issued = 0 /\ crashes = 0 /\ sure = [u \in Users |-> None]

-----------------------------------------------------------------------------
(* Login and Callback. *)

\* Login sets the state to be compared when the provider sends the user back.
Login(b) ==
  /\ step[b] = "idle" /\ b \notin oauth
  /\ oauth' = oauth \cup {b}
  /\ UNCHANGED <<provider, granted, cache, tables, expired, directories, cookie, request, issued, crashes, sure>>

\* The state is compared (and not used up), and the code gives a token with the roles.
Callback(b) ==
  /\ step[b] = "idle" /\ b \in oauth /\ issued < MaxSessions
  /\ Go(b, "fetched") /\ Hold(b, granted[Owner[b]])
  /\ UNCHANGED <<provider, granted, cache, tables, expired, directories, browser, alone, issued, crashes, sure>>

\* FetchUserInfo keeps the roles of the token; with Discord it keeps none.
CacheRoles(b) ==
  /\ step[b] = "fetched"
  /\ LET u == Owner[b]
         crossed == \E c \in Rivals(b) : step[c] \in {"missed", "loaded"}
     IN IF provider = "discord"
        THEN /\ Go(b, "saved")
             /\ alone' = [alone EXCEPT ![b] = TRUE]
             /\ UNCHANGED <<cache, sure>>
        ELSE /\ Go(b, "cached")
             /\ cache' = [cache EXCEPT ![u] = roles[b]]
             /\ alone' = [c \in Browsers |-> IF c = b THEN ~crossed ELSE alone[c] /\ c \notin Rivals(b)]
             /\ sure' = [sure EXCEPT ![u] = None]
  /\ UNCHANGED <<provider, granted, tables, expired, directories, browser, roles, issued, crashes>>

\* Mutant: a row that exists is not overwritten.
SaveRolesOnce(b) ==
  /\ step[b] = "cached" /\ Go(b, "saved")
  /\ LET u == Owner[b]
     IN /\ store' = IF store[u] = None THEN [store EXCEPT ![u] = roles[b]] ELSE store
        /\ sure' = IF alone[b] /\ \A c \in Rivals(b) : step[c] # "cached"
                   THEN [sure EXCEPT ![u] = roles[b]] ELSE sure
  /\ UNCHANGED <<provider, granted, cache, users, sessions, expired, directories, browser, roles, alone,
                 issued, crashes>>

\* SaveRoles; a failure is logged and the login goes on.
SaveRoles(b) ==
  /\ step[b] = "cached" /\ Go(b, "saved")
  /\ LET u == Owner[b]
     IN \/ UNCHANGED <<store, sure>>
        \/ /\ store' = [store EXCEPT ![u] = roles[b]]
           /\ sure' = IF alone[b] /\ \A c \in Rivals(b) : step[c] # "cached"
                        THEN [sure EXCEPT ![u] = roles[b]] ELSE sure
  /\ UNCHANGED <<provider, granted, cache, users, sessions, expired, directories, browser, roles, alone,
                 issued, crashes>>

\* Mutant: by those that were saved.
RolesStored(b) == IF provider = "discord" THEN granted[Owner[b]] ELSE store[Owner[b]]

\* The roles IsMember goes by: Discord's now, or those FetchUserInfo has cached.
RolesFor(b) == IF provider = "discord" THEN granted[Owner[b]] ELSE cache[Owner[b]]

\* Mutant: no row for a user whose directory could not be made.
AdmitUnregistered(b) ==
  /\ step[b] = "saved" /\ RolesFor(b) \in Qualified
  /\ Go(b, "registered")
  /\ Hold(b, IF provider = "discord" THEN granted[Owner[b]] ELSE roles[b])
  /\ \E made \in {{}, {Owner[b]}} : directories' = directories \cup made /\ users' = users \cup made
  /\ UNCHANGED <<provider, granted, cache, store, sessions, expired, browser, alone, issued, crashes, sure>>

\* IsMember; then the user's row, and with Discord the user's directory, if that can be made.
Admit(b) ==
  /\ step[b] = "saved" /\ RolesFor(b) \in Qualified
  /\ Go(b, "registered")
  /\ Hold(b, IF provider = "discord" THEN granted[Owner[b]] ELSE roles[b])
  /\ users' = users \cup {Owner[b]}
  /\ \E made \in {{}} \cup (IF provider = "discord" THEN {{Owner[b]}} ELSE {}) :
       directories' = directories \cup made
  /\ UNCHANGED <<provider, granted, cache, store, sessions, expired, browser, alone, issued, crashes, sure>>

\* The session's row, for seven days ...
InsertSession(b) ==
  /\ step[b] = "registered" /\ Go(b, "inserted") /\ issued < MaxSessions
  /\ issued' = issued + 1 /\ Hold(b, issued')
  /\ sessions' = sessions \cup
       {[id |-> issued', user |-> Owner[b], roles |-> roles[b], alone |-> alone[b]]}
  /\ UNCHANGED <<provider, granted, cache, store, users, expired, directories, browser, alone, crashes, sure>>

\* ... and its cookie.
SetCookie(b) ==
  /\ step[b] = "inserted" /\ Fail(b)
  /\ cookie' = [cookie EXCEPT ![b] = roles[b]]
  /\ UNCHANGED <<provider, granted, cache, tables, expired, directories, oauth, issued, crashes, sure>>

\* Any of the calls before the row is there fails, or IsMember says no.
LoginFails(b) ==
  /\ step[b] \in {"fetched", "saved", "registered"} /\ Fail(b)
  /\ UNCHANGED <<provider, granted, cache, tables, expired, directories, browser, issued, crashes, sure>>

\* Logout deletes the row, which may fail, and the cookie.
Logout(b) ==
  /\ step[b] = "idle" /\ cookie[b] # None
  /\ cookie' = [cookie EXCEPT ![b] = None]
  /\ \/ UNCHANGED sessions
     \/ sessions' = {s \in sessions : s.id # cookie[b]}
  /\ UNCHANGED <<provider, granted, cache, store, users, expired, directories, oauth, request, issued, crashes, sure>>

-----------------------------------------------------------------------------
(* AuthMiddleware, and what asks for roles behind it. *)

\* Mutant: whatever the row says of its end.
AuthenticateAnyRow(b) ==
  /\ step[b] = "idle" /\ \E s \in sessions : s.id = cookie[b] /\ s.user \in users
  /\ Go(b, "verifying")
  /\ UNCHANGED <<provider, granted, cache, tables, expired, directories, browser, roles, alone, issued, crashes, sure>>

\* The row of the session, not expired, and the row of its user.
Authenticate(b) ==
  /\ step[b] = "idle" /\ \E s \in Live : s.id = cookie[b] /\ s.user \in users
  /\ Go(b, "verifying")
  /\ UNCHANGED <<provider, granted, cache, tables, expired, directories, browser, roles, alone, issued, crashes, sure>>

\* VerifyMembership: OIDC cannot tell; Discord may say no, which ends the cookie.
Verify(b) ==
  /\ step[b] = "verifying"
  /\ \/ provider = "oidc" /\ Go(b, "admitted") /\ UNCHANGED cookie
     \/ provider = "discord" /\ Go(b, "idle")
        /\ cookie' = [cookie EXCEPT ![b] = IF granted[Owner[b]] \in Qualified THEN @ ELSE None]
  /\ UNCHANGED <<provider, granted, cache, tables, expired, directories, oauth, roles, alone, issued, crashes, sure>>

\* GetUserRoles, for AdminMiddleware and every permission check: from memory ...
AskRoles(b) ==
  /\ step[b] = "admitted"
  /\ Go(b, IF cache[Owner[b]] = None THEN "missed" ELSE "idle")
  /\ UNCHANGED <<provider, granted, cache, tables, expired, directories, browser, roles, alone, issued, crashes, sure>>

\* ... or from the table, which may fail or know nothing ...
LoadRoles(b) ==
  /\ step[b] = "missed"
  /\ LET u == Owner[b]
     IN \/ Fail(b)
        \/ store[u] # None /\ Go(b, "loaded") /\ Hold(b, store[u]) /\ UNCHANGED alone
  /\ UNCHANGED <<provider, granted, cache, tables, expired, directories, browser, issued, crashes, sure>>

\* ... and into memory, whatever is there by now.
Restore(b) ==
  /\ step[b] = "loaded" /\ Fail(b)
  /\ cache' = [cache EXCEPT ![Owner[b]] = roles[b]]
  /\ UNCHANGED <<provider, granted, tables, expired, directories, browser, issued, crashes, sure>>

-----------------------------------------------------------------------------
(* Time, the hourly cleanup, the provider, and restarts. *)

Expire(i) ==
  /\ i \in 1 .. issued /\ i \notin expired
  /\ expired' = expired \cup {i}
  /\ UNCHANGED <<provider, granted, cache, tables, directories, browser, request, issued, crashes, sure>>

\* Mutant: a row goes when its cookie is seen to have expired.
DeleteExpiredSeen ==
  \E b \in Browsers :
    /\ cookie[b] \in expired /\ \E s \in sessions : s.id = cookie[b]
    /\ sessions' = {s \in sessions : s.id # cookie[b]}
    /\ UNCHANGED <<provider, granted, cache, store, users, expired, directories, browser, request, issued, crashes, sure>>

\* DeleteExpiredSessions, at the start and every hour.
DeleteExpired ==
  /\ sessions # Live /\ sessions' = Live
  /\ UNCHANGED <<provider, granted, cache, store, users, expired, directories, browser, request, issued, crashes, sure>>

\* The provider gives a user other roles.
Grant(u) ==
  /\ granted[u] < MaxVersion
  /\ granted' = [granted EXCEPT ![u] = @ + 1]
  /\ UNCHANGED <<provider, cache, tables, expired, directories, browser, request, issued, crashes, sure>>

\* The process ends at any point and starts again; the database and the browsers stay.
Restart ==
  /\ crashes < MaxCrashes /\ crashes' = crashes + 1
  /\ cache' = [u \in Users |-> None]
  /\ step' = [b \in Browsers |-> "idle"] /\ roles' = [b \in Browsers |-> None]
  /\ alone' = [b \in Browsers |-> FALSE]
  /\ UNCHANGED <<provider, granted, tables, expired, directories, browser, issued, sure>>

-----------------------------------------------------------------------------
SigningIn(b) ==
  \/ Login(b) \/ Callback(b) \/ CacheRoles(b) \/ SaveRoles(b) \/ Admit(b)
  \/ InsertSession(b) \/ SetCookie(b) \/ LoginFails(b) \/ Logout(b)
Visiting(b) == Authenticate(b) \/ Verify(b) \/ AskRoles(b) \/ LoadRoles(b) \/ Restore(b)

Next ==
  \/ \E b \in Browsers : SigningIn(b) \/ Visiting(b)
  \/ \E i \in 1 .. MaxSessions : Expire(i)
  \/ DeleteExpired
  \/ \E u \in Users : Grant(u)
  \/ Restart

Spec == Init /\ [][Next]_vars

\* Time passes, and the cleanup of some hour succeeds.
Fairness == WF_vars(DeleteExpired) /\ \A i \in 1 .. MaxSessions : WF_vars(Expire(i))
FairSpec == Spec /\ Fairness

-----------------------------------------------------------------------------
(* Properties. *)

\* Every variable keeps its type; a session belongs to a user with a row, and
\* every cookie to a session that was made.
TypeOK ==
  /\ provider \in {"oidc", "discord"}
  /\ granted \in [Users -> Versions]
  /\ cache \in [Users -> Versions \cup {None}] /\ store \in [Users -> Versions \cup {None}]
  /\ users \subseteq Users /\ directories \subseteq Users /\ oauth \subseteq Browsers
  /\ sessions \subseteq [id : 1 .. issued, user : users, roles : Versions, alone : BOOLEAN]
  /\ expired \subseteq 1 .. issued
  /\ cookie \in [Browsers -> (1 .. issued) \cup {None}]
  /\ step \in [Browsers -> {"idle", "fetched", "cached", "saved", "registered", "inserted",
                            "verifying", "admitted", "missed", "loaded"}]
  /\ roles \in [Browsers -> Versions \cup (1 .. MaxSessions) \cup {None}]
  /\ alone \in [Browsers -> BOOLEAN]
  /\ issued \in 0 .. MaxSessions /\ crashes \in 0 .. MaxCrashes
  /\ sure \in [Users -> Versions \cup {None}]

\* The roles of a login that saved them, and that no other login of the user and no
\* restore crossed, are those in memory and in the table until the
\* next login, restarts included: what the admin check and the permissions see.
LoginKept ==
  \A u \in Users : sure[u] # None => store[u] = sure[u] /\ cache[u] \in {None, sure[u]}

\* A session was made by a login whose own token held a required role, unless
\* another login or a restore put other roles between its caching and its check.
OwnRolesAdmit == \A s \in sessions : s.alone => s.roles \in Qualified

\* The browsers whose request AuthMiddleware has let through.
Inside == {b \in Browsers : step[b] \in {"verifying", "admitted", "missed", "loaded"}}

Promise == INSTANCE SessionPromise WITH made <- issued, open <- Live, held <- cookie, inside <- Inside

\* Sessions of a table, cookies of browsers and logins call by call keep what a
\* session promises: nobody is let in with another's session or one that has ended,
\* none comes back after a logout, an expiry, a cleanup or a restart, and a login
\* that nothing crossed is let in on roles of its own.
SessionsPromised == Promise!Spec

\* No row of a session stays for good, not even that of a login cut short.
SessionsEnd == \A i \in 1 .. MaxSessions : (\E s \in sessions : s.id = i) ~> (\A s \in sessions : s.id # i)
=============================================================================
