---------------------------- MODULE DiscordRest ----------------------------
(***************************************************************************)
(* Membership and roles by Discord's REST interface: fetchMember and       *)
(* fetchMemberLive of internal/authprovider/discord.go, with the cache,    *)
(* singleflight, and the cooldown that stops calls while Discord fails.    *)
(*                                                                         *)
(* What Discord knows of a user (the roles, or that it is no member) is    *)
(* the number of changes it has gone through, so that answers can be told  *)
(* older or newer; 200 and 404 only differ in what they say.  Time is a    *)
(* countdown of what is left of the cooldown, and a cached answer is fresh *)
(* until it expires, whenever that is.  The rate limiter only delays.  The *)
(* token is a real one: a placeholder never gets past fetchMemberLive.     *)
(***************************************************************************)
EXTENDS Integers

CONSTANTS
  Callers,           \* goroutines that ask for a user's roles or membership
  Users,
  None,              \* no caller, no user
  FailCooldownMin, FailCooldownMax, AuthCooldown,
  Waits,             \* what a 429 may ask for
  MaxCooldown,       \* the longest of all these
  MaxVersion,        \* [Users -> Nat]: bound on the changes of what Discord knows
  MaxFaults          \* bound on the calls that fail

VARIABLES
  truth,             \* what Discord knows of each user now
  cache, fresh,      \* p.cache: a version, or Nothing, for each user; not expired
  leader,            \* p.sf: the caller that runs the call for each user
  step,              \* where each caller is in fetchMember
  user, seen,        \* whom it asks for, and the version it saw in the cache
  result,            \* the version its call has given, or Nothing
  cooldown,          \* what is left until cooldownUntil
  cooldownStep,
  faults,            \* number of calls that failed so far
  returned,          \* history: the newest version returned for each user
  floor,             \* history: that version when the call began
  asked,             \* history: what is left of the longest wait asked for
  underway,          \* history: the callers past the check when that was asked
  erased             \* history: one of them has since ended the cooldown

asking == <<user, seen, floor>>
cooling == <<cooldown, cooldownStep, asked, underway, erased>>
vars == <<truth, cache, fresh, leader, step, result, faults, returned, asking, cooling>>

Nothing == -1

ASSUME RestAssumption ==
  /\ None \notin Callers \cup Users
  /\ FailCooldownMin \in Nat \ {0} /\ FailCooldownMax \in Nat /\ AuthCooldown \in Nat
  /\ FailCooldownMin <= FailCooldownMax
  /\ Waits \subseteq Nat \ {0} /\ MaxCooldown \in Nat
  /\ \A d \in Waits \cup {AuthCooldown, FailCooldownMax} : d <= MaxCooldown
  /\ MaxVersion \in [Users -> Nat] /\ MaxFaults \in Nat

-----------------------------------------------------------------------------
\* The steps of fetchMemberLive between the check of the cooldown and the next
\* thing done to it.  A request waits for the limiter and for Discord in one.
PastCheck == {"sent", "answered"}

Flying == PastCheck \cup {"checking", "cleared", "ending"}

At(c, where) == step' = [step EXCEPT ![c] = where]

Init ==
  /\ truth = [u \in Users |-> 0]
  /\ cache = [u \in Users |-> Nothing] /\ fresh = {}
  /\ leader = [u \in Users |-> None]
  /\ step = [c \in Callers |-> "idle"] /\ user = [c \in Callers |-> None]
  /\ seen = [c \in Callers |-> Nothing] /\ result = [c \in Callers |-> Nothing]
  /\ floor = [c \in Callers |-> Nothing]
  /\ cooldown = 0 /\ cooldownStep = 0 /\ faults = 0
  /\ returned = [u \in Users |-> Nothing]
  /\ asked = 0 /\ underway = {} /\ erased = FALSE

-----------------------------------------------------------------------------
(* fetchMember, run by caller c *)

\* The cache is read under its lock.  A fresh entry is the answer, an expired
\* one is kept in case Discord fails.
Begin(c, u) ==
  /\ step[c] = "idle"
  /\ At(c, IF u \in fresh THEN "got" ELSE "missed")
  /\ user' = [user EXCEPT ![c] = u]
  /\ seen' = [seen EXCEPT ![c] = cache[u]]
  /\ result' = [result EXCEPT ![c] = IF u \in fresh THEN cache[u] ELSE Nothing]
  /\ floor' = [floor EXCEPT ![c] = returned[u]]
  /\ UNCHANGED <<truth, cache, fresh, leader, faults, returned, cooling>>

\* Mutant: every caller that misses asks Discord itself.
JoinAlone(c) ==
  /\ step[c] = "missed"
  /\ leader' = [leader EXCEPT ![user[c]] = c]
  /\ At(c, "checking")
  /\ UNCHANGED <<truth, cache, fresh, result, faults, returned, asking, cooling>>

\* sf.Do: the first caller runs the call, the others wait for its result.
Join(c) ==
  LET u == user[c]
  IN /\ step[c] = "missed"
     /\ \/ leader[u] = None /\ leader' = [leader EXCEPT ![u] = c] /\ At(c, "checking")
        \/ leader[u] # None /\ At(c, "waiting") /\ UNCHANGED leader
     /\ UNCHANGED <<truth, cache, fresh, result, faults, returned, asking, cooling>>

GetsResult(d, c) == d = c \/ (step[d] = "waiting" /\ user[d] = user[c])

\* The call is over, and all who waited for it get its result.
End(c) ==
  LET u == user[c]
  IN /\ step[c] = "ending"
     /\ leader' = [leader EXCEPT ![u] = None]
     /\ step' = [d \in Callers |-> IF GetsResult(d, c) THEN "got" ELSE step[d]]
     /\ result' = [d \in Callers |-> IF GetsResult(d, c) THEN result[c] ELSE result[d]]
     /\ UNCHANGED <<truth, cache, fresh, faults, returned, asking, cooling>>

\* Mutant: an error is returned as such.
OutcomeOrError(c) == result[c]

\* What c returns: on an error what it saw in the cache, if anything.
Outcome(c) == IF result[c] # Nothing THEN result[c] ELSE seen[c]

Return(c) ==
  LET u == user[c]
  IN /\ step[c] = "got"
     /\ returned' = [returned EXCEPT ![u] = IF Outcome(c) > @ THEN Outcome(c) ELSE @]
     /\ At(c, "idle")
     /\ user' = [user EXCEPT ![c] = None]
     /\ seen' = [seen EXCEPT ![c] = Nothing] /\ result' = [result EXCEPT ![c] = Nothing]
     /\ floor' = [floor EXCEPT ![c] = Nothing]
     /\ UNCHANGED <<truth, cache, fresh, leader, faults, cooling>>

-----------------------------------------------------------------------------
(* fetchMemberLive, run by the leader c *)

\* Mutant: the length of the last cooldown is taken for the cooldown.
InCooldownByStep == cooldownStep > 0

InCooldown == cooldown > 0

\* inCooldown: an error without a call, or on to the limiter and to Discord.
Check(c) ==
  /\ step[c] = "checking"
  /\ At(c, IF InCooldown THEN "ending" ELSE "sent")
  /\ UNCHANGED <<truth, cache, fresh, leader, result, faults, returned, asking, cooling>>

\* Discord answers 200 or 404 with what it knows now.
Answer(c) ==
  /\ step[c] = "sent"
  /\ At(c, "answered")
  /\ result' = [result EXCEPT ![c] = truth[user[c]]]
  /\ UNCHANGED <<truth, cache, fresh, leader, faults, returned, asking, cooling>>

\* clearCooldown, and what that means for the wait Discord asked for.
ClearCooldown(c) ==
  /\ cooldown' = 0 /\ cooldownStep' = 0
  /\ erased' = (erased \/ (asked > 0 /\ c \in underway))
  /\ underway' = underway \ {c}
  /\ UNCHANGED asked

Succeed(c) ==
  /\ step[c] = "answered"
  /\ ClearCooldown(c)
  /\ At(c, "cleared")
  /\ UNCHANGED <<truth, cache, fresh, leader, result, faults, returned, asking>>

Store(c) ==
  /\ step[c] = "cleared"
  /\ cache' = [cache EXCEPT ![user[c]] = result[c]]
  /\ fresh' = fresh \cup {user[c]}
  /\ At(c, "ending")
  /\ UNCHANGED <<truth, leader, result, faults, returned, asking, cooling>>

\* The call of c fails, which is one of at most MaxFaults.
Fail(c) ==
  /\ faults < MaxFaults
  /\ faults' = faults + 1
  /\ At(c, "ending")
  /\ result' = [result EXCEPT ![c] = Nothing]
  /\ UNCHANGED <<truth, cache, fresh, leader, returned, asking>>

\* The request of the leader ends while it waits for the limiter.
Interrupted(c) ==
  /\ step[c] = "sent"
  /\ Fail(c)
  /\ underway' = underway \ {c}
  /\ UNCHANGED <<cooldown, cooldownStep, asked, erased>>

\* 200 with a body that does not parse: the cooldown ends all the same.
Garbled(c) ==
  /\ step[c] = "answered"
  /\ Fail(c)
  /\ ClearCooldown(c)

\* Mutant: the last cooldown counts, however short.
Latest(d) == d

\* tripCooldown: never shorter than what is left already.
Longer(d) == IF d > cooldown THEN d ELSE cooldown

\* Discord asks for a wait of d: 401 and 403 for AuthCooldown, 429 for Retry-After.
Refused(c) ==
  /\ step[c] = "sent"
  /\ Fail(c)
  /\ \E d \in Waits \cup {AuthCooldown} :
        /\ cooldown' = Longer(d)
        /\ asked' = IF d > asked THEN d ELSE asked
        /\ erased' = (erased /\ d < asked)
  /\ underway' = {d \in Callers \ {c} : step[d] \in PastCheck}
  /\ UNCHANGED cooldownStep

\* Mutant: no upper bound.
NextStepUnbounded == IF cooldownStep = 0 THEN FailCooldownMin ELSE 2 * cooldownStep

NextStep ==
  IF cooldownStep = 0 THEN FailCooldownMin
  ELSE IF 2 * cooldownStep > FailCooldownMax THEN FailCooldownMax ELSE 2 * cooldownStep

\* tripFailCooldown: no answer in time, another status, or the leader's own
\* request ended, which cancels the call for all who wait for it.
Broken(c) ==
  /\ step[c] = "sent"
  /\ Fail(c)
  /\ cooldownStep' = NextStep
  /\ cooldown' = Longer(NextStep)
  /\ underway' = underway \ {c}
  /\ UNCHANGED <<asked, erased>>

-----------------------------------------------------------------------------
(* Time and Discord *)

Tick ==
  /\ cooldown > 0 \/ asked > 0
  /\ cooldown' = IF cooldown > 0 THEN cooldown - 1 ELSE 0
  /\ asked' = IF asked > 0 THEN asked - 1 ELSE 0
  /\ underway' = IF asked' = 0 THEN {} ELSE underway
  /\ erased' = (erased /\ asked' > 0)
  /\ UNCHANGED <<truth, cache, fresh, leader, step, result, cooldownStep, faults, returned, asking>>

Expire(u) ==
  /\ u \in fresh
  /\ fresh' = fresh \ {u}
  /\ UNCHANGED <<truth, cache, leader, step, result, faults, returned, asking, cooling>>

Change(u) ==
  /\ truth[u] < MaxVersion[u]
  /\ truth' = [truth EXCEPT ![u] = @ + 1]
  /\ UNCHANGED <<cache, fresh, leader, step, result, faults, returned, asking, cooling>>

-----------------------------------------------------------------------------
\* What a caller that is in fetchMember does next.
Proceed(c) ==
  \/ Join(c) \/ End(c) \/ Return(c) \/ Check(c)
  \/ Answer(c) \/ Succeed(c) \/ Store(c)

Fault(c) == Interrupted(c) \/ Garbled(c) \/ Refused(c) \/ Broken(c)

Next ==
  \/ \E c \in Callers, u \in Users : Begin(c, u)
  \/ \E c \in Callers : Proceed(c) \/ Fault(c)
  \/ Tick
  \/ \E u \in Users : Expire(u) \/ Change(u)

Spec == Init /\ [][Next]_vars

\* Time passes, and a call goes on: the limiter lets it through, and the HTTP
\* client's timeout ends a request that Discord does not answer.
Fairness == WF_vars(Tick) /\ \A c \in Callers : WF_vars(Proceed(c))

FairSpec == Spec /\ Fairness
-----------------------------------------------------------------------------
(* Properties *)

Versions == Nat \cup {Nothing}

\* Every variable keeps its type, and a cooldown its bounds.
TypeOK ==
  /\ truth \in [Users -> Nat] /\ \A u \in Users : truth[u] <= MaxVersion[u]
  /\ cache \in [Users -> Versions] /\ fresh \subseteq Users
  /\ leader \in [Users -> Callers \cup {None}]
  /\ step \in [Callers -> {"idle", "missed", "waiting", "got"} \cup Flying]
  /\ user \in [Callers -> Users \cup {None}]
  /\ \A c \in Callers : user[c] = None <=> step[c] = "idle"
  /\ seen \in [Callers -> Versions] /\ result \in [Callers -> Versions]
  /\ floor \in [Callers -> Versions]
  /\ cooldown \in 0..MaxCooldown
  /\ cooldownStep \in 0..FailCooldownMax
  /\ faults \in 0..MaxFaults
  /\ returned \in [Users -> Versions]
  /\ asked \in Nat /\ underway \subseteq Callers /\ erased \in BOOLEAN

\* Discord never has two requests about one user at a time ("duplicate API
\* calls are eliminated", fetchMember).
OneRequestPerUser ==
  \A c, d \in Callers :
    (step[c] = "sent" /\ step[d] = "sent" /\ user[c] = user[d]) => c = d

\* A call never returns something older than what a call that was over before
\* it began has returned, be it from the cache, from another caller's request
\* or from an expired entry: nobody gets a role back that was seen revoked.
ReadsForward ==
  \A c \in Callers : step[c] = "got" /\ Outcome(c) # Nothing => Outcome(c) >= floor[c]

\* An answer never replaces a newer one in the cache.
CacheForward == [][\A u \in Users : cache'[u] >= cache[u]]_vars

\* A wait Discord asked for is cut short by nothing but the success of a
\* request that was already under way: no shorter cooldown replaces it, and no
\* new call succeeds in the meantime.
CooldownHolds == asked > 0 /\ ~erased => cooldown >= asked

\* Every call returns, also when the one it waits for fails; and once calls no
\* longer fail, the cooldown ends and errors are over for good, with no expired
\* entry served in place of one.
Recovers ==
  /\ \A c \in Callers : []<>(step[c] = "idle")
  /\ <>[](\A c \in Callers : step[c] = "got" => result[c] # Nothing)

\* "Wait as Discord asked (Retry-After)": no call passes the check meanwhile.
RetryAfterKept ==
  [][\A c \in Callers : step[c] = "checking" /\ step'[c] = "sent" => asked = 0]_vars

-----------------------------------------------------------------------------
(* What a caller sees of its call, and the promise it implements *)

CallView(c) ==
  [step |-> IF step[c] = "idle" THEN "idle" ELSE IF step[c] = "got" THEN "answered" ELSE "asking",
   user |-> user[c], floor |-> floor[c],
   answer |-> IF step[c] = "got" THEN Outcome(c) ELSE Nothing]

Reads == INSTANCE RoleReads WITH newest <- returned, call <- [c \in Callers |-> CallView(c)]

\* Lookups keep the promise of RoleReads: whichever of the cache, another caller's
\* request or an expired entry an answer comes from, it is no older than what
\* anybody had got before the question; and while the process lives, no failure
\* of Discord and no cooldown turns a user once answered into an error.
ReadsPromised == Reads!Spec
=============================================================================
