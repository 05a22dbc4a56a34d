------------------------- MODULE DiscordRestProofs -------------------------
(***************************************************************************)
(* Theorems about DiscordRest, for every value of its constants.           *)
(***************************************************************************)
EXTENDS DiscordRest, TLAPS

-----------------------------------------------------------------------------
(* Type correctness *)

LEMMA CooldownTypes ==
  ASSUME TypeOK
  PROVE  /\ NextStep \in 0..FailCooldownMax
         /\ \A d \in Waits \cup {AuthCooldown, NextStep} :
               Longer(d) \in 0..MaxCooldown /\ d <= Longer(d) /\ cooldown <= Longer(d)
<1>1. NextStep \in 0..FailCooldownMax
  BY RestAssumption DEF TypeOK, NextStep
<1>2. \A d \in Waits \cup {AuthCooldown, NextStep} : d \in 0..MaxCooldown
  BY <1>1, RestAssumption
<1>3. MaxCooldown \in Nat /\ cooldown \in 0..MaxCooldown
  BY RestAssumption DEF TypeOK
<1>4. ASSUME NEW d \in 0..MaxCooldown
      PROVE  Longer(d) \in 0..MaxCooldown /\ d <= Longer(d) /\ cooldown <= Longer(d)
  BY <1>3 DEF Longer
<1> QED
  BY <1>1, <1>2, <1>4

LEMMA ClearCooldownType ==
  ASSUME TypeOK, NEW c \in Callers, ClearCooldown(c)
  PROVE  /\ cooldown' \in 0..MaxCooldown /\ cooldownStep' \in 0..FailCooldownMax
         /\ asked' \in Nat /\ underway' \subseteq Callers /\ erased' \in BOOLEAN
<1>1. cooldown' \in 0..MaxCooldown /\ cooldownStep' \in 0..FailCooldownMax /\ asked' \in Nat
  BY RestAssumption DEF ClearCooldown, TypeOK
<1>2. underway' \subseteq Callers
  BY DEF ClearCooldown, TypeOK
<1>3. erased' \in BOOLEAN
  BY DEF ClearCooldown
<1> QED
  BY <1>1, <1>2, <1>3

\* What all variables but those of the calls are.
TypeOfRest ==
  /\ truth \in [Users -> Nat] /\ \A u \in Users : truth[u] <= MaxVersion[u]
  /\ cache \in [Users -> Versions] /\ fresh \subseteq Users
  /\ leader \in [Users -> Callers \cup {None}]
  /\ cooldown \in 0..MaxCooldown
  /\ cooldownStep \in 0..FailCooldownMax
  /\ faults \in 0..MaxFaults
  /\ returned \in [Users -> Versions]
  /\ asked \in Nat /\ underway \subseteq Callers /\ erased \in BOOLEAN

\* The variables of the calls.
TypeOfCalls ==
  /\ step \in [Callers -> {"idle", "missed", "waiting", "got"} \cup Flying]
  /\ user \in [Callers -> Users \cup {None}]
  /\ \A c \in Callers : user[c] = None <=> step[c] = "idle"
  /\ seen \in [Callers -> Versions] /\ result \in [Callers -> Versions]
  /\ floor \in [Callers -> Versions]

LEMMA TypeSplit == TypeOK <=> TypeOfRest /\ TypeOfCalls
BY DEF TypeOK, TypeOfRest, TypeOfCalls

LEMMA CallsType ==
  ASSUME TypeOK, NEW c \in Callers,
         (\E u \in Users : Begin(c, u)) \/ Proceed(c) \/ Fault(c)
  PROVE  TypeOfCalls'
<1> USE DEF At, Flying, PastCheck
<1>1. step[c] # "idle" => user[c] \in Users
  BY DEF TypeOK
<1>2. CASE \E u \in Users : Begin(c, u)
  <2>1. PICK u \in Users : Begin(c, u)
    BY <1>2
  <2>2. u # None /\ cache[u] \in Versions /\ returned[u] \in Versions /\ Nothing \in Versions
    BY RestAssumption DEF TypeOK, Versions
  <2> QED
    BY <2>1, <2>2 DEF Begin, TypeOK, TypeOfCalls
<1>3. CASE Join(c) \/ Check(c) \/ Succeed(c) \/ Store(c)
  BY <1>1, <1>3, RestAssumption DEF Join, Check, Succeed, Store, TypeOK, TypeOfCalls, asking
<1>4. CASE End(c)
  <2>1. step' \in [Callers -> {"idle", "missed", "waiting", "got"} \cup Flying]
    BY <1>4 DEF End, TypeOK
  <2>2. result' \in [Callers -> Versions]
    BY <1>4 DEF End, TypeOK
  <2>3. \A d \in Callers : step'[d] = "idle" <=> step[d] = "idle"
    BY <1>4 DEF End, GetsResult
  <2> QED
    BY <1>4, <2>1, <2>2, <2>3 DEF End, TypeOK, TypeOfCalls, asking
<1>5. CASE Return(c)
  <2>1. Nothing \in Versions
    BY DEF Versions
  <2> QED
    BY <1>5, <2>1 DEF Return, TypeOK, TypeOfCalls
<1>6. CASE Answer(c)
  <2>1. truth[user[c]] \in Versions
    BY <1>1, <1>6 DEF Answer, TypeOK, Versions
  <2> QED
    BY <1>6, <2>1 DEF Answer, TypeOK, TypeOfCalls, asking
<1>7. CASE Fault(c)
  <2>1. Fail(c) /\ step[c] # "idle"
    BY <1>7 DEF Fault, Interrupted, Garbled, Refused, Broken
  <2>2. Nothing \in Versions
    BY DEF Versions
  <2> QED
    BY <2>1, <2>2 DEF Fail, TypeOK, TypeOfCalls, asking
<1> QED
  BY <1>2, <1>3, <1>4, <1>5, <1>6, <1>7 DEF Proceed

LEMMA RestType ==
  ASSUME TypeOK, NEW c \in Callers,
         (\E u \in Users : Begin(c, u)) \/ Proceed(c) \/ Fault(c)
  PROVE  TypeOfRest'
<1>1. step[c] # "idle" => user[c] \in Users
  BY DEF TypeOK
<1>2. CASE (\E u \in Users : Begin(c, u)) \/ Check(c) \/ Answer(c)
  BY <1>2 DEF Begin, Check, Answer, TypeOK, TypeOfRest, cooling
<1>3. CASE Join(c) \/ End(c)
  <2>1. leader' \in [Users -> Callers \cup {None}]
    BY <1>3 DEF Join, End, TypeOK
  <2> QED
    BY <1>3, <2>1 DEF Join, End, TypeOK, TypeOfRest, cooling
<1>4. CASE Return(c)
  <2>1. Outcome(c) \in Versions
    BY DEF Outcome, TypeOK
  <2>2. returned' \in [Users -> Versions]
    BY <1>4, <2>1 DEF Return, TypeOK
  <2> QED
    BY <1>4, <2>2 DEF Return, TypeOK, TypeOfRest, cooling
<1>5. CASE Succeed(c)
  BY <1>5, ClearCooldownType DEF Succeed, TypeOK, TypeOfRest, asking
<1>6. CASE Store(c)
  <2>1. user[c] \in Users /\ result[c] \in Versions
    BY <1>1, <1>6 DEF Store, TypeOK
  <2>2. cache' \in [Users -> Versions] /\ fresh' \subseteq Users
    BY <1>6, <2>1 DEF Store, TypeOK
  <2> QED
    BY <1>6, <2>2 DEF Store, TypeOK, TypeOfRest, asking, cooling
<1>7. CASE Fault(c)
  <2>1. /\ faults' \in 0..MaxFaults
        /\ UNCHANGED <<truth, cache, fresh, leader, returned>>
    BY <1>7, RestAssumption DEF Fault, Interrupted, Garbled, Refused, Broken, Fail, TypeOK
  <2>2. /\ cooldown' \in 0..MaxCooldown /\ cooldownStep' \in 0..FailCooldownMax
        /\ asked' \in Nat /\ underway' \subseteq Callers /\ erased' \in BOOLEAN
    <3>1. CASE Interrupted(c)
      BY <3>1 DEF Interrupted, TypeOK
    <3>4. CASE Garbled(c)
      <4>1. ClearCooldown(c)
        BY <3>4 DEF Garbled
      <4> QED
        BY <4>1, ClearCooldownType
    <3>2. CASE Refused(c)
      <4>1. PICK d \in Waits \cup {AuthCooldown} :
                   /\ cooldown' = Longer(d)
                   /\ asked' = IF d > asked THEN d ELSE asked
                   /\ erased' = (erased /\ d < asked)
        BY <3>2 DEF Refused
      <4>2. d \in Nat
        BY RestAssumption
      <4>3. cooldown' \in 0..MaxCooldown
        BY <4>1, CooldownTypes
      <4>4. asked' \in Nat
        BY <4>1, <4>2 DEF TypeOK
      <4>5. erased' \in BOOLEAN
        BY <4>1
      <4> QED
        BY <3>2, <4>3, <4>4, <4>5 DEF Refused, TypeOK
    <3>3. CASE Broken(c)
      BY <3>3, CooldownTypes DEF Broken, TypeOK
    <3> QED
      BY <1>7, <3>1, <3>2, <3>3, <3>4 DEF Fault
  <2> QED
    BY <2>1, <2>2 DEF TypeOK, TypeOfRest
<1> QED
  BY <1>2, <1>3, <1>4, <1>5, <1>6, <1>7 DEF Proceed

LEMMA TypeStep == TypeOK /\ [Next]_vars => TypeOK'
<1> SUFFICES ASSUME TypeOK, [Next]_vars PROVE TypeOK'
  OBVIOUS
<1>1. ASSUME NEW c \in Callers, (\E u \in Users : Begin(c, u)) \/ Proceed(c) \/ Fault(c)
      PROVE  TypeOK'
  BY <1>1, CallsType, RestType, TypeSplit DEF TypeOK, TypeOfRest, TypeOfCalls
<1>2. CASE Tick
  <2>1. cooldown' \in 0..MaxCooldown /\ asked' \in Nat
    <3>1. MaxCooldown \in Nat /\ cooldown \in 0..MaxCooldown /\ asked \in Nat
      BY RestAssumption DEF TypeOK
    <3>2. /\ cooldown' = IF cooldown > 0 THEN cooldown - 1 ELSE 0
          /\ asked' = IF asked > 0 THEN asked - 1 ELSE 0
      BY <1>2 DEF Tick
    <3> QED
      BY <3>1, <3>2
  <2>2. erased' \in BOOLEAN /\ underway' \subseteq Callers
    BY <1>2 DEF Tick, TypeOK
  <2> QED
    BY <1>2, <2>1, <2>2 DEF Tick, TypeOK, asking
<1>3. ASSUME NEW u \in Users, Expire(u) PROVE TypeOK'
  BY <1>3 DEF Expire, TypeOK, asking, cooling
<1>4. ASSUME NEW u \in Users, Change(u) PROVE TypeOK'
  <2>1. truth' \in [Users -> Nat] /\ \A v \in Users : truth'[v] <= MaxVersion[v]
    <3>1. truth[u] \in Nat /\ truth[u] < MaxVersion[u] /\ MaxVersion[u] \in Nat
      BY <1>4, RestAssumption DEF Change, TypeOK
    <3>2. truth[u] + 1 \in Nat /\ truth[u] + 1 <= MaxVersion[u]
      BY <3>1
    <3> QED
      BY <1>4, <3>2 DEF Change, TypeOK
  <2> QED
    BY <1>4, <2>1 DEF Change, TypeOK, asking, cooling
<1>5. CASE UNCHANGED vars
  BY <1>5 DEF vars, asking, cooling, TypeOK
<1> QED
  BY <1>1, <1>2, <1>3, <1>4, <1>5 DEF Next

LEMMA TypeInit == Init => TypeOK
<1> SUFFICES ASSUME Init PROVE TypeOK
  OBVIOUS
<1>1. Nothing \in Versions
  BY DEF Versions
<1>2. TypeOfCalls
  BY <1>1 DEF Init, TypeOfCalls
<1>3. /\ truth \in [Users -> Nat] /\ \A u \in Users : truth[u] <= MaxVersion[u]
      /\ cooldown \in 0..MaxCooldown /\ cooldownStep \in 0..FailCooldownMax
      /\ faults \in 0..MaxFaults /\ asked \in Nat
  BY RestAssumption DEF Init
<1>4. /\ cache \in [Users -> Versions] /\ fresh \subseteq Users
      /\ leader \in [Users -> Callers \cup {None}]
      /\ returned \in [Users -> Versions]
      /\ underway \subseteq Callers
  BY <1>1 DEF Init
<1>5. erased \in BOOLEAN
  BY DEF Init
<1> QED
  BY <1>2, <1>3, <1>4, <1>5, TypeSplit DEF TypeOfRest

\* Every variable keeps its type: the cooldown never exceeds the longest wait
\* and its step never exceeds discordFailCooldownMax.
THEOREM RestTypeCorrect == Spec => []TypeOK
  BY TypeInit, TypeStep, PTL DEF Spec

-----------------------------------------------------------------------------
(* One request about one user at a time *)

\* Whoever runs a call is the one singleflight has let in for the user, until
\* the call is over and not only while Discord is asked.
LeadersFly == \A c \in Callers : step[c] \in Flying => leader[user[c]] = c

LEMMA LeadersStep == TypeOK /\ LeadersFly /\ [Next]_vars => LeadersFly'
<1> SUFFICES ASSUME TypeOK, LeadersFly, [Next]_vars PROVE LeadersFly'
  OBVIOUS
<1> USE DEF Flying, PastCheck
<1>1. ASSUME NEW c \in Callers, NEW u \in Users, Begin(c, u) PROVE LeadersFly'
  BY <1>1 DEF Begin, At, LeadersFly, TypeOK
<1>2. ASSUME NEW c \in Callers, Join(c) PROVE LeadersFly'
  BY <1>2, RestAssumption DEF Join, At, LeadersFly, TypeOK, asking
<1>3. ASSUME NEW c \in Callers, End(c) PROVE LeadersFly'
  BY <1>3, RestAssumption DEF End, GetsResult, LeadersFly, TypeOK, asking
<1>4. ASSUME NEW c \in Callers, Return(c) PROVE LeadersFly'
  BY <1>4 DEF Return, At, LeadersFly, TypeOK
<1>5. ASSUME NEW c \in Callers, Check(c) \/ Answer(c) \/ Succeed(c) \/ Store(c) PROVE LeadersFly'
  BY <1>5 DEF Check, Answer, Succeed, Store, At, LeadersFly, TypeOK, asking
<1>6. ASSUME NEW c \in Callers, Fault(c) PROVE LeadersFly'
  <2>1. step[c] \in PastCheck /\ Fail(c)
    BY <1>6 DEF Fault, Interrupted, Garbled, Refused, Broken
  <2> QED
    BY <2>1 DEF Fail, At, LeadersFly, TypeOK, asking
<1>7. CASE Tick \/ \E u \in Users : Expire(u) \/ Change(u)
  BY <1>7 DEF Tick, Expire, Change, LeadersFly, asking
<1>8. CASE UNCHANGED vars
  BY <1>8 DEF vars, asking, LeadersFly
<1> QED
  BY <1>1, <1>2, <1>3, <1>4, <1>5, <1>6, <1>7, <1>8 DEF Next, Proceed

\* However many callers miss the cache together, Discord never has two requests
\* about one user at a time.
THEOREM RestOneRequest == Spec => []OneRequestPerUser
<1>1. Init => LeadersFly
  BY DEF Init, LeadersFly, Flying, PastCheck
<1>2. TypeOK /\ LeadersFly => OneRequestPerUser
  BY DEF LeadersFly, OneRequestPerUser, Flying, PastCheck
<1> QED
  BY <1>1, <1>2, TypeInit, TypeStep, LeadersStep, PTL DEF Spec

-----------------------------------------------------------------------------
(* What is read and cached never goes back *)

\* What has been returned was cached, and what is cached was true.
CacheBetween ==
  \A u \in Users : returned[u] <= cache[u] /\ cache[u] <= truth[u]

\* What a call holds: nothing older than it may return, nothing newer than the
\* cache, and until it stores its answer nothing older than that.
Holds(c) ==
  /\ floor[c] <= seen[c] /\ seen[c] <= cache[user[c]]
  /\ step[c] \in {"missed", "checking"} => result[c] = Nothing
  /\ step[c] \in {"answered", "cleared"} =>
        cache[user[c]] <= result[c] /\ result[c] <= truth[user[c]]
  /\ step[c] = "ending" => result[c] \in {Nothing, cache[user[c]]}
  /\ step[c] = "got" /\ result[c] # Nothing =>
        floor[c] <= result[c] /\ result[c] <= cache[user[c]]

ReadsInv ==
  /\ TypeOK /\ LeadersFly /\ CacheBetween
  /\ \A c \in Callers : step[c] # "idle" => Holds(c)

\* A call keeps what it holds while others do what does not concern it.
LEMMA HoldsFrame ==
  ASSUME TypeOK, NEW d \in Callers, step[d] # "idle" => Holds(d),
         step'[d] = step[d], user'[d] = user[d], seen'[d] = seen[d],
         result'[d] = result[d], floor'[d] = floor[d],
         user[d] \in Users => cache'[user[d]] = cache[user[d]],
         \A u \in Users : truth'[u] \in Nat /\ truth[u] <= truth'[u]
  PROVE  step'[d] # "idle" => Holds(d)'
<1> SUFFICES ASSUME step[d] # "idle" PROVE Holds(d)'
  OBVIOUS
<1> DEFINE u == user[d]
<1>1. u \in Users /\ Holds(d)
  BY DEF TypeOK
<1>2. cache'[u] = cache[u] /\ truth[u] <= truth'[u] /\ truth[u] \in Nat /\ truth'[u] \in Nat
  BY <1>1 DEF TypeOK
<1>3. result[d] \in Int
  BY DEF TypeOK, Versions, Nothing
<1>4. result[d] <= truth[u] => result[d] <= truth'[u]
  BY <1>2, <1>3
<1> QED
  BY <1>1, <1>2, <1>4 DEF Holds

\* The same, for the caller c that makes the step and for all others.
LEMMA HoldsAll ==
  ASSUME ReadsInv, NEW c \in Callers,
         UNCHANGED <<truth, cache>>,
         step'[c] # "idle" => Holds(c)',
         \A d \in Callers \ {c} :
            /\ step'[d] = step[d] /\ user'[d] = user[d] /\ seen'[d] = seen[d]
            /\ result'[d] = result[d] /\ floor'[d] = floor[d]
  PROVE  \A d \in Callers : step'[d] # "idle" => Holds(d)'
<1>1. \A u \in Users : truth'[u] \in Nat /\ truth[u] <= truth'[u]
  BY DEF ReadsInv, TypeOK
<1>2. ASSUME NEW d \in Callers \ {c} PROVE step'[d] # "idle" => Holds(d)'
  BY <1>1, <1>2, HoldsFrame DEF ReadsInv
<1> QED
  BY <1>2

LEMMA HeldTypes ==
  ASSUME TypeOK
  PROVE  /\ Nothing \in Versions /\ Versions \subseteq Int
         /\ \A u \in Users :
               truth[u] \in Nat /\ cache[u] \in Versions /\ returned[u] \in Versions
         /\ \A c \in Callers :
               seen[c] \in Versions /\ result[c] \in Versions /\ floor[c] \in Versions
         /\ \A c \in Callers : step[c] # "idle" => user[c] \in Users
BY DEF TypeOK, Versions, Nothing

LEMMA BeginReads ==
  ASSUME ReadsInv, NEW c \in Callers, NEW u \in Users, Begin(c, u)
  PROVE  \A d \in Callers : step'[d] # "idle" => Holds(d)'
<1>1. /\ user'[c] = u /\ seen'[c] = cache[u] /\ floor'[c] = returned[u]
      /\ \/ step'[c] = "got" /\ result'[c] = cache[u]
         \/ step'[c] = "missed" /\ result'[c] = Nothing
      /\ UNCHANGED <<truth, cache>>
  BY DEF ReadsInv, TypeOK, Begin, At
<1>2. returned[u] <= cache[u] /\ returned[u] \in Int /\ cache[u] \in Int
  BY HeldTypes DEF ReadsInv, CacheBetween
<1>3. Holds(c)'
  BY <1>1, <1>2 DEF Holds
<1> QED
  BY <1>1, <1>3, HoldsAll DEF Begin, At, ReadsInv, TypeOK

LEMMA EndReads ==
  ASSUME ReadsInv, NEW c \in Callers, End(c)
  PROVE  \A d \in Callers : step'[d] # "idle" => Holds(d)'
<1> SUFFICES ASSUME NEW d \in Callers, step'[d] # "idle" PROVE Holds(d)'
  OBVIOUS
<1>1. UNCHANGED <<truth, cache, user, seen, floor>>
  BY DEF End, asking
<1>2. step[c] = "ending" /\ Holds(c) /\ user[c] \in Users
  BY HeldTypes DEF End, ReadsInv
<1>3. CASE GetsResult(d, c)
  <2>1. user[d] = user[c] /\ step[d] # "idle" /\ Holds(d)
    BY <1>2, <1>3 DEF GetsResult, ReadsInv
  <2>2. step'[d] = "got" /\ result'[d] = result[c]
    BY <1>3 DEF End, ReadsInv, TypeOK
  <2>3. /\ floor[d] \in Int /\ seen[d] \in Int /\ cache[user[c]] \in Int
        /\ floor[d] <= seen[d] /\ seen[d] <= cache[user[c]]
    BY <1>2, <2>1, HeldTypes DEF Holds, ReadsInv
  <2>4. result[c] \in {Nothing, cache[user[c]]}
    BY <1>2 DEF Holds
  <2>5. result[c] # Nothing => floor[d] <= result[c] /\ result[c] <= cache[user[c]]
    BY <2>3, <2>4
  <2> QED
    BY <1>1, <2>1, <2>2, <2>3, <2>5 DEF Holds
<1>4. CASE ~GetsResult(d, c)
  <2>1. step'[d] = step[d] /\ result'[d] = result[d]
    BY <1>4 DEF End
  <2>2. \A u \in Users : truth'[u] \in Nat /\ truth[u] <= truth'[u]
    BY <1>1 DEF ReadsInv, TypeOK
  <2> QED
    BY <1>1, <2>1, <2>2, HoldsFrame DEF ReadsInv
<1> QED
  BY <1>3, <1>4

LEMMA StoreReads ==
  ASSUME ReadsInv, NEW c \in Callers, Store(c)
  PROVE  /\ \A d \in Callers : step'[d] # "idle" => Holds(d)'
         /\ \A u \in Users : cache[u] <= cache'[u] /\ cache'[u] <= truth[u]
<1> DEFINE u == user[c]
<1>1. /\ step[c] = "cleared" /\ Holds(c) /\ u \in Users
      /\ UNCHANGED <<truth, result, user, seen, floor>>
  BY HeldTypes DEF Store, ReadsInv, asking
<1>2. /\ cache[u] <= result[c] /\ result[c] <= truth[u] /\ result[c] \in Int
      /\ cache[u] \in Int /\ truth[u] \in Int
  BY <1>1, HeldTypes DEF Holds, ReadsInv
<1>3. cache'[u] = result[c] /\ \A v \in Users \ {u} : cache'[v] = cache[v]
  BY <1>1 DEF Store, ReadsInv, TypeOK
<1>4. step'[c] = "ending" /\ \A d \in Callers \ {c} : step'[d] = step[d]
  BY DEF Store, At, ReadsInv, TypeOK
<1>5. \A v \in Users : cache[v] <= cache'[v] /\ cache'[v] <= truth[v]
  <2>1. \A v \in Users \ {u} : cache[v] <= cache[v] /\ cache[v] <= truth[v]
    BY HeldTypes DEF ReadsInv, CacheBetween
  <2> QED
    BY <1>2, <1>3, <2>1
<1>6. ASSUME NEW d \in Callers, step[d] # "idle" PROVE Holds(d)'
  <2>1. /\ Holds(d) /\ user[d] \in Users
        /\ floor[d] \in Int /\ seen[d] \in Int /\ result[d] \in Int
        /\ cache[user[d]] \in Int /\ cache'[user[d]] \in Int
    BY <1>2, <1>3, <1>6, HeldTypes DEF ReadsInv
  <2>2. floor[d] <= seen[d] /\ seen[d] <= cache'[user[d]]
    BY <1>5, <2>1 DEF Holds
  <2>3. CASE d = c
    BY <1>1, <1>3, <1>4, <2>2, <2>3 DEF Holds
  <2>4. CASE d # c /\ user[d] = u
    <3>1. step[d] \notin Flying
      BY <1>1, <2>4 DEF ReadsInv, LeadersFly, Flying
    <3>2. step'[d] = step[d]
      BY <1>4, <2>4
    <3>3. step[d] = "got" /\ result[d] # Nothing =>
             floor[d] <= result[d] /\ result[d] <= cache'[user[d]]
      BY <1>5, <2>1 DEF Holds
    <3> QED
      BY <1>1, <2>1, <2>2, <3>1, <3>2, <3>3 DEF Holds, Flying, PastCheck
  <2>5. CASE user[d] # u
    BY <1>1, <1>3, <1>4, <2>1, <2>5 DEF Holds
  <2> QED
    BY <2>3, <2>4, <2>5
<1> QED
  BY <1>4, <1>5, <1>6, <1>1

\* The steps of one call that change neither the cache nor another call.
LEMMA OwnReads ==
  ASSUME ReadsInv, NEW c \in Callers,
         Join(c) \/ Check(c) \/ Answer(c) \/ Succeed(c) \/ Return(c) \/ Fault(c)
  PROVE  \A d \in Callers : step'[d] # "idle" => Holds(d)'
<1>1. /\ step[c] # "idle" /\ Holds(c) /\ user[c] \in Users
      /\ UNCHANGED <<truth, cache>>
      /\ \A d \in Callers \ {c} :
            /\ step'[d] = step[d] /\ user'[d] = user[d] /\ seen'[d] = seen[d]
            /\ result'[d] = result[d] /\ floor'[d] = floor[d]
  BY HeldTypes DEF ReadsInv, TypeOK, Join, Check, Answer, Succeed, Return, Fault, Interrupted,
     Garbled, Refused, Broken, Fail, At, asking
<1>2. CASE Join(c) \/ Check(c) \/ Succeed(c)
  <2>1. /\ UNCHANGED <<user, seen, result, floor>>
        /\ \/ step[c] = "missed" /\ step'[c] \in {"checking", "waiting"}
           \/ step[c] = "checking" /\ step'[c] \in {"ending", "sent"}
           \/ step[c] = "answered" /\ step'[c] = "cleared"
    BY <1>2 DEF ReadsInv, TypeOK, Join, Check, Succeed, At, asking
  <2>2. Holds(c)'
    BY <1>1, <2>1 DEF Holds
  <2> QED
    BY <1>1, <2>2, HoldsAll
<1>3. CASE Answer(c)
  <2>1. /\ UNCHANGED <<user, seen, floor>> /\ step'[c] = "answered"
        /\ result'[c] = truth[user[c]]
    BY <1>3 DEF ReadsInv, TypeOK, Answer, At, asking
  <2>2. cache[user[c]] <= truth[user[c]] /\ truth[user[c]] <= truth[user[c]]
    BY <1>1, HeldTypes DEF ReadsInv, CacheBetween
  <2>3. Holds(c)'
    BY <1>1, <2>1, <2>2 DEF Holds
  <2> QED
    BY <1>1, <2>3, HoldsAll
<1>4. CASE Return(c)
  <2>1. step'[c] = "idle"
    BY <1>4 DEF Return, At, ReadsInv, TypeOK
  <2> QED
    BY <1>1, <2>1, HoldsAll
<1>5. CASE Fault(c)
  <2>1. Fail(c)
    BY <1>5 DEF Fault, Interrupted, Garbled, Refused, Broken
  <2>2. UNCHANGED <<user, seen, floor>> /\ step'[c] = "ending" /\ result'[c] = Nothing
    BY <2>1 DEF Fail, At, ReadsInv, TypeOK, asking
  <2>3. Holds(c)'
    BY <1>1, <2>2 DEF Holds
  <2> QED
    BY <1>1, <2>3, HoldsAll
<1> QED
  BY <1>2, <1>3, <1>4, <1>5

\* What has been returned stays within what is cached.
LEMMA ReturnedCached ==
  ASSUME ReadsInv, NEW c \in Callers, Return(c)
  PROVE  CacheBetween'
<1> DEFINE u == user[c]
<1>1. step[c] = "got" /\ Holds(c) /\ u \in Users /\ UNCHANGED <<truth, cache>>
  BY HeldTypes DEF Return, ReadsInv
<1>2. Outcome(c) \in Int /\ Outcome(c) <= cache[u]
  BY <1>1, HeldTypes DEF Holds, Outcome, ReadsInv
<1>3. returned'[u] <= cache[u]
  <2>1. returned'[u] \in {Outcome(c), returned[u]}
    BY <1>1 DEF Return, ReadsInv, TypeOK
  <2> QED
    BY <1>1, <1>2, <2>1 DEF ReadsInv, CacheBetween
<1>4. \A v \in Users \ {u} : returned'[v] = returned[v]
  BY DEF Return, ReadsInv, TypeOK
<1> QED
  BY <1>1, <1>3, <1>4 DEF CacheBetween, ReadsInv

LEMMA ReadsStep ==
  ASSUME ReadsInv, [Next]_vars
  PROVE  ReadsInv' /\ \A u \in Users : cache'[u] >= cache[u]
<1>1. TypeOK' /\ LeadersFly'
  BY TypeStep, LeadersStep DEF ReadsInv
<1> DEFINE Kept == CacheBetween' /\ \A u \in Users : cache'[u] >= cache[u]
           Held == \A d \in Callers : step'[d] # "idle" => Holds(d)'
<1>2. ASSUME UNCHANGED cache, UNCHANGED returned,
             \A u \in Users : truth'[u] \in Nat /\ truth[u] <= truth'[u]
      PROVE  Kept
  <2>1. ASSUME NEW u \in Users
        PROVE  /\ returned'[u] <= cache'[u] /\ cache'[u] <= truth'[u]
               /\ cache'[u] >= cache[u]
    <3>1. cache[u] \in Int /\ truth[u] \in Int /\ truth'[u] \in Int
          /\ truth[u] <= truth'[u] /\ cache[u] <= truth[u] /\ returned[u] <= cache[u]
      BY <1>2, HeldTypes DEF ReadsInv, CacheBetween
    <3> QED
      BY <1>2, <3>1
  <2> QED
    BY <2>1 DEF CacheBetween
<1>3. \A u \in Users : truth[u] \in Nat /\ cache[u] \in Int /\ cache[u] >= cache[u]
  BY HeldTypes DEF ReadsInv
<1>4. ASSUME NEW c \in Callers, NEW u \in Users, Begin(c, u) PROVE Held /\ Kept
  <2>1. UNCHANGED <<truth, cache, returned>>
    BY <1>4 DEF Begin
  <2> QED
    BY <1>2, <1>3, <1>4, <2>1, BeginReads
<1>5. ASSUME NEW c \in Callers,
             Join(c) \/ Check(c) \/ Answer(c) \/ Succeed(c) \/ Fault(c)
      PROVE  Held /\ Kept
  <2>1. UNCHANGED <<truth, cache, returned>>
    BY <1>5 DEF Join, Check, Answer, Succeed, Fault, Interrupted, Garbled, Refused, Broken, Fail
  <2> QED
    BY <1>2, <1>3, <1>5, <2>1, OwnReads
<1>6. ASSUME NEW c \in Callers, End(c) PROVE Held /\ Kept
  <2>1. UNCHANGED <<truth, cache, returned>>
    BY <1>6 DEF End
  <2> QED
    BY <1>2, <1>3, <1>6, <2>1, EndReads
<1>7. ASSUME NEW c \in Callers, Return(c) PROVE Held /\ Kept
  <2>1. UNCHANGED cache
    BY <1>7 DEF Return
  <2> QED
    BY <1>3, <1>7, <2>1, OwnReads, ReturnedCached
<1>8. ASSUME NEW c \in Callers, Store(c) PROVE Held /\ Kept
  <2>1. UNCHANGED <<truth, returned>>
    BY <1>8 DEF Store
  <2>2. \A u \in Users : cache[u] <= cache'[u] /\ cache'[u] <= truth[u]
    BY <1>8, StoreReads
  <2>3. \A u \in Users : cache'[u] \in Int /\ returned[u] \in Int /\ returned[u] <= cache[u]
    BY <1>1, HeldTypes DEF ReadsInv, CacheBetween, TypeOK, Versions, Nothing
  <2>4. Kept
    BY <1>3, <2>1, <2>2, <2>3 DEF CacheBetween
  <2> QED
    BY <1>8, <2>4, StoreReads
<1>9. ASSUME Tick \/ (\E u \in Users : Expire(u) \/ Change(u)) \/ UNCHANGED vars
      PROVE  Held /\ Kept
  <2>1. UNCHANGED <<cache, returned, step, user, seen, result, floor>>
    BY <1>9 DEF Tick, Expire, Change, vars, asking
  <2>2. \A u \in Users : truth'[u] \in Nat /\ truth[u] <= truth'[u]
    <3>1. CASE UNCHANGED truth
      BY <1>3, <3>1
    <3>2. ASSUME NEW v \in Users, Change(v)
          PROVE  \A u \in Users : truth'[u] \in Nat /\ truth[u] <= truth'[u]
      <4>1. \A u \in Users : truth'[u] = IF u = v THEN truth[u] + 1 ELSE truth[u]
        BY <3>2 DEF Change, ReadsInv, TypeOK
      <4> QED
        BY <1>3, <4>1
    <3> QED
      BY <1>9, <3>1, <3>2 DEF Tick, Expire, vars
  <2>3. Held
    BY <2>1, <2>2, HoldsFrame DEF ReadsInv
  <2> QED
    BY <1>2, <2>1, <2>2, <2>3
<1>10. Held /\ Kept
  BY <1>4, <1>5, <1>6, <1>7, <1>8, <1>9 DEF Next, Proceed
<1> QED
  BY <1>1, <1>10 DEF ReadsInv

LEMMA ReadsInit == Init => ReadsInv
<1> SUFFICES ASSUME Init PROVE ReadsInv
  OBVIOUS
<1>1. TypeOK
  BY TypeInit
<1>2. LeadersFly
  BY DEF Init, LeadersFly, Flying, PastCheck
<1>3. CacheBetween
  BY DEF Init, CacheBetween, Nothing
<1> QED
  BY <1>1, <1>2, <1>3 DEF Init, ReadsInv

\* No caller is ever given something older than what a call that was over
\* before it began has returned, whichever of the cache, the shared call and
\* the expired entry it comes from.
THEOREM RestReadsForward == Spec => []ReadsForward
<1>1. ReadsInv => ReadsForward
  <2> SUFFICES ASSUME ReadsInv, NEW c \in Callers, step[c] = "got", Outcome(c) # Nothing
               PROVE  Outcome(c) >= floor[c]
    BY DEF ReadsForward
  <2>1. Holds(c) /\ seen[c] \in Int /\ result[c] \in Int /\ floor[c] \in Int
    BY HeldTypes DEF ReadsInv
  <2> QED
    BY <2>1 DEF Holds, Outcome
<1>2. ReadsInv /\ [Next]_vars => ReadsInv'
  BY ReadsStep
<1> QED
  BY <1>1, <1>2, ReadsInit, PTL DEF Spec

\* An answer never replaces a newer one in the cache.
THEOREM RestCacheForward == Spec => CacheForward
<1>1. ReadsInv /\ [Next]_vars => ReadsInv'
  BY ReadsStep
<1>2. ReadsInv /\ [Next]_vars => [\A u \in Users : cache'[u] >= cache[u]]_vars
  BY ReadsStep
<1> QED
  BY <1>1, <1>2, ReadsInit, PTL DEF Spec, CacheForward

-----------------------------------------------------------------------------
(* The promise *)

Bar == [c \in Callers |-> CallView(c)]

\* An answer lies between what had been returned when the call began and the truth.
LEMMA OutcomeBetween ==
  ASSUME ReadsInv, NEW c \in Callers, step[c] = "got"
  PROVE  Outcome(c) \in floor[c]..truth[user[c]]
<1>1. /\ Holds(c) /\ user[c] \in Users
      /\ seen[c] \in Int /\ result[c] \in Int /\ floor[c] \in Int
      /\ cache[user[c]] \in Int /\ truth[user[c]] \in Int /\ cache[user[c]] <= truth[user[c]]
  BY HeldTypes DEF ReadsInv, CacheBetween
<1> QED
  BY <1>1 DEF Holds, Outcome

\* The same, after a step.
LEMMA OutcomeBetweenNext ==
  ASSUME ReadsInv', NEW c \in Callers, step'[c] = "got"
  PROVE  Outcome(c)' \in floor'[c]..truth'[user'[c]]
<1>1. /\ Holds(c)' /\ user'[c] \in Users
      /\ seen'[c] \in Int /\ result'[c] \in Int /\ floor'[c] \in Int
      /\ cache'[user'[c]] \in Int /\ truth'[user'[c]] \in Int /\ cache'[user'[c]] <= truth'[user'[c]]
  BY DEF ReadsInv, CacheBetween, TypeOK, Versions, Nothing
<1> QED
  BY <1>1 DEF Holds, Outcome

\* What a caller sees, by the step it is at.
LEMMA SeenNow ==
  ASSUME NEW c \in Callers
  PROVE  /\ Bar[c] = CallView(c) /\ Bar'[c] = CallView(c)'
         /\ step[c] \notin {"idle", "got"} =>
              CallView(c) = [step |-> "asking", user |-> user[c], floor |-> floor[c], answer |-> Nothing]
         /\ step[c] = "got" =>
              CallView(c) = [step |-> "answered", user |-> user[c], floor |-> floor[c], answer |-> Outcome(c)]
         /\ step[c] = "idle" =>
              CallView(c) = [step |-> "idle", user |-> user[c], floor |-> floor[c], answer |-> Nothing]
BY DEF Bar, CallView

LEMMA SeenNext ==
  ASSUME NEW c \in Callers
  PROVE  /\ step'[c] \notin {"idle", "got"} =>
              CallView(c)' = [step |-> "asking", user |-> user'[c], floor |-> floor'[c], answer |-> Nothing]
         /\ step'[c] = "got" =>
              CallView(c)' = [step |-> "answered", user |-> user'[c], floor |-> floor'[c], answer |-> Outcome(c)']
         /\ step'[c] = "idle" =>
              CallView(c)' = [step |-> "idle", user |-> user'[c], floor |-> floor'[c], answer |-> Nothing]
BY DEF CallView, Nothing

\* A caller whose call is not touched sees the same.
LEMMA SeenKept ==
  ASSUME NEW c \in Callers,
         step'[c] = step[c] \/ (step[c] \notin {"idle", "got"} /\ step'[c] \notin {"idle", "got"}),
         user'[c] = user[c], floor'[c] = floor[c],
         step[c] = "got" => result'[c] = result[c] /\ seen'[c] = seen[c]
  PROVE  CallView(c)' = CallView(c)
<1>1. step[c] = "got" => Outcome(c)' = Outcome(c)
  BY DEF Outcome, Nothing
<1> QED
  BY <1>1, SeenNow, SeenNext

\* Nobody but callers at rest have no floor.
RestInv == \A c \in Callers : step[c] = "idle" => user[c] = None /\ floor[c] = Nothing

LEMMA RestStep == TypeOK /\ RestInv /\ [Next]_vars => RestInv'
<1> SUFFICES ASSUME TypeOK, RestInv, [Next]_vars, NEW d \in Callers, step'[d] = "idle"
             PROVE  user'[d] = None /\ floor'[d] = Nothing
  BY DEF RestInv
<1> USE DEF TypeOK, RestInv
<1>1. ASSUME NEW c \in Callers, NEW u \in Users, Begin(c, u)
      PROVE  user'[d] = None /\ floor'[d] = Nothing
  <2>1. c # d /\ step'[d] = step[d] /\ user'[d] = user[d] /\ floor'[d] = floor[d]
    BY <1>1 DEF Begin, At
  <2> QED
    BY <2>1
<1>2. ASSUME NEW c \in Callers, Return(c)
      PROVE  user'[d] = None /\ floor'[d] = Nothing
  BY <1>2 DEF Return, At
<1>3. ASSUME NEW c \in Callers, End(c)
      PROVE  user'[d] = None /\ floor'[d] = Nothing
  BY <1>3 DEF End, asking, GetsResult
<1>4. ASSUME NEW c \in Callers, Join(c) \/ Check(c) \/ Answer(c) \/ Succeed(c) \/ Store(c) \/ Fault(c)
      PROVE  user'[d] = None /\ floor'[d] = Nothing
  <2>1. UNCHANGED <<user, floor>> /\ step'[d] = "idle" => step[d] = "idle"
    BY <1>4 DEF Join, Check, Answer, Succeed, Store, Fault, Interrupted, Garbled, Refused, Broken,
       Fail, At, asking
  <2>2. UNCHANGED <<user, floor>>
    BY <1>4 DEF Join, Check, Answer, Succeed, Store, Fault, Interrupted, Garbled, Refused, Broken,
       Fail, asking
  <2> QED
    BY <2>1, <2>2
<1>5. CASE Tick \/ (\E u \in Users : Expire(u) \/ Change(u)) \/ UNCHANGED vars
  BY <1>5 DEF Tick, Expire, Change, vars, asking
<1> QED
  BY <1>1, <1>2, <1>3, <1>4, <1>5 DEF Next, Proceed

LEMMA AnswerAllowed ==
  ASSUME NEW u, NEW from, NEW version \in from..truth[u]
  PROVE  [step |-> "answered", user |-> u, floor |-> from, answer |-> version]
           \in Reads!Answered([step |-> "asking", user |-> u, floor |-> from, answer |-> Nothing])
BY DEF Reads!Answered

LEMMA BeginPromised ==
  ASSUME ReadsInv, ReadsInv', RestInv, NEW c \in Callers, NEW u \in Users, Begin(c, u)
  PROVE  Reads!Ask(c, u)
<1>1. /\ step[c] = "idle" /\ user'[c] = u /\ floor'[c] = returned[u] /\ truth' = truth
      /\ returned' = returned /\ step'[c] \in {"got", "missed"}
      /\ \A d \in Callers \ {c} : /\ step'[d] = step[d] /\ user'[d] = user[d] /\ floor'[d] = floor[d]
                                  /\ result'[d] = result[d] /\ seen'[d] = seen[d]
  BY DEF Begin, At, ReadsInv, TypeOK
<1>2. \A d \in Callers \ {c} : Bar'[d] = Bar[d]
  BY <1>1, SeenKept, SeenNow
<1>3. Bar[c] = Reads!Idle
  BY <1>1, SeenNow DEF RestInv, Reads!Idle, Reads!Nothing, Nothing
<1> DEFINE q == [step |-> "asking", user |-> u, floor |-> returned[u], answer |-> Nothing]
<1>4. Reads!Question(u) = q
  BY DEF Reads!Question, Reads!Nothing, Nothing
<1>5. Bar'[c] \in {q} \cup Reads!Answered(q)
  <2>1. CASE step'[c] = "missed"
    BY <1>1, <2>1, SeenNow, SeenNext
  <2>2. CASE step'[c] = "got"
    <3>1. Outcome(c)' \in returned[u]..truth[u]
      BY <1>1, <2>2, OutcomeBetweenNext
    <3>2. CallView(c)' = [step |-> "answered", user |-> u, floor |-> returned[u], answer |-> Outcome(c)']
      BY <1>1, <2>2, SeenNext
    <3>3. CallView(c)' \in Reads!Answered(q)
      BY <3>1, <3>2, AnswerAllowed
    <3> QED
      BY <3>3, SeenNow
  <2> QED
    BY <1>1, <2>1, <2>2
<1> HIDE DEF q
<1>6. Bar' = [Bar EXCEPT ![c] = Bar'[c]]
  BY <1>2 DEF Bar
<1> QED
  BY <1>1, <1>3, <1>4, <1>5, <1>6 DEF Reads!Ask, Bar

LEMMA EndPromised ==
  ASSUME ReadsInv, ReadsInv', NEW c \in Callers, End(c)
  PROVE  Reads!Give
<1>1. UNCHANGED <<truth, returned, user, seen, floor>> /\ step[c] = "ending"
  BY DEF End, asking
<1>2. ASSUME NEW d \in Callers
      PROVE  \/ Bar'[d] = Bar[d]
             \/ Bar[d].step = "asking" /\ Bar'[d] \in Reads!Answered(Bar[d])
  <2>1. CASE GetsResult(d, c)
    <3>1. step[d] \in {"ending", "waiting"} /\ step'[d] = "got"
      BY <1>1, <2>1 DEF GetsResult, End
    <3> DEFINE q == [step |-> "asking", user |-> user[d], floor |-> floor[d], answer |-> Nothing]
    <3>2. Bar[d] = q
      BY <3>1, SeenNow
    <3>3. Outcome(d)' \in floor[d]..truth[user[d]]
      BY <1>1, <3>1, OutcomeBetweenNext
    <3>4. Bar'[d] = [step |-> "answered", user |-> user[d], floor |-> floor[d], answer |-> Outcome(d)']
      BY <1>1, <3>1, SeenNow, SeenNext
    <3>5. Bar'[d] \in Reads!Answered(q)
      BY <3>3, <3>4, AnswerAllowed
    <3>6. q.step = "asking"
      OBVIOUS
    <3> QED
      BY <3>2, <3>5, <3>6
  <2>2. CASE ~GetsResult(d, c)
    <3>1. step'[d] = step[d] /\ result'[d] = result[d]
      BY <2>2 DEF End
    <3> QED
      BY <1>1, <3>1, SeenKept, SeenNow
  <2> QED
    BY <2>1, <2>2
<1> QED
  BY <1>1, <1>2 DEF Reads!Give, Bar

LEMMA ReturnPromised ==
  ASSUME ReadsInv, RestInv', NEW c \in Callers, Return(c)
  PROVE  Reads!Take(c)
<1>1. /\ step[c] = "got" /\ step'[c] = "idle" /\ truth' = truth
      /\ returned' = [returned EXCEPT ![user[c]] = IF Outcome(c) > @ THEN Outcome(c) ELSE @]
      /\ \A d \in Callers \ {c} : /\ step'[d] = step[d] /\ user'[d] = user[d] /\ floor'[d] = floor[d]
                                  /\ result'[d] = result[d] /\ seen'[d] = seen[d]
  BY DEF Return, At, ReadsInv, TypeOK
<1>2. \A d \in Callers \ {c} : Bar'[d] = Bar[d]
  BY <1>1, SeenKept, SeenNow
<1>3. Bar[c].step = "answered" /\ Bar[c].user = user[c] /\ Bar[c].answer = Outcome(c)
  BY <1>1, SeenNow
<1>4. Bar'[c] = Reads!Idle
  BY <1>1, SeenNow, SeenNext DEF RestInv, Reads!Idle, Reads!Nothing, Nothing
<1>5. Bar' = [Bar EXCEPT ![c] = Reads!Idle]
  BY <1>2, <1>4 DEF Bar
<1> QED
  BY <1>1, <1>3, <1>5 DEF Reads!Take, Bar

LEMMA PromisedStep ==
  ASSUME ReadsInv, RestInv, [Next]_vars
  PROVE  ReadsInv' /\ RestInv' /\ (Reads!Next \/ UNCHANGED <<truth, returned, Bar>>)
<1>1. ReadsInv' /\ RestInv'
  BY ReadsStep, RestStep DEF ReadsInv
<1>2. CASE UNCHANGED <<truth, returned>> /\ \A d \in Callers : CallView(d)' = CallView(d)
  <2>1. Bar' = Bar
    BY <1>2 DEF Bar
  <2> QED
    BY <1>1, <1>2, <2>1
<1>3. ASSUME NEW c \in Callers, NEW u \in Users, Begin(c, u) PROVE Reads!Next
  BY <1>1, <1>3, BeginPromised DEF Reads!Next
<1>4. ASSUME NEW c \in Callers, End(c) PROVE Reads!Next
  BY <1>1, <1>4, EndPromised DEF Reads!Next
<1>5. ASSUME NEW c \in Callers, Return(c) PROVE Reads!Next
  BY <1>1, <1>5, ReturnPromised DEF Reads!Next
<1>6. ASSUME NEW c \in Callers, Join(c) \/ Check(c) \/ Answer(c) \/ Succeed(c) \/ Store(c) \/ Fault(c),
             NEW d \in Callers
      PROVE  UNCHANGED <<truth, returned>> /\ CallView(d)' = CallView(d)
  <2>1. /\ UNCHANGED <<truth, returned, user, floor, seen>>
        /\ d # c => step'[d] = step[d] /\ result'[d] = result[d]
    BY <1>6 DEF Join, Check, Answer, Succeed, Store, Fault, Interrupted, Garbled, Refused, Broken,
       Fail, At, asking, ReadsInv, TypeOK
  <2>2. step[c] \notin {"idle", "got"} /\ step'[c] \notin {"idle", "got"}
    BY <1>6 DEF Join, Check, Answer, Succeed, Store, Fault, Interrupted, Garbled, Refused, Broken,
       Fail, At, ReadsInv, TypeOK
  <2> QED
    BY <2>1, <2>2, SeenKept
<1>7. CASE Tick \/ (\E u \in Users : Expire(u)) \/ UNCHANGED vars
  <2>1. UNCHANGED <<truth, returned, step, user, seen, result, floor>>
    BY <1>7 DEF Tick, Expire, vars, asking
  <2> QED
    BY <1>2, <2>1, SeenKept
<1>8. ASSUME NEW u \in Users, Change(u) PROVE Reads!Next
  <2>1. UNCHANGED <<returned, step, user, seen, result, floor>> /\ truth' = [truth EXCEPT ![u] = @ + 1]
    BY <1>8 DEF Change, asking
  <2>2. Bar' = Bar
    BY <2>1, SeenKept DEF Bar
  <2>3. Reads!Change(u)
    BY <2>1, <2>2 DEF Reads!Change, Bar
  <2> QED
    BY <2>3 DEF Reads!Next
<1> QED
  BY <1>1, <1>2, <1>3, <1>4, <1>5, <1>6, <1>7, <1>8 DEF Next, Proceed

\* Lookups implement RoleReads, for any number of callers and users: no answer is older
\* than what anybody had got before the question, none newer than the truth, and once a
\* user was answered nobody gets an error, whatever fails and whatever is expired.
THEOREM RestReadsPromised == Spec => ReadsPromised
<1>1. Init => ReadsInv /\ RestInv
  BY ReadsInit DEF Init, RestInv
<1>2. Init => Reads!Init
  <2> SUFFICES ASSUME Init PROVE Reads!Init
    OBVIOUS
  <2>1. \A c \in Callers : CallView(c) = Reads!Idle
    BY SeenNow DEF Init, Reads!Idle, Reads!Nothing, Nothing
  <2> QED
    BY <2>1 DEF Init, Reads!Init, Reads!Nothing, Nothing
<1>3. ReadsInv /\ RestInv /\ [Next]_vars =>
        ReadsInv' /\ RestInv' /\ [Reads!Next]_<<truth, returned, [c \in Callers |-> CallView(c)]>>
  BY PromisedStep DEF Bar
<1> QED
  BY <1>1, <1>2, <1>3, PTL DEF Spec, ReadsPromised, Reads!Spec

-----------------------------------------------------------------------------
(* The wait Discord asks for *)

\* While a wait is not cut short, the calls past the check are those that were
\* past it when Discord asked: the check stops all others.
WaitInv ==
  asked > 0 /\ ~erased =>
    /\ cooldown >= asked
    /\ \A c \in Callers : step[c] \in PastCheck => c \in underway

LEMMA WaitStep == TypeOK /\ WaitInv /\ [Next]_vars => WaitInv'
<1> SUFFICES ASSUME TypeOK, WaitInv, [Next]_vars PROVE WaitInv'
  OBVIOUS
<1> USE DEF PastCheck
<1>1. cooldown \in Nat /\ asked \in Nat /\ erased \in BOOLEAN
  BY RestAssumption DEF TypeOK
<1>2. ASSUME NEW c \in Callers, (\E u \in Users : Begin(c, u)) \/ Join(c) \/ Return(c) \/ Store(c)
      PROVE  WaitInv'
  <2>1. UNCHANGED cooling /\ \A d \in Callers : step'[d] \in PastCheck => step[d] \in PastCheck
    BY <1>2 DEF Begin, Join, Return, Store, At, TypeOK
  <2> QED
    BY <2>1 DEF WaitInv, cooling
<1>3. ASSUME NEW c \in Callers, End(c) PROVE WaitInv'
  <2>1. UNCHANGED cooling /\ \A d \in Callers : step'[d] \in PastCheck => step[d] \in PastCheck
    BY <1>3 DEF End, TypeOK
  <2> QED
    BY <2>1 DEF WaitInv, cooling
<1>4. ASSUME NEW c \in Callers, Check(c) PROVE WaitInv'
  <2>1. CASE InCooldown
    <3>1. UNCHANGED cooling /\ \A d \in Callers : step'[d] \in PastCheck => step[d] \in PastCheck
      BY <1>4, <2>1 DEF Check, At, TypeOK
    <3> QED
      BY <3>1 DEF WaitInv, cooling
  <2>2. CASE ~InCooldown
    <3>1. ~(asked > 0 /\ ~erased)
      BY <1>1, <2>2 DEF InCooldown, WaitInv
    <3>2. UNCHANGED <<asked, erased>>
      BY <1>4 DEF Check, cooling
    <3> QED
      BY <3>1, <3>2 DEF WaitInv
  <2> QED
    BY <2>1, <2>2
<1>5. ASSUME NEW c \in Callers, Answer(c) PROVE WaitInv'
  <2>1. UNCHANGED cooling /\ \A d \in Callers : step'[d] \in PastCheck => step[d] \in PastCheck
    BY <1>5 DEF Answer, At, TypeOK
  <2> QED
    BY <2>1 DEF WaitInv, cooling
<1>6. ASSUME NEW c \in Callers, Succeed(c) \/ Garbled(c) PROVE WaitInv'
  <2>1. ClearCooldown(c) /\ step[c] \in PastCheck
    BY <1>6 DEF Succeed, Garbled
  <2>2. ~(asked' > 0 /\ ~erased')
    BY <1>1, <2>1 DEF ClearCooldown, WaitInv
  <2> QED
    BY <2>2 DEF WaitInv
<1>7. ASSUME NEW c \in Callers, Interrupted(c) \/ Broken(c) PROVE WaitInv'
  <2>1. /\ cooldown' >= cooldown /\ cooldown' \in Nat
        /\ UNCHANGED <<asked, erased>> /\ underway' = underway \ {c}
    <3>1. CASE Interrupted(c)
      BY <1>1, <3>1 DEF Interrupted
    <3>2. CASE Broken(c)
      BY <1>1, <3>2, RestAssumption, CooldownTypes DEF Broken
    <3> QED
      BY <1>7, <3>1, <3>2
  <2>2. Fail(c)
    BY <1>7 DEF Interrupted, Broken
  <2>3. step'[c] \notin PastCheck /\ \A d \in Callers \ {c} : step'[d] = step[d]
    BY <2>2 DEF Fail, At, TypeOK
  <2>4. asked > 0 /\ ~erased => cooldown' >= asked
    BY <1>1, <2>1 DEF WaitInv
  <2> QED
    BY <2>1, <2>3, <2>4 DEF WaitInv
<1>8. ASSUME NEW c \in Callers, Refused(c) PROVE WaitInv'
  <2>1. PICK d \in Waits \cup {AuthCooldown} :
               /\ cooldown' = Longer(d)
               /\ asked' = IF d > asked THEN d ELSE asked
               /\ erased' = (erased /\ d < asked)
    BY <1>8 DEF Refused
  <2>2. d \in Nat /\ Longer(d) \in Nat /\ d <= Longer(d) /\ cooldown <= Longer(d)
    BY RestAssumption, CooldownTypes
  <2>3. asked > 0 /\ ~erased => cooldown >= asked
    BY DEF WaitInv
  <2>4. ~erased' => cooldown' >= asked'
    <3>1. CASE d >= asked
      BY <1>1, <2>1, <2>2, <3>1
    <3>2. CASE d < asked
      <4>1. asked > 0 /\ asked' = asked /\ cooldown' >= cooldown
        BY <1>1, <2>1, <2>2, <3>2
      <4>2. erased' <=> erased
        BY <2>1, <3>2
      <4>3. CASE ~erased
        BY <1>1, <2>1, <2>2, <2>3, <4>1, <4>3
      <4> QED
        BY <4>2, <4>3
    <3> QED
      BY <1>1, <2>2, <3>1, <3>2
  <2>5. Fail(c) /\ underway' = {e \in Callers \ {c} : step[e] \in PastCheck}
    BY <1>8 DEF Refused
  <2>6. step'[c] \notin PastCheck /\ \A e \in Callers \ {c} : step'[e] = step[e]
    BY <2>5 DEF Fail, At, TypeOK
  <2>7. \A e \in Callers : step'[e] \in PastCheck => e \in underway'
    BY <2>5, <2>6
  <2> QED
    BY <2>4, <2>7 DEF WaitInv
<1>9. CASE Tick
  <2>1. /\ cooldown' = IF cooldown > 0 THEN cooldown - 1 ELSE 0
        /\ asked' = IF asked > 0 THEN asked - 1 ELSE 0
        /\ underway' = IF asked' = 0 THEN {} ELSE underway
        /\ step' = step
    BY <1>9 DEF Tick
  <2>2. erased' <=> erased /\ asked' > 0
    BY <1>9 DEF Tick
  <2>3. asked' > 0 /\ cooldown >= asked => cooldown' >= asked' /\ asked > 0
    BY <1>1, <2>1
  <2>4. asked' > 0 => underway' = underway /\ asked > 0
    BY <1>1, <2>1
  <2> QED
    BY <2>1, <2>2, <2>3, <2>4 DEF WaitInv
<1>10. CASE (\E u \in Users : Expire(u) \/ Change(u)) \/ UNCHANGED vars
  <2>1. UNCHANGED cooling /\ step' = step
    BY <1>10 DEF Expire, Change, vars
  <2> QED
    BY <2>1 DEF WaitInv, cooling
<1> QED
  BY <1>2, <1>3, <1>4, <1>5, <1>6, <1>7, <1>8, <1>9, <1>10 DEF Next, Proceed, Fault

\* A wait Discord asked for is cut short by nothing but the success of a request
\* that was already under way.
THEOREM RestCooldownHolds == Spec => []CooldownHolds
<1>1. Init => WaitInv
  BY DEF Init, WaitInv
<1>2. TypeOK /\ WaitInv => CooldownHolds
  BY DEF WaitInv, CooldownHolds
<1> QED
  BY <1>1, <1>2, TypeInit, TypeStep, WaitStep, PTL DEF Spec

-----------------------------------------------------------------------------
(* What Recovers rests on *)

\* Who leads the call for a user is in it, and who waits has somebody to wait for.
LeadersLead ==
  \A u \in Users : leader[u] # None => step[leader[u]] \in Flying /\ user[leader[u]] = u

WaitersWait == \A c \in Callers : step[c] = "waiting" => leader[user[c]] # None

LedInv == LeadersFly /\ LeadersLead /\ WaitersWait

LEMMA LedStep == TypeOK /\ LedInv /\ [Next]_vars => LedInv'
<1> SUFFICES ASSUME TypeOK, LedInv, [Next]_vars PROVE LeadersLead' /\ WaitersWait'
  BY LeadersStep DEF LedInv
<1> USE DEF Flying, PastCheck, LedInv
<1>1. ASSUME NEW c \in Callers, NEW u \in Users, Begin(c, u) PROVE LeadersLead' /\ WaitersWait'
  BY <1>1, RestAssumption DEF Begin, At, LeadersLead, WaitersWait, TypeOK
<1>2. ASSUME NEW c \in Callers, Join(c) PROVE LeadersLead' /\ WaitersWait'
  BY <1>2, RestAssumption DEF Join, At, LeadersLead, WaitersWait, TypeOK, asking
<1>3. ASSUME NEW c \in Callers, End(c) PROVE LeadersLead' /\ WaitersWait'
  <2>1. leader[user[c]] = c /\ user[c] \in Users
    BY <1>3, RestAssumption DEF End, LeadersFly, TypeOK
  <2>2. LeadersLead'
    BY <1>3, <2>1, RestAssumption DEF End, GetsResult, LeadersLead, TypeOK, asking
  <2>3. WaitersWait'
    BY <1>3, <2>1, RestAssumption DEF End, GetsResult, WaitersWait, TypeOK, asking
  <2> QED
    BY <2>2, <2>3
<1>4. ASSUME NEW c \in Callers, Return(c) PROVE LeadersLead' /\ WaitersWait'
  BY <1>4, RestAssumption DEF Return, At, LeadersLead, WaitersWait, TypeOK
<1>5. ASSUME NEW c \in Callers, Check(c) \/ Answer(c) \/ Succeed(c) \/ Store(c)
      PROVE  LeadersLead' /\ WaitersWait'
  BY <1>5, RestAssumption DEF Check, Answer, Succeed, Store, At, LeadersLead, WaitersWait, TypeOK, asking
<1>6. ASSUME NEW c \in Callers, Fault(c) PROVE LeadersLead' /\ WaitersWait'
  <2>1. step[c] \in PastCheck /\ Fail(c)
    BY <1>6 DEF Fault, Interrupted, Garbled, Refused, Broken
  <2> QED
    BY <2>1, RestAssumption DEF Fail, At, LeadersLead, WaitersWait, TypeOK, asking
<1>7. CASE Tick \/ \E u \in Users : Expire(u) \/ Change(u)
  BY <1>7 DEF Tick, Expire, Change, LeadersLead, WaitersWait, asking
<1>8. CASE UNCHANGED vars
  BY <1>8 DEF vars, asking, LeadersLead, WaitersWait
<1> QED
  BY <1>1, <1>2, <1>3, <1>4, <1>5, <1>6, <1>7, <1>8 DEF Next, Proceed

\* Nobody waits for a call that is over: whoever joined one has a caller in it, for the
\* same user, from the moment of joining until the result is handed out.
THEOREM RestWaitersLed ==
  Spec => [](\A c \in Callers : step[c] = "waiting" =>
               \E d \in Callers : step[d] \in Flying /\ user[d] = user[c])
<1>1. Init => LedInv
  BY DEF Init, LedInv, LeadersFly, LeadersLead, WaitersWait, Flying, PastCheck
<1>2. TypeOK /\ LedInv => \A c \in Callers : step[c] = "waiting" =>
                            \E d \in Callers : step[d] \in Flying /\ user[d] = user[c]
  <2> SUFFICES ASSUME TypeOK, LedInv, NEW c \in Callers, step[c] = "waiting"
               PROVE  \E d \in Callers : step[d] \in Flying /\ user[d] = user[c]
    OBVIOUS
  <2>1. user[c] \in Users
    BY DEF TypeOK
  <2>2. leader[user[c]] \in Callers
    BY <2>1 DEF TypeOK, LedInv, WaitersWait
  <2> QED
    BY <2>1, <2>2 DEF LedInv, WaitersWait, LeadersLead, TypeOK
<1> QED
  BY <1>1, <1>2, TypeInit, TypeStep, LedStep, PTL DEF Spec

\* No cooldown, no error on its way to a caller, and what is fresh is an answer.
Healed ==
  /\ cooldown = 0
  /\ \A u \in fresh : cache[u] # Nothing
  /\ \A c \in Callers : step[c] \in {"answered", "cleared", "ending", "got"} => result[c] # Nothing

LEMMA HealedStep ==
  ASSUME TypeOK, LeadersFly, [Next]_vars, faults' = faults
  PROVE  cooldown' <= cooldown /\ (Healed => Healed')
<1> USE DEF Nothing
<1>0. faults \in Nat /\ cooldown \in Nat
  BY RestAssumption DEF TypeOK
<1>1. ASSUME NEW c \in Callers, NEW u \in Users, Begin(c, u)
      PROVE  cooldown' <= cooldown /\ (Healed => Healed')
  BY <1>0, <1>1 DEF Begin, At, Healed, TypeOK, cooling
<1>2. ASSUME NEW c \in Callers, Join(c) \/ Return(c) \/ Check(c)
      PROVE  cooldown' <= cooldown /\ (Healed => Healed')
  BY <1>0, <1>2 DEF Join, Return, Check, InCooldown, At, Healed, TypeOK, cooling
<1>3. ASSUME NEW c \in Callers, End(c) PROVE cooldown' <= cooldown /\ (Healed => Healed')
  BY <1>0, <1>3 DEF End, GetsResult, Healed, TypeOK, cooling
<1>4. ASSUME NEW c \in Callers, Answer(c) PROVE cooldown' <= cooldown /\ (Healed => Healed')
  <2>1. truth[user[c]] \in Nat
    BY <1>4 DEF Answer, TypeOK
  <2> QED
    BY <1>0, <1>4, <2>1 DEF Answer, At, Healed, TypeOK, cooling
<1>5. ASSUME NEW c \in Callers, Succeed(c) \/ Store(c)
      PROVE  cooldown' <= cooldown /\ (Healed => Healed')
  BY <1>0, <1>5 DEF Succeed, ClearCooldown, Store, At, Healed, TypeOK, cooling
<1>6. ASSUME NEW c \in Callers, Fault(c) PROVE FALSE
  BY <1>0, <1>6 DEF Fault, Interrupted, Garbled, Refused, Broken, Fail
<1>7. CASE Tick \/ \E u \in Users : Expire(u) \/ Change(u)
  BY <1>0, <1>7 DEF Tick, Expire, Change, Healed, cooling
<1>8. CASE UNCHANGED vars
  BY <1>0, <1>8 DEF vars, cooling, Healed
<1> QED
  BY <1>1, <1>2, <1>3, <1>4, <1>5, <1>6, <1>7, <1>8 DEF Next, Proceed

\* While no further call fails the cooldown only gets shorter; and once it is over and
\* the errors of earlier failures are delivered, nobody gets an error, or an expired
\* entry in place of one, until a call fails.
THEOREM RestStaysHealed ==
  Spec => [][faults' = faults => cooldown' <= cooldown /\ (Healed => Healed')]_vars
<1>1. TypeOK /\ LeadersFly /\ [Next]_vars =>
        [faults' = faults => cooldown' <= cooldown /\ (Healed => Healed')]_vars
  BY HealedStep
<1>2. Init => LeadersFly
  BY DEF Init, LeadersFly, Flying, PastCheck
<1> QED
  BY <1>1, <1>2, TypeInit, TypeStep, LeadersStep, PTL DEF Spec
=============================================================================
