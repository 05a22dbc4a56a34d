----------------------------- MODULE RoleReads -----------------------------
(***************************************************************************)
(* What whoever asks for a user's roles may count on, with no cache, no    *)
(* shared call and no cooldown in sight.  What is true of a user changes   *)
(* from version to version.  An answer is never older than one that        *)
(* somebody had got before the question was asked, and never newer than    *)
(* the truth.  Nothing, an error, is the oldest of all: once anybody has   *)
(* got an answer, no later question about that user ends in an error.      *)
(***************************************************************************)
EXTENDS Integers

CONSTANTS Callers, Users, None

VARIABLES
  truth,   \* user -> the version that is true now
  newest,  \* user -> the newest version that anyone has got
  call     \* caller -> what it asks, and its answer

Nothing == -1

Idle == [step |-> "idle", user |-> None, floor |-> Nothing, answer |-> Nothing]

Question(u) == [step |-> "asking", user |-> u, floor |-> newest[u], answer |-> Nothing]

Answered(question) ==
  {[step |-> "answered", user |-> question.user, floor |-> question.floor, answer |-> version] :
     version \in question.floor..truth[question.user]}

Init ==
  /\ truth = [u \in Users |-> 0] /\ newest = [u \in Users |-> Nothing]
  /\ call = [c \in Callers |-> Idle]

\* The answer may be there at once.
Ask(c, u) ==
  /\ call[c] = Idle
  /\ \E asked \in {Question(u)} \cup Answered(Question(u)) : call' = [call EXCEPT ![c] = asked]
  /\ UNCHANGED <<truth, newest>>

\* Several may get their answers together.
Give ==
  /\ DOMAIN call' = Callers
  /\ \A c \in Callers : \/ call'[c] = call[c]
                        \/ call[c].step = "asking" /\ call'[c] \in Answered(call[c])
  /\ UNCHANGED <<truth, newest>>

Take(c) ==
  /\ call[c].step = "answered"
  /\ newest' = [newest EXCEPT ![call[c].user] =
                  IF call[c].answer > @ THEN call[c].answer ELSE @]
  /\ call' = [call EXCEPT ![c] = Idle]
  /\ UNCHANGED truth

Change(u) ==
  /\ truth' = [truth EXCEPT ![u] = @ + 1]
  /\ UNCHANGED <<newest, call>>

Next ==
  \/ \E c \in Callers, u \in Users : Ask(c, u)
  \/ Give
  \/ \E c \in Callers : Take(c)
  \/ \E u \in Users : Change(u)

Spec == Init /\ [][Next]_<<truth, newest, call>>
=============================================================================
