--------------------------- MODULE SessionPromise ---------------------------
(***************************************************************************)
(* What a session promises, with no table, no cookie and no database in    *)
(* sight.  A login opens a session of its user, with roles that hold a     *)
(* required one unless the login was crossed by others of the same user;   *)
(* a session ends at any moment and never comes back.  A browser holds at  *)
(* most one session, and no two browsers hold the same.  It is let in only *)
(* with the one it holds, only while that is open, and only as its owner;  *)
(* it is out again before it can log out.                                  *)
(***************************************************************************)
EXTENDS Naturals

CONSTANTS Browsers, Owner, None, Versions, Qualified

VARIABLES
  made,     \* how many sessions there were
  open,     \* those that have not ended
  held,     \* browser -> the session it has been given
  inside    \* the browsers whose request has been let in

Init == made = 0 /\ open = {} /\ held = [b \in Browsers |-> None] /\ inside = {}

Open(b) ==
  /\ made' = made + 1
  /\ \E v \in Versions, alone \in BOOLEAN :
       /\ alone => v \in Qualified
       /\ open' = open \cup {[id |-> made', user |-> Owner[b], roles |-> v, alone |-> alone]}
  /\ UNCHANGED <<held, inside>>

Give(b) ==
  /\ b \notin inside
  /\ \E i \in 1 .. made :
       /\ \A c \in Browsers : held[c] # i
       /\ held' = [held EXCEPT ![b] = i]
  /\ UNCHANGED <<made, open, inside>>

End(s) == open' = open \ {s} /\ UNCHANGED <<made, held, inside>>

LogOut(b) ==
  /\ b \notin inside /\ held[b] # None
  /\ held' = [held EXCEPT ![b] = None]
  /\ open' \in {open, {s \in open : s.id # held[b]}}
  /\ UNCHANGED <<made, inside>>

Enter(b) ==
  /\ b \notin inside
  /\ \E s \in open : s.id = held[b] /\ s.user = Owner[b]
  /\ inside' = inside \cup {b}
  /\ UNCHANGED <<made, open, held>>

\* A request may end with what the browser holds taken away.
Leave(b) ==
  /\ b \in inside /\ inside' = inside \ {b}
  /\ held' \in {held, [held EXCEPT ![b] = None]}
  /\ UNCHANGED <<made, open>>

Stop == inside' = {} /\ UNCHANGED <<made, open, held>>

Next ==
  \/ \E b \in Browsers : Open(b) \/ Give(b) \/ LogOut(b) \/ Enter(b) \/ Leave(b)
  \/ \E s \in open : End(s)
  \/ Stop

Spec == Init /\ [][Next]_<<made, open, held, inside>>
=============================================================================
