---------------------------- MODULE StreamPromise ----------------------------
(***************************************************************************)
(* What the event stream promises, with no lock, no filter and no role in  *)
(* sight.  An event that is announced is offered once to every connection  *)
(* subscribed at that moment, before that connection may end; an offer     *)
(* never waits, and is lost only where there is no room.  Whoever could    *)
(* read the event's directory all through the connection gets it, whoever  *)
(* could at no moment does not.                                            *)
(***************************************************************************)
EXTENDS Naturals, Sequences

CONSTANTS Clients, Broadcasters, EventDirs, Everybody, Capacity

VARIABLES
  stream,         \* of each connection: before, subscribed, ended, closed
  due,            \* the announcement each broadcaster is in, and whom it has still to reach
  waiting,        \* what each connection has yet to be sent
  once, always    \* connection -> what it could read at some moment, and at every one

Subscribed == {c \in Clients : stream[c] = "subscribed"}

With(q, dir) == IF Len(q) < Capacity THEN Append(q, dir) ELSE q

Init ==
  /\ stream = [c \in Clients |-> "before"]
  /\ due = [b \in Broadcasters |-> [dir |-> Everybody, left |-> {}]]
  /\ waiting = [c \in Clients |-> <<>>]
  /\ once = [c \in Clients |-> {}] /\ always = [c \in Clients |-> EventDirs \ {Everybody}]

Goes(c, from, to) ==
  /\ stream[c] = from /\ stream' = [stream EXCEPT ![c] = to]
  /\ UNCHANGED <<due, waiting, once, always>>

Subscribe(c) == Goes(c, "before", "subscribed")
End(c) == (\A b \in Broadcasters : c \notin due[b].left) /\ Goes(c, "subscribed", "ended")
Close(c) == Goes(c, "ended", "closed")

Announce(b, dir) ==
  /\ due[b].left = {} /\ due' = [due EXCEPT ![b] = [dir |-> dir, left |-> Subscribed]]
  /\ UNCHANGED <<stream, waiting, once, always>>

Offer(b, c) ==
  LET dir == due[b].dir
      got == waiting' = [waiting EXCEPT ![c] = With(@, dir)]
  IN /\ c \in due[b].left
     /\ due' = [due EXCEPT ![b] = [dir |-> dir, left |-> @.left \ {c}]]
     /\ \/ dir \in {Everybody} \cup once[c] /\ got
        \/ dir \notin {Everybody} \cup always[c] /\ UNCHANGED waiting
     /\ UNCHANGED <<stream, once, always>>

\* The user is told that the permissions have changed, at times too late.
Tell(c) ==
  /\ stream[c] \in {"subscribed", "ended"}
  /\ waiting' = [waiting EXCEPT ![c] = With(@, Everybody)]
  /\ UNCHANGED <<stream, due, once, always>>

Send(c) ==
  /\ stream[c] = "subscribed" /\ waiting[c] # <<>>
  /\ waiting' = [waiting EXCEPT ![c] = Tail(@)]
  /\ UNCHANGED <<stream, due, once, always>>

\* Permissions change: something more was readable once, something less always.
Change ==
  /\ DOMAIN once' = Clients /\ DOMAIN always' = Clients
  /\ \A c \in Clients : once[c] \subseteq once'[c] /\ always'[c] \subseteq always[c]
  /\ UNCHANGED <<stream, due, waiting>>

\* The process dies, and every connection with it.
Die ==
  /\ DOMAIN stream' = Clients
  /\ \A c \in Clients : stream'[c] \in {stream[c], "closed"} /\ stream'[c] # "subscribed"
  /\ due' = [b \in Broadcasters |-> [dir |-> Everybody, left |-> {}]]
  /\ waiting' = [c \in Clients |-> <<>>]
  /\ UNCHANGED <<once, always>>

Next ==
  \/ \E c \in Clients : Subscribe(c) \/ End(c) \/ Close(c) \/ Tell(c) \/ Send(c)
  \/ \E b \in Broadcasters, dir \in EventDirs : Announce(b, dir)
  \/ \E b \in Broadcasters, c \in Clients : Offer(b, c)
  \/ Change \/ Die

Spec == Init /\ [][Next]_<<stream, due, waiting, once, always>>
=============================================================================
