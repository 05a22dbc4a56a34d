--------------------------- MODULE UploadPromise ---------------------------
(***************************************************************************)
(* What a chunked upload promises to its client, with no memory, disk,     *)
(* slot or restart in sight: an upload is opened for a number of chunks,   *)
(* collects them, and ends either published, with every chunk it was       *)
(* opened for, or closed.  Published and closed are final.                 *)
(* The uploads are independent, so a step moves each of them or not: a     *)
(* restart may close several at once.  Only a service that MayForget ever  *)
(* gives up chunks of an open upload, and what is left of it stays true.   *)
(***************************************************************************)
EXTENDS Integers

CONSTANTS
  UploadIds,
  MayForget  \* BOOLEAN: an open upload may be set back

VARIABLE upload  \* upload ID -> its status, chunks expected, chunks received

Status == {"none", "open", "published", "closed"}

Fresh == [status |-> "none", expected |-> 0, received |-> {}]

IsOpen(old) == old.status = "open"

Opens(old, new) ==
  /\ old = Fresh
  /\ IsOpen(new) /\ new.expected \in Nat \ {0} /\ new.received = {}

Receives(old, new) ==
  /\ IsOpen(old) /\ IsOpen(new) /\ new.expected = old.expected
  /\ \E chunk \in (0..(old.expected - 1)) \ old.received :
        new.received = old.received \cup {chunk}

Forgets(old, new) ==
  /\ MayForget /\ IsOpen(old) /\ IsOpen(new)
  /\ new.expected = old.expected /\ new.received \subseteq old.received

Publishes(old, new) ==
  /\ IsOpen(old) /\ old.received = 0..(old.expected - 1)
  /\ new = [Fresh EXCEPT !.status = "published"]

Closes(old, new) ==
  /\ IsOpen(old) \/ old = Fresh
  /\ new = [Fresh EXCEPT !.status = "closed"]

Init == upload = [id \in UploadIds |-> Fresh]

Next ==
  /\ DOMAIN upload' = UploadIds
  /\ \A id \in UploadIds :
       LET old == upload[id]  new == upload'[id]
       IN \/ new = old
          \/ Opens(old, new)
          \/ Receives(old, new)
          \/ Forgets(old, new)
          \/ Publishes(old, new)
          \/ Closes(old, new)

Spec == Init /\ [][Next]_upload
=============================================================================
