----------------------------- MODULE MCAccounts -----------------------------
(* Instances of Accounts for TLC. *)
EXTENDS Accounts

CONSTANTS u1

\* Two devices of one user.
MCOwner == [b \in Browsers |-> u1]
=============================================================================
