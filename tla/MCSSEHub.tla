------------------------------ MODULE MCSSEHub ------------------------------
(* Instances of SSEHub for TLC. *)
EXTENDS SSEHub

CONSTANTS u1, member, admin

Public == <<"public">>
Members == <<"members">>
Deep == <<"members", "sub">>

MCOwner == [c \in Clients |-> u1]
Found(roles, home) == [roles |-> roles, home |-> home]

\* A user without a home until the first upload.  When it comes the provider fails,
\* so that a snapshot may mix the home or its absence with any roles.
MCAnswers == {Found(NoAnswer, TRUE), Found({member}, FALSE), Found({admin}, FALSE)}
MCConfigured == {Public, Members}
MCReadGrants == (Public :> {Anyone}) @@ (Members :> {member})
MCHomes == [u \in Users |-> <<"user", "a">>]
MCEventDirs == {Deep, MCHomes[u1]}
=============================================================================
