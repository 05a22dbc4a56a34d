--------------------------- MODULE MCDiscordRest ---------------------------
(* Instances of DiscordRest for TLC. *)
EXTENDS DiscordRest, TLC

CONSTANTS u1, u2

\* What Discord knows changes for one user only.
MCMaxVersion == (u1 :> 1) @@ (u2 :> 0)
=============================================================================
