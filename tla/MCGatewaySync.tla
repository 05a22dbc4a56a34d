--------------------------- MODULE MCGatewaySync ---------------------------
(* Instances of GatewaySync for TLC. *)
EXTENDS GatewaySync

CONSTANTS u1

\* The user watched is in the first of two chunks, so that the last, which makes the
\* table ready, may be handled before it.
MCChunks == <<{u1}, {}>>
=============================================================================
