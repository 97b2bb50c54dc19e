---------------------------- MODULE MCFeilianTcp ----------------------------
(* FeilianTcp on a small instance. *)
EXTENDS FeilianTcp

CONSTANTS d1, d2

\* The second packet may need another connection, and the third is a reply.
MCPeers == <<{d1}, {d1, d2}, {}>>
=============================================================================
