--------------------------- MODULE MCTunnelDaemon ---------------------------
(* TunnelDaemon on small instances. *)
EXTENDS TunnelDaemon, TLC

MCCallSplit == {[mode |-> "Split", location_id |-> 2]}

\* A request that leaves everything unspecified; a location that is none.
MCCallUnspecified == {[mode |-> "Unspecified", location_id |-> -1]}

MCCallBoth == MCCallSplit \cup MCCallUnspecified

MCSymmetry == Permutations(Callers)

=============================================================================
