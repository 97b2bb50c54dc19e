------------------------------- MODULE MCAuth -------------------------------
(* Auth with one tenant on the V1 login API. *)
EXTENDS Auth, TLC

MCAllV1 == [t \in Tenants |-> "V1"]

MCSymmetry == Permutations(Callers)

=============================================================================
