---------------------------- MODULE MCNegotiation ---------------------------
(* Negotiation on small instances. *)
EXTENDS Negotiation

Dot(id, mode) ==
    [id |-> id, mode |-> mode, reconnect |-> TRUE, dedicated |-> FALSE, exclude |-> FALSE,
     api |-> "v4api", ip |-> "v4", ports |-> TRUE, operator |-> FALSE, protocol |-> "Dual"]

Good(id)     == Dot(id, "Full")
SplitOnly    == Dot(3, "Split")
Broken(id)   == [Dot(id, "Full") EXCEPT !.ports = FALSE]
Homeless(id) == [Dot(id, "Full") EXCEPT !.api = "", !.ip = ""]
Operator(id) == [Dot(id, "Full") EXCEPT !.operator = TRUE, !.protocol = "Udp"]
Dedicated    == [Dot(4, "Full") EXCEPT !.dedicated = TRUE]

MCDotLists == { <<>>,
                <<Broken(1), Good(2), Operator(3)>>,
                <<Good(1), SplitOnly, Homeless(2), Dedicated>> }

MCRequests ==
    { [mode |-> "Full", location |-> None, reconnect |-> FALSE, otp |-> "none", protocol |-> "FeilianTcp"],
      [mode |-> "Split", location |-> None, reconnect |-> TRUE, otp |-> "none", protocol |-> "FeilianTcp"],
      [mode |-> "Full", location |-> 2, reconnect |-> FALSE, otp |-> "manual", protocol |-> "Udp"] }

\* As activation leaves it, with a list of tenants that gives no address, and
\* as restored from a file that enables signing.
MCTenants ==
    { [url |-> TRUE, enabled |-> FALSE, activation_code |-> "code"],
      [url |-> FALSE, enabled |-> FALSE, activation_code |-> "other"],
      [url |-> TRUE, enabled |-> TRUE, activation_code |-> "code"] }
=============================================================================
