--------------------------- MODULE MCTunnelSession --------------------------
(* TunnelSession with route lists in which one route occurs twice and one is *)
(* installed by somebody else already.                                       *)
EXTENDS TunnelSession

MCServerRoutes ==
    [Full  |-> [v4 |-> <<"0.0.0.0/1", "128.0.0.0/1">>, v6 |-> <<"::/1">>],
     Split |-> [v4 |-> <<"10.0.0.0/8", "10.0.0.53/32">>, v6 |-> <<>>]]
MCSystemDns == [v4 |-> <<"10.0.0.53/32">>, v6 |-> <<"fd00::53/128">>]
MCForeign   == {"10.0.0.0/8", "::/1"}
MCEntries   == <<"fwmark rule", "suppress rule">>

=============================================================================
