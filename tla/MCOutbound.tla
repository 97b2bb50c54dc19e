----------------------------- MODULE MCOutbound -----------------------------
(* Outbound on small instances. *)
EXTENDS Outbound

Nic(name, index) ==
    [name |-> name, index |-> index, up |-> TRUE, kind |-> "wan", addrs |-> TRUE, gateway |-> TRUE]

Wired    == Nic("eth0", 2)
Wireless == [Nic("wlan0", 3) EXCEPT !.gateway = FALSE]
Loopback == [Nic("lo", 1) EXCEPT !.kind = "loopback"]
\* The device of this session is not flagged as a TUN on every system.
OwnTun   == Nic("tun0", 4)
OtherTun == [Nic("tun9", 5) EXCEPT !.kind = "tun"]
NoIndex  == Nic("ppp0", 0)

\* At home, with the device of the session visible or not; on the train, with
\* the wire out or down; with another VPN as the default; and with nothing.
MCMachines ==
    { [interfaces |-> <<Loopback, Wireless, Wired>>, default |-> "eth0", dns |-> <<"loopback">>],
      [interfaces |-> <<Wireless, OwnTun, Wired>>, default |-> "tun0", dns |-> <<"dns1", "dns2">>],
      [interfaces |-> <<OwnTun, [Wired EXCEPT !.up = FALSE], Wireless>>,
       default |-> "eth0", dns |-> <<"dns1", "linklocal">>],
      [interfaces |-> <<OtherTun, OwnTun, NoIndex>>, default |-> "tun9", dns |-> <<"dns1">>],
      [interfaces |-> <<NoIndex, OwnTun>>, default |-> "ppp0", dns |-> <<"dns1">>],
      [interfaces |-> <<Loopback, OwnTun>>, default |-> "", dns |-> <<>>] }

MCConfigs == [pin : {"", "eth0"}, full : BOOLEAN]
=============================================================================
