------------------------------ MODULE VpnState ------------------------------
(***************************************************************************)
(* The pure VPN connection state of crates/core/src/state/vpn.rs and its   *)
(* projection to the RPC message (crates/daemon/src/state.rs).             *)
(*                                                                         *)
(* A state is a record.  The request keeps the mode and the location the   *)
(* caller asked for (0 is Auto); the one-time code, the transport and the  *)
(* reconnect flag are carried along by the code exactly like these two     *)
(* and are left out.  `info' stands for the ActiveTunnel: it is the id of  *)
(* the connect loop whose session it describes.                            *)
(***************************************************************************)
EXTENDS Integers

CONSTANT
    MaxU32      \* u32::MAX, where the saturating counters stop

ASSUME MaxU32Assumption == MaxU32 \in Nat \ {0}

Tags == {"Disconnected", "Connecting", "Configuring", "Connected",
         "Reconnecting", "Failed", "Disconnecting"}

Modes    == {"Full", "Split"}
Requests == [mode : Modes, location : Nat]

\* VpnRequest::default()
DefaultRequest == [mode |-> "Full", location |-> 0]
NoRequest      == [mode |-> "Unspecified", location |-> 0]
NoTunnel       == 0

SaturatingIncr(n) == IF n < MaxU32 THEN n + 1 ELSE n

VpnStates == [tag      : Tags \cup {"Absent"},
              request  : Requests \cup {NoRequest},
              attempts : 0 .. MaxU32,
              info     : Nat]

\* pb::Tunnel, the message of WatchTunnel and GetTunnel.
Tunnels == [state              : Tags \cup {"Unspecified"},
            mode               : Modes \cup {"Unspecified"},
            reconnect_attempts : 0 .. MaxU32,
            tunnel             : Nat]

State(tag, request, attempts, info) ==
    [tag |-> tag, request |-> request, attempts |-> attempts, info |-> info]

Disconnected == State("Disconnected", NoRequest, 0, NoTunnel)

\* DaemonInner.vpn is None: no connect was ever accepted.
Absent == State("Absent", NoRequest, 0, NoTunnel)

-----------------------------------------------------------------------------
(* Queries *)

can_connect(s) == s.tag \in {"Disconnected", "Failed"}

attempts_of(s) == IF s.tag \in {"Reconnecting", "Failed"} THEN s.attempts ELSE 0

HasRequest(s) == s.tag \notin {"Disconnected", "Absent"}

current_request(s) == IF HasRequest(s) THEN s.request ELSE NoRequest

\* Mutant: the request is lost.
into_request_Lost(s) == DefaultRequest

into_request(s) == IF HasRequest(s) THEN s.request ELSE DefaultRequest

-----------------------------------------------------------------------------
(* Transitions: each consumes the current state and returns the next one *)

into_connecting(request) == State("Connecting", request, 0, NoTunnel)

into_configuring(s) == State("Configuring", into_request(s), 0, NoTunnel)

into_connected(s, info) == State("Connected", into_request(s), 0, info)

into_reconnecting(s) ==
    State("Reconnecting", into_request(s), SaturatingIncr(attempts_of(s)), NoTunnel)

into_failed(s) == State("Failed", into_request(s), attempts_of(s), NoTunnel)

into_disconnecting(s) == State("Disconnecting", into_request(s), 0, NoTunnel)

-----------------------------------------------------------------------------
(* Conversions to and from the RPC messages *)

\* pb::Tunnel: no machine gives the default message.
to_tunnel_proto(s) ==
    [state              |-> IF s.tag = "Absent" THEN "Unspecified" ELSE s.tag,
     mode               |-> current_request(s).mode,
     reconnect_attempts |-> attempts_of(s),
     tunnel             |-> s.info]

\* An unspecified mode means Full, a location that is not positive means Auto.
vpn_request_from_proto(p) ==
    [mode     |-> IF p.mode = "Split" THEN "Split" ELSE "Full",
     location |-> IF p.location_id > 0 THEN p.location_id ELSE 0]

=============================================================================
