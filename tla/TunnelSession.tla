--------------------------- MODULE TunnelSession ----------------------------
(***************************************************************************)
(* One tunnel session after another: TunnelSession::start and stop of      *)
(* crates/tunnel/src/session.rs, with route::apply and remove              *)
(* (crates/tunnel/src/route.rs) and RouteBypass (crates/outbound/src/      *)
(* bypass.rs).  What they leave behind in the operating system is the      *)
(* question, so the kernel's part of it is modelled too: our routes        *)
(* disappear with the TUN device they point to, bypass entries do not.     *)
(*                                                                         *)
(* BypassEntries is what setup installs in full-tunnel mode: two policy    *)
(* rules on Linux, one scoped default route per gateway on macOS.          *)
(***************************************************************************)
EXTENDS Sequences, SequencesExt, Integers

CONSTANTS
    ServerRoutes,    \* the server's lists: Full or Split -> v4 or v6 -> sequence
    SystemDns,       \* host routes of the system DNS servers, v4 or v6 -> sequence
    ForeignRoutes,   \* routes somebody else has installed
    BypassEntries,   \* what RouteBypass::setup adds, in order
    MayFail,         \* the operations that can fail
    MayCrash         \* the process may be killed

FailPoints == {"open_tun", "prepare", "interface", "bypass_add", "route_add", "build_tun",
               "dns_server", "device", "route_delete", "bypass_delete"}

ASSUME SessionAssumption ==
    /\ \A m \in {"Full", "Split"}, f \in {"v4", "v6"} : ServerRoutes[m][f] \in Seq(STRING)
    /\ \A f \in {"v4", "v6"} : SystemDns[f] \in Seq(STRING)
    /\ BypassEntries \in Seq(STRING)
    /\ MayFail \subseteq FailPoints
    /\ MayCrash \in BOOLEAN

NoRoutes   == <<"no routes taken">>
RouteNames ==
    (UNION {ToSet(ServerRoutes[m][f]) : m \in {"Full", "Split"}, f \in {"v4", "v6"}})
        \cup ToSet(SystemDns["v4"]) \cup ToSet(SystemDns["v6"])
EntryNames == ToSet(BypassEntries)

\* What stands for None is no list of routes.
ASSUME NoRoutesAssumption == "no routes taken" \notin RouteNames

VARIABLES
    ourRoutes,   \* kernel: routes through our TUN device
    entries,     \* kernel: bypass entries
    tun,         \* kernel: the TUN device exists
    full,        \* config.full_tunnel
    ipv6,        \* config.ipv6_enabled
    planned,     \* config.routes
    bypass,      \* session.bypass: none, noop (split tunnel) or installed
    routes,      \* session.routes; NoRoutes before apply and after take()
    dnsServer,   \* session.dns_server is Some
    device,      \* session.device is Some
    probe,       \* session.probe is Some
    status,      \* session.status
    pc,          \* where start or stop is
    index,       \* next element of planned or BypassEntries
    added,       \* added_routes of route::apply
    result,      \* "ok", or what failed: "start" or "stop"
    protected,   \* observer: the bypass of this session was set up completely
    refused,     \* observer: the kernel refused to delete a route of this session
    stuck        \* observer: entries whose last deletion by this session failed

kernel  == <<ourRoutes, entries, tun>>
config  == <<full, ipv6, planned>>
session == <<bypass, routes, dnsServer, device, probe, status>>
seen    == <<protected, refused, stuck>>
vars    == <<kernel, config, session, pc, index, added, result, seen>>

Pcs == {"none", "open_tun", "prepare", "bypass", "apply", "rollback", "build_tun",
        "dns_server", "device", "running", "stop_services", "remove_routes",
        "stop_bypass", "stop_device", "ended"}

TypeOK ==
    /\ ourRoutes \subseteq RouteNames
    /\ entries \subseteq EntryNames
    /\ {tun, full, ipv6, dnsServer, device, probe, protected, refused} \subseteq BOOLEAN
    /\ planned \in Seq(RouteNames)
    /\ bypass \in {"none", "noop", "installed"}
    /\ routes \in Seq(RouteNames) \cup {NoRoutes}
    /\ status \in {"Created", "RoutesApplied", "Running", "Stopped"}
    /\ pc \in Pcs
    /\ index \in 1 .. (IF pc = "apply" THEN Len(planned) ELSE Len(BypassEntries)) + 1
    /\ added \in Seq(RouteNames)
    /\ result \in {"ok", "start", "stop"}
    /\ stuck \subseteq EntryNames

Init ==
    /\ ourRoutes = {}
    /\ entries = {}
    /\ tun = FALSE
    /\ full = FALSE
    /\ ipv6 = FALSE
    /\ planned = <<>>
    /\ bypass = "none"
    /\ routes = NoRoutes
    /\ dnsServer = FALSE
    /\ device = FALSE
    /\ probe = FALSE
    /\ status = "Created"
    /\ pc = "none"
    /\ index = 1
    /\ added = <<>>
    /\ result = "ok"
    /\ protected = FALSE
    /\ refused = FALSE
    /\ stuck = {}

-----------------------------------------------------------------------------
(* TunnelSession::start_inner *)

\* The lists of the mode; the v6 ones only when the tunnel has a v6 address.
networks_from_vpn_conn(mode, v6) ==
    ServerRoutes[mode]["v4"] \o (IF v6 THEN ServerRoutes[mode]["v6"] ELSE <<>>)

dns_host_routes(v6) ==
    SystemDns["v4"] \o (IF v6 THEN SystemDns["v6"] ELSE <<>>)

FreshSession ==
    /\ bypass' = "none"
    /\ routes' = NoRoutes
    /\ dnsServer' = FALSE
    /\ device' = FALSE
    /\ probe' = FALSE
    /\ status' = "Created"

\* TunnelConfig::from_vpn_conn and TunnelSession::new, in the state the last
\* session left the kernel in.  (A list that does not parse fails before.)
NewSession ==
    /\ pc = "none"
    /\ full' \in BOOLEAN
    /\ ipv6' \in BOOLEAN
    /\ planned' = networks_from_vpn_conn(IF full' THEN "Full" ELSE "Split", ipv6')
    /\ FreshSession
    /\ pc' = "open_tun"
    /\ result' = "ok"
    /\ protected' = FALSE
    /\ refused' = FALSE
    /\ stuck' = {}
    /\ UNCHANGED <<kernel, index, added>>

\* An error leaves start_inner: its locals, the TUN device among them, are
\* dropped before start calls stop.
StartFails(point) ==
    /\ point \in MayFail
    /\ tun' = FALSE
    /\ ourRoutes' = {}
    /\ pc' = "stop_services"
    /\ index' = 1
    /\ added' = <<>>
    /\ result' = "start"
    /\ UNCHANGED <<entries, config, session, seen>>

\* decode_key and open_tun.
OpenTun ==
    /\ pc = "open_tun"
    /\ \/ /\ tun' = TRUE
          /\ pc' = "prepare"
          /\ UNCHANGED <<ourRoutes, entries, config, session, index, added, result, seen>>
       \/ StartFails("open_tun")

\* OutboundContext::build, route_system_dns_into_tunnel (split mode, when it
\* is configured), resolve_endpoint and tunnel_peer.
Prepare ==
    /\ pc = "prepare"
    /\ \/ /\ pc' = "bypass"
          /\ \/ UNCHANGED planned
             \/ /\ ~full
                /\ planned' = planned \o dns_host_routes(ipv6)
          /\ UNCHANGED <<kernel, full, ipv6, session, index, added, result, seen>>
       \/ StartFails("prepare")

BypassReady(handle) ==
    /\ bypass' = handle
    /\ pc' = "apply"
    /\ index' = 1
    /\ protected' = (handle = "installed")
    /\ UNCHANGED <<ourRoutes, tun, config, routes, dnsServer, device, probe, status,
                   added, result, refused, stuck>>

\* RouteBypass::setup: nothing in split mode; else one entry after the other
\* (one that exists already is as good as added).  A failure is only logged.
\* ctx.interface() may be unknown: then there is no bypass.
BypassSetup ==
    /\ pc = "bypass"
    /\ \/ /\ ~full
          /\ BypassReady("noop")
          /\ UNCHANGED entries
       \/ /\ full
          /\ index <= Len(BypassEntries)
          /\ entries' = entries \cup {BypassEntries[index]}
          /\ index' = index + 1
          /\ UNCHANGED <<ourRoutes, tun, config, session, pc, added, result, seen>>
       \/ /\ full
          /\ index > Len(BypassEntries)
          /\ BypassReady("installed")
          /\ UNCHANGED entries
       \/ /\ full
          /\ "bypass_add" \in MayFail
          /\ index <= Len(BypassEntries)
          /\ BypassReady("none")
          /\ UNCHANGED entries
       \/ /\ "interface" \in MayFail
          /\ index = 1
          /\ BypassReady("none")
          /\ UNCHANGED entries

\* Mutant: a route that exists already is recorded as added.
AddRoute_RecordsExisting ==
    LET r == planned[index] IN
    /\ pc = "apply"
    /\ index <= Len(planned)
    /\ added' = Append(added, r)
    /\ ourRoutes' = IF r \in ForeignRoutes THEN ourRoutes ELSE ourRoutes \cup {r}
    /\ index' = index + 1
    /\ UNCHANGED <<entries, tun, config, session, pc, result, seen>>

\* route::apply, for the next planned route: it is added, or it exists and is
\* skipped, or the error leads to the rollback.
AddRoute ==
    LET r == planned[index] IN
    /\ pc = "apply"
    /\ index <= Len(planned)
    /\ \/ /\ IF r \in ForeignRoutes \cup ourRoutes
             THEN UNCHANGED <<ourRoutes, added>>
             ELSE /\ ourRoutes' = ourRoutes \cup {r}
                  /\ added' = Append(added, r)
          /\ index' = index + 1
          /\ UNCHANGED pc
       \/ /\ "route_add" \in MayFail
          /\ pc' = "rollback"
          /\ index' = 1
          /\ UNCHANGED <<ourRoutes, added>>
    /\ UNCHANGED <<entries, tun, config, session, result, seen>>

\* rollback_added_routes, then the error.  The TUN device goes with it, so a
\* deletion that fails leaves nothing.
Rollback ==
    /\ pc = "rollback"
    /\ StartFails("route_add")

RoutesApplied ==
    /\ pc = "apply"
    /\ index > Len(planned)
    /\ routes' = added
    /\ status' = "RoutesApplied"
    /\ added' = <<>>
    /\ index' = 1
    /\ pc' = "build_tun"
    /\ UNCHANGED <<kernel, config, bypass, dnsServer, device, probe, result, seen>>

BuildVpnTun ==
    /\ pc = "build_tun"
    /\ \/ /\ pc' = "dns_server"
          /\ UNCHANGED <<kernel, config, session, index, added, result, seen>>
       \/ StartFails("build_tun")

\* The DNS server is optional (dns_listen_port), and fail-fast.
StartDnsServer ==
    /\ pc = "dns_server"
    /\ \/ /\ dnsServer' \in BOOLEAN
          /\ pc' = "device"
          /\ UNCHANGED <<kernel, config, bypass, routes, device, probe, status,
                         index, added, result, seen>>
       \/ StartFails("dns_server")

\* DeviceBuilder::build takes the TUN device over; then the liveness probe.
StartDevice ==
    /\ pc = "device"
    /\ \/ /\ device' = TRUE
          /\ probe' = TRUE
          /\ status' = "Running"
          /\ pc' = "running"
          /\ UNCHANGED <<kernel, config, bypass, routes, dnsServer, index, added, result, seen>>
       \/ StartFails("device")

-----------------------------------------------------------------------------
(* TunnelSession::stop, called by the owner of a running session or by start *)

\* connect_once stops the session it supervised.
Stop ==
    /\ pc = "running"
    /\ pc' = "stop_services"
    /\ UNCHANGED <<kernel, config, session, index, added, result, seen>>

\* The probe first, so that it does not send into a device that is gone.
StopServices ==
    /\ pc = "stop_services"
    /\ probe' = FALSE
    /\ dnsServer' = FALSE
    /\ pc' = "remove_routes"
    /\ UNCHANGED <<kernel, config, bypass, routes, device, status, index, added, result, seen>>

\* Mutant: the bypass is taken down while the routes are still there.
RemoveRoutes_BypassFirst ==
    /\ pc = "remove_routes"
    /\ entries' = IF bypass = "installed" THEN {} ELSE entries
    /\ pc' = "stop_bypass"
    /\ UNCHANGED <<ourRoutes, tun, config, session, index, added, result, seen>>

\* AppliedRoutes::remove deletes from the last to the first, and the first
\* error returns from stop: the kernel may refuse, and a route that is not
\* there cannot be deleted.
RemoveRoutes ==
    /\ pc = "remove_routes"
    /\ \/ /\ routes \in {NoRoutes, <<>>}
          /\ routes' = NoRoutes
          /\ pc' = "stop_bypass"
          /\ UNCHANGED <<ourRoutes, result, refused>>
       \/ /\ routes \notin {NoRoutes, <<>>}
          /\ Last(routes) \in ourRoutes
          /\ ourRoutes' = ourRoutes \ {Last(routes)}
          /\ routes' = Front(routes)
          /\ UNCHANGED <<pc, result, refused>>
       \/ /\ \/ /\ routes \notin {NoRoutes, <<>>}
                /\ Last(routes) \notin ourRoutes
                /\ UNCHANGED refused
             \/ /\ "route_delete" \in MayFail
                /\ routes # NoRoutes
                /\ refused' = TRUE
          /\ routes' = NoRoutes
          /\ pc' = "ended"
          /\ result' = IF result = "ok" THEN "stop" ELSE result
          /\ UNCHANGED ourRoutes
    /\ UNCHANGED <<entries, tun, config, bypass, dnsServer, device, probe, status,
                   index, added, protected, stuck>>

\* A noop handle has nothing to remove.
TeardownDone == bypass # "installed" \/ index > Len(BypassEntries)

\* Mutant: the first deletion that fails ends the teardown.
StopBypass_FirstError ==
    /\ pc = "stop_bypass"
    /\ \/ /\ ~TeardownDone /\ stuck = {}
          /\ \/ /\ entries' = entries \ {BypassEntries[index]}
                /\ UNCHANGED stuck
             \/ /\ "bypass_delete" \in MayFail
                /\ stuck' = {BypassEntries[index]}
                /\ UNCHANGED entries
          /\ index' = index + 1
          /\ UNCHANGED <<bypass, pc>>
       \/ /\ TeardownDone \/ stuck # {}
          /\ bypass' = "none"
          /\ pc' = "stop_device"
          /\ index' = 1
          /\ UNCHANGED <<entries, stuck>>
    /\ UNCHANGED <<ourRoutes, tun, config, routes, dnsServer, device, probe, status,
                   added, result, protected, refused>>

\* RouteBypass::teardown, one entry after the other; a deletion that fails is
\* logged, its entry stays, and the next one is tried.
StopBypass ==
    /\ pc = "stop_bypass"
    /\ \/ /\ ~TeardownDone
          /\ \/ /\ entries' = entries \ {BypassEntries[index]}
                /\ stuck' = stuck \ {BypassEntries[index]}
             \/ /\ "bypass_delete" \in MayFail
                /\ stuck' = stuck \cup {BypassEntries[index]}
                /\ UNCHANGED entries
          /\ index' = index + 1
          /\ UNCHANGED <<bypass, pc>>
       \/ /\ TeardownDone
          /\ bypass' = "none"
          /\ pc' = "stop_device"
          /\ index' = 1
          /\ UNCHANGED <<entries, stuck>>
    /\ UNCHANGED <<ourRoutes, tun, config, routes, dnsServer, device, probe, status,
                   added, result, protected, refused>>

\* device.stop() closes the TUN device it owns.
StopDevice ==
    /\ pc = "stop_device"
    /\ device' = FALSE
    /\ tun' = FALSE
    /\ ourRoutes' = {}
    /\ status' = "Stopped"
    /\ pc' = "ended"
    /\ UNCHANGED <<entries, config, bypass, routes, dnsServer, probe, index, added, result, seen>>

\* The owner drops the session: a device that was not stopped is dropped with
\* it, a bypass handle that was not torn down is forgotten.
DropSession ==
    /\ pc = "ended"
    /\ tun' = FALSE
    /\ ourRoutes' = {}
    /\ FreshSession
    /\ pc' = "none"
    /\ planned' = <<>>
    /\ UNCHANGED <<entries, full, ipv6, index, added, result, seen>>

\* The process is killed: the kernel closes what it had open.
Crash ==
    /\ MayCrash
    /\ pc # "none"
    /\ tun' = FALSE
    /\ ourRoutes' = {}
    /\ FreshSession
    /\ pc' = "none"
    /\ index' = 1
    /\ added' = <<>>
    /\ result' = "ok"
    /\ planned' = <<>>
    /\ UNCHANGED <<entries, full, ipv6, seen>>

-----------------------------------------------------------------------------

Proceeds ==
    \/ OpenTun \/ Prepare \/ BypassSetup \/ AddRoute \/ Rollback \/ RoutesApplied
    \/ BuildVpnTun \/ StartDnsServer \/ StartDevice
    \/ StopServices \/ RemoveRoutes \/ StopBypass \/ StopDevice \/ DropSession

Next == NewSession \/ Proceeds \/ Stop \/ Crash

Spec == Init /\ [][Next]_vars

-----------------------------------------------------------------------------
(* Properties *)

\* In full-tunnel mode our routes capture all traffic, so from the first to
\* the last of them the bypass is complete ("must happen BEFORE TUN routes are
\* applied", and is undone "after TUN routes are gone"), however start or stop
\* fails and whatever earlier sessions and kills have left.  A session whose
\* setup has failed is not protected, and is only warned about.
BypassOutlivesRoutes == ourRoutes # {} /\ protected => entries = EntryNames

\* A stop that reaches its end has tried to delete every entry of the bypass,
\* those among them that an earlier session or a kill has left: what remains
\* is what the system refused to delete.
StopLeavesOnlyStuck == status = "Stopped" /\ protected => entries \subseteq stuck

\* While a session runs, its AppliedRoutes are exactly our routes in the
\* kernel, each once: neither a planned duplicate nor a route of somebody else
\* is among what remove() will delete.  So stop fails only if the kernel
\* refuses to delete a route that is there.
RunningIsTracked ==
    /\ pc = "running" =>
        /\ tun /\ device /\ probe
        /\ ToSet(routes) = ourRoutes
        /\ IsInjective(routes)
    /\ result = "stop" => refused

\* What the code promises of the bypass: it is removed "after TUN routes are
\* gone" (stop), and with it "any route-table entries installed by setup"
\* (teardown), so that nothing is left once a session is gone.  It does not hold
\* of a start that fails after the routes, nor of a setup that fails half-way.
NothingLeftBehind == pc = "none" => entries = {}

=============================================================================
