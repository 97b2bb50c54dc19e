------------------------------ MODULE SplitDns ------------------------------
(***************************************************************************)
(* DNS inside one session: VpnTun::recv (crates/tunnel/src/dns.rs), the    *)
(* DnsResolver, the forwarder and the optional DnsServer (crates/dns/src), *)
(* the dialer's rule which sockets are bound to the physical interface     *)
(* (crates/outbound/src/dialer.rs), and the part of TunnelSession that     *)
(* builds and stops them.                                                  *)
(*                                                                         *)
(* recv reads packets from the TUN device.  A UDP packet to port 53 is     *)
(* answered by a task of its own, unless it goes to a VPN resolver.  The   *)
(* task's own queries are packets too: whether they leave through the      *)
(* physical interface or come back through the TUN device depends on how   *)
(* the socket is bound and on the routes at that moment.                   *)
(***************************************************************************)
EXTENDS DomainTables

CONSTANTS
    Tasks,           \* resolver tasks: a bound on the number of queries
    Questions,       \* what is asked: [type, name]
    Names,           \* more names, on which the split rule is checked
    VpnSpecs,        \* vpn_dns of the server: [host, port]
    HostAddrs,       \* the addresses of the hosts that are names
    SystemServers,   \* what capture_system_dns found
    FullNets,        \* addresses the routes of full mode cover
    SplitNets,       \* ... of split mode
    Unbindable,      \* addresses for which should_bind is false
    Interfaces,      \* whether a physical interface was found: a set of Booleans
    Malformed,       \* a payload that is not a DNS message
    NoParent

Addrs(specs) == UNION {HostAddrs[spec.host] \X {spec.port} : spec \in specs}
SystemEndpoints == SystemServers \X {53}
Endpoints == Addrs(VpnSpecs) \cup SystemEndpoints
Named     == {spec \in VpnSpecs : HostAddrs[spec.host] # {spec.host}}
Loops     == {"v4", "v6"}

ASSUME DnsAssumption ==
    /\ \A x \in Questions : x.type \in {"A", "AAAA", "other"}
    /\ Malformed \notin Questions
    /\ NoParent \notin Tasks \X Endpoints
    /\ Interfaces \subseteq BOOLEAN

VARIABLES
    answers,     \* config.dynamic: what this session's tables answer to a question
    split,       \* config.split_matchers: the questions they match
    full,        \* config.full_tunnel
    iface,       \* OutboundContext::interface is Some
    tunNets,     \* addresses whose route is the TUN device, while routes are up
    session,     \* where start_inner and stop are
    servers,     \* vpn_servers
    loop,        \* the serve_loop of each socket of the DnsServer
    cancelled,   \* its shutdown token
    st,          \* state of each task
    kind,        \* who spawned it: "tun" (recv) or "server" (serve_loop)
    question,    \* what it was asked
    parent,      \* the query of another task whose packet it answers
    route,       \* routed, directed or none
    result,      \* what it answers
    query        \* its query to each server

sessionVars == <<answers, split, full, iface, tunNets, session, servers, loop, cancelled>>
taskVars    == <<st, kind, question, parent, route, result, query>>
vars        == <<sessionVars, taskVars>>

SessionStates == {"routes_applied", "tun_built", "running", "stop_server",
                  "routes_removed", "stopped"}
TaskStates    == {"idle", "resolving", "waiting", "replying", "done"}
QueryStates   == {"none", "spawned", "in_tun", "wireguard", "outside", "hijacked",
                  "ok", "failed"}
Results       == {"none", "local", "upstream", "servfail", "echo"}

TypeOK ==
    /\ answers \in [Questions -> SUBSET SUBSET (V4Values \cup V6Values)]
    /\ split \subseteq Questions
    /\ {full, iface, cancelled} \subseteq BOOLEAN
    /\ tunNets \subseteq FullNets \cup SplitNets \cup SystemServers
    /\ session \in SessionStates
    /\ servers \subseteq Endpoints
    /\ loop \in [Loops -> {"off", "serving", "ended"}]
    /\ st \in [Tasks -> TaskStates]
    /\ kind \in [Tasks -> {"none", "tun", "server"}]
    /\ question \in [Tasks -> Questions \cup {Malformed}]
    /\ parent \in [Tasks -> (Tasks \X Endpoints) \cup {NoParent}]
    /\ route \in [Tasks -> {"none", "routed", "directed"}]
    /\ result \in [Tasks -> Results]
    /\ query \in [Tasks -> [Endpoints -> QueryStates]]

\* DnsConfig is built, and start_inner has applied the routes: those of the
\* mode and, in split mode and if configured, a host route for each system
\* server.  In full mode OutboundInterface::resolve fails without a physical
\* interface.
Init ==
    /\ \E tables \in Tables :
        answers = [x \in Questions |-> synthesize(tables, x.type, x.name)]
    /\ split = {x \in Questions : matches_split(x.name)}
    /\ full \in BOOLEAN
    /\ iface \in Interfaces
    /\ full => iface
    /\ IF full
       THEN tunNets = FullNets
       ELSE tunNets \in {SplitNets, SplitNets \cup SystemServers}
    /\ session = "routes_applied"
    /\ servers = {}
    /\ loop = [l \in Loops |-> "off"]
    /\ cancelled = FALSE
    /\ st = [t \in Tasks |-> "idle"]
    /\ kind = [t \in Tasks |-> "none"]
    /\ question = [t \in Tasks |-> Malformed]
    /\ parent = [t \in Tasks |-> NoParent]
    /\ route = [t \in Tasks |-> "none"]
    /\ result = [t \in Tasks |-> "none"]
    /\ query = [t \in Tasks |-> [e \in Endpoints |-> "none"]]

RoutesUp == session \notin {"routes_removed", "stopped"}
Reading  == session \in {"running", "stop_server", "routes_removed"}
Live(t)  == st[t] \in {"resolving", "waiting", "replying"}

\* The file descriptor: a clone is in every task that recv has spawned.
TunOpen == session # "stopped" \/ \E t \in Tasks : kind[t] = "tun" /\ Live(t)

-----------------------------------------------------------------------------
(* Building and stopping *)

\* resolve_vpn_servers.  An address is its own lookup.  A name is looked up by
\* the operating system, which reaches no server whose route is the TUN device,
\* for nobody reads that yet.
ResolveVpnServers ==
    /\ session = "routes_applied"
    /\ \E found \in SUBSET Named :
        /\ found # {} => ~(SystemServers \subseteq tunNets)
        /\ servers' = Addrs((VpnSpecs \ Named) \cup found)
    /\ session' = "tun_built"
    /\ UNCHANGED <<answers, split, full, iface, tunNets, loop, cancelled, taskVars>>

\* DnsServer::start, if a port is configured and there is a resolver; then the
\* device starts to read.
StartServer ==
    /\ session = "tun_built"
    /\ \/ UNCHANGED loop
       \/ /\ VpnSpecs # {}
          /\ loop' = [l \in Loops |-> "serving"]
    /\ session' = "running"
    /\ UNCHANGED <<answers, split, full, iface, tunNets, servers, cancelled, taskVars>>

\* TunnelSession::stop calls DnsServer::shutdown.
Stop ==
    /\ session = "running"
    /\ session' = "stop_server"
    /\ cancelled' = TRUE
    /\ UNCHANGED <<answers, split, full, iface, tunNets, servers, loop, taskVars>>

\* Mutant: the loop looks at the token only while no query is being answered.
LoopEnds_WaitsForTasks(l) ==
    /\ loop[l] = "serving"
    /\ cancelled
    /\ \A t \in Tasks : st[t] = "idle"
    /\ loop' = [loop EXCEPT ![l] = "ended"]
    /\ UNCHANGED <<answers, split, full, iface, tunNets, session, servers, cancelled, taskVars>>

LoopEnds(l) ==
    /\ loop[l] = "serving"
    /\ cancelled
    /\ loop' = [loop EXCEPT ![l] = "ended"]
    /\ UNCHANGED <<answers, split, full, iface, tunNets, session, servers, cancelled, taskVars>>

\* shutdown has awaited both loops, not the tasks they spawned.
RemoveRoutes ==
    /\ session = "stop_server"
    /\ \A l \in Loops : loop[l] # "serving"
    /\ session' = "routes_removed"
    /\ UNCHANGED <<answers, split, full, iface, tunNets, servers, loop, cancelled, taskVars>>

StopDevice ==
    /\ session = "routes_removed"
    /\ session' = "stopped"
    /\ UNCHANGED <<answers, split, full, iface, tunNets, servers, loop, cancelled, taskVars>>

-----------------------------------------------------------------------------
(* Packets *)

Spawn(t, k, x, p) ==
    /\ st[t] = "idle"
    /\ st' = [st EXCEPT ![t] = "resolving"]
    /\ kind' = [kind EXCEPT ![t] = k]
    /\ question' = [question EXCEPT ![t] = x]
    /\ parent' = [parent EXCEPT ![t] = p]

\* Mutant: no packet is exempt.
Hijacked_Always(ip, port) == port = 53 /\ VpnSpecs # {}

\* There is a resolver, the packet goes to port 53, and not to a VPN resolver.
Hijacked(ip, port) ==
    /\ VpnSpecs # {}
    /\ port = 53
    /\ \A e \in servers : e[1] # ip

\* recv reads a packet of an application.
ClientQuery(t, x) ==
    /\ Reading
    /\ \E ip \in tunNets : Hijacked(ip, 53)
    /\ Spawn(t, "tun", x, NoParent)
    /\ UNCHANGED <<sessionVars, route, result, query>>

\* serve_loop receives a query; select! may prefer it to the cancellation.
ServeQuery(l, t, x) ==
    /\ loop[l] = "serving"
    /\ Spawn(t, "server", x, NoParent)
    /\ UNCHANGED <<sessionVars, route, result, query>>

\* recv reads a packet that a task of ours has sent.
RecvOwn(t, e) ==
    /\ Reading
    /\ query[t][e] = "in_tun"
    /\ IF Hijacked(e[1], e[2])
       THEN /\ query' = [query EXCEPT ![t][e] = "hijacked"]
            /\ \E c \in Tasks : Spawn(c, "tun", question[t], <<t, e>>)
       ELSE /\ query' = [query EXCEPT ![t][e] = "wireguard"]
            /\ UNCHANGED <<st, kind, question, parent>>
    /\ UNCHANGED <<sessionVars, route, result>>

-----------------------------------------------------------------------------
(* DnsResolver::resolve *)

Local(x) == IF x = Malformed THEN {} ELSE answers[x]

route_through_vpn(x) == full \/ x \in split

Upstreams(x) == IF route_through_vpn(x) THEN servers ELSE SystemEndpoints

\* synthesize_failure echoes what it cannot parse.
Failure(x) == IF x = Malformed THEN "echo" ELSE "servfail"

\* The local answer, or a query to every server of the chosen side.
Resolve(t) ==
    LET x == question[t] IN
    /\ st[t] = "resolving"
    /\ \/ /\ Local(x) # {}
          /\ st' = [st EXCEPT ![t] = "replying"]
          /\ result' = [result EXCEPT ![t] = "local"]
          /\ UNCHANGED <<route, query>>
       \/ /\ Local(x) = {}
          /\ route' = [route EXCEPT ![t] = IF route_through_vpn(x) THEN "routed" ELSE "directed"]
          /\ IF Upstreams(x) = {}
             THEN /\ st' = [st EXCEPT ![t] = "replying"]
                  /\ result' = [result EXCEPT ![t] = Failure(x)]
                  /\ UNCHANGED query
             ELSE /\ st' = [st EXCEPT ![t] = "waiting"]
                  /\ query' = [query EXCEPT ![t] =
                        [e \in Endpoints |-> IF e \in Upstreams(x) THEN "spawned" ELSE "none"]]
                  /\ UNCHANGED result
    /\ UNCHANGED <<sessionVars, kind, question, parent>>

\* bind_udp_to of the directed dialer; the routed path takes a plain socket.
Bound(t, ip) == route[t] = "directed" /\ iface /\ ip \notin Unbindable

\* query_single: bind and send, or an error.
Send(t, e) ==
    /\ query[t][e] = "spawned"
    /\ \/ query' = [query EXCEPT ![t][e] =
            IF ~Bound(t, e[1]) /\ RoutesUp /\ e[1] \in tunNets THEN "in_tun" ELSE "outside"]
       \/ query' = [query EXCEPT ![t][e] = "failed"]
    /\ UNCHANGED <<sessionVars, st, kind, question, parent, route, result>>

\* A server's answer, which needs the device if the query went through it.
Receive(t, e) ==
    /\ query[t][e] \in {"wireguard", "outside"}
    /\ query[t][e] = "wireguard" => session # "stopped"
    /\ query' = [query EXCEPT ![t][e] = "ok"]
    /\ UNCHANGED <<sessionVars, st, kind, question, parent, route, result>>

\* Mutant: no timeout on a query that WireGuard has swallowed.
Timeout_OnlyOutside(t, e) ==
    /\ query[t][e] = "outside"
    /\ query' = [query EXCEPT ![t][e] = "failed"]
    /\ UNCHANGED <<sessionVars, st, kind, question, parent, route, result>>

\* DNS_TIMEOUT has passed, or recv_from failed.
Timeout(t, e) ==
    /\ query[t][e] \in {"in_tun", "wireguard", "outside", "hijacked"}
    /\ query' = [query EXCEPT ![t][e] = "failed"]
    /\ UNCHANGED <<sessionVars, st, kind, question, parent, route, result>>

\* Mutant: the first result decides, also if it is an error.
Collect_FirstResult(t) ==
    /\ st[t] = "waiting"
    /\ \E e \in Endpoints :
        /\ query[t][e] \in {"ok", "failed"}
        /\ result' = [result EXCEPT ![t] =
                        IF query[t][e] = "ok" THEN "upstream" ELSE Failure(question[t])]
    /\ st' = [st EXCEPT ![t] = "replying"]
    /\ UNCHANGED <<sessionVars, kind, question, parent, route, query>>

\* The first answer wins; errors count only when there is nothing else left.
Collect(t) ==
    /\ st[t] = "waiting"
    /\ \/ /\ \E e \in Endpoints : query[t][e] = "ok"
          /\ result' = [result EXCEPT ![t] = "upstream"]
       \/ /\ \A e \in Endpoints : query[t][e] \in {"none", "failed"}
          /\ result' = [result EXCEPT ![t] = Failure(question[t])]
    /\ st' = [st EXCEPT ![t] = "replying"]
    /\ UNCHANGED <<sessionVars, kind, question, parent, route, query>>

\* The answer goes to where the packet came from: if that is a query of ours
\* that still waits, it takes it for the server's answer.
Reply(t) ==
    /\ st[t] = "replying"
    /\ st' = [st EXCEPT ![t] = "done"]
    /\ query' = IF parent[t] # NoParent /\ query[parent[t][1]][parent[t][2]] = "hijacked"
                THEN [query EXCEPT ![parent[t][1]][parent[t][2]] = "ok"]
                ELSE query
    /\ UNCHANGED <<sessionVars, kind, question, parent, route, result>>

-----------------------------------------------------------------------------
TaskStep(t) ==
    \/ Resolve(t)
    \/ Collect(t)
    \/ Reply(t)
    \/ \E e \in Endpoints : Send(t, e) \/ Timeout(t, e)

SessionStep ==
    \/ ResolveVpnServers
    \/ StartServer
    \/ RemoveRoutes
    \/ StopDevice
    \/ \E l \in Loops : LoopEnds(l)

Next ==
    \/ SessionStep
    \/ Stop
    \/ \E t \in Tasks :
        \/ TaskStep(t)
        \/ \E x \in Questions \cup {Malformed} :
            ClientQuery(t, x) \/ \E l \in Loops : ServeQuery(l, t, x)
        \/ \E e \in Endpoints : RecvOwn(t, e) \/ Receive(t, e)

Spec == Init /\ [][Next]_vars

\* The runtime polls every task and timers fire; start and stop go on.  A task
\* has finitely many steps, so none of them can keep another from happening.
FairSpec == Spec /\ WF_vars(SessionStep) /\ \A t \in Tasks : WF_vars(TaskStep(t))

-----------------------------------------------------------------------------
(* Properties *)

\* The queries the dialer cannot keep out of the TUN device: those of the
\* directed transport for which bind_udp_to binds no interface, as the server is
\* link-local or there is none.
Unkept(t, e) == route[t] = "directed" /\ (~iface \/ e[1] \in Unbindable)

\* A task that answers a packet of our own answers one of those: the exemption
\* of vpn_dns_ips covers all that the routed transport sends, whichever of the
\* names were found and whatever the port, and binding covers the rest.
OnlyUnkeptComeBack ==
    \A t \in Tasks : parent[t] # NoParent => Unkept(parent[t][1], parent[t][2])

\* No task answers a packet that the resolver itself has sent: the traffic of
\* the DNS transports bypasses the TUN ("loop prevention").
OwnTrafficNotHijacked == \A t \in Tasks : parent[t] = NoParent

\* A query for the VPN resolvers goes through the TUN ("routed path - regular
\* sockets, OS routes through TUN"), never out of the physical interface.
RoutedGoesThroughTun ==
    \A t \in Tasks, e \in Endpoints : route[t] = "routed" => query[t][e] # "outside"

\* The reference for the split rule.  What a name says, without outer dots and
\* the labels "*" in front: from the first label that is neither empty nor a
\* star to the last piece that is no dot.
Core(name) ==
    LET starts == {k \in DOMAIN name :
                    /\ k = 1 \/ name[k - 1] = "."
                    /\ name[k] # "."
                    /\ ~(name[k] = "*" /\ (k = Len(name) \/ name[k + 1] = "."))}
    IN  IF starts = {} THEN <<>>
        ELSE SubSeq(name, Min(starts), Max({k \in DOMAIN name : name[k] # "."}))

\* The text falls into stretches, one for each piece of the pattern.
Reads(pattern, text) ==
    \E end \in [0 .. Len(pattern) -> 0 .. Len(text)] :
        /\ end[0] = 0
        /\ end[Len(pattern)] = Len(text)
        /\ \A i \in 1 .. Len(pattern) :
            IF pattern[i] = "*" THEN end[i] >= end[i - 1]
            ELSE end[i] = end[i - 1] + 1 /\ pattern[i] \in {"?", text[end[i]]}

\* The server has listed a name: it, or its end from some label on, is an entry
\* of the list that has a dot.
IsListed(text) ==
    \E d \in SplitList : LET name == Core(text) IN
        /\ Contains(Core(d), ".")
        /\ \E front \in 0 .. Len(name) :
            /\ front = 0 \/ name[front] = "."
            /\ Reads(Core(d), SubSeq(name, front + 1, Len(name)))

Listed    == {x \in Questions : IsListed(x.name)}
Misjudged == {n \in Names : matches_split(n) # IsListed(n)}

\* A name goes to the VPN resolver exactly if the tunnel is full or the server
\* has listed it or a domain above it; every other name stays with the system's
\* resolvers (route_through_vpn behind the synthesis).  The matchers judge more
\* Names than are asked for in the same way.
SplitDecision ==
    /\ Misjudged = {}
    /\ \A t \in Tasks :
        /\ route[t] = "routed" => full \/ question[t] \in Listed
        /\ route[t] = "directed" => ~full /\ question[t] \notin Listed

\* A client is told SERVFAIL only after every server has failed it, also when
\* the errors come before the one good answer (parallel_query_*).
ServfailMeansAllFailed ==
    \A t \in Tasks : result[t] \in {"servfail", "echo"} =>
        \A e \in Endpoints : query[t][e] \in {"none", "failed"}

\* Every query that was taken is answered, whatever the servers do and also
\* when the session stops meanwhile ("Always returns a DNS wire response").
EveryQueryAnswered == \A t \in Tasks : (st[t] = "resolving") ~> (st[t] = "done")

\* After stop the TUN device is released: the tasks of recv hold it until they
\* are done, the loops of the DNS server let stop pass.
StopReleasesDevice == (session = "stop_server") ~> ~TunOpen

=============================================================================
