------------------------------ MODULE Outbound ------------------------------
(***************************************************************************)
(* The sockets that must not end up in the tunnel they carry: the choice   *)
(* of the physical interface and the dialers of a session                  *)
(* (crates/outbound/src/interface.rs, context.rs, dialer.rs), the lookup   *)
(* of names through them (resolver.rs), and the HTTP connector with the    *)
(* dialer of the API client (connector.rs, crates/api/src/client.rs).      *)
(*                                                                         *)
(* The operating system is read several times in the course of a start,    *)
(* and changes in between: cables, the default route, the TUN device that  *)
(* was just created.  An interface is a record                             *)
(*     [name, index, up, kind, addrs, gateway],                            *)
(* where kind is "wan", "loopback" or "tun", and addrs and gateway say     *)
(* whether there is any.                                                   *)
(*                                                                         *)
(* After the choice one thing is done at a time, the bind of the WireGuard *)
(* sockets, a lookup or a dial: they share nothing that one of them        *)
(* changes.                                                                *)
(***************************************************************************)
EXTENDS Naturals, Sequences, SequencesExt

CONSTANTS
    Machines,            \* [interfaces, default, dns]: states of the system
    Tun,                 \* name of the device this session has opened
    Configs,             \* [pin: name or "", full: BOOLEAN]
    Hosts,               \* names, addresses among them
    Literals,            \* those that are addresses, which should_bind is told
    Invalid,             \* those that are no names, or make no query that encodes
    Override,            \* the name pinned by a dot client, and ...
    Pinned,              \* ... the address it is pinned to
    Addresses,           \* addresses a server may answer with
    NonRoutable,         \* loopback, link-local, multicast, ... addresses
    TUN_LOOKUP_RETRIES, BIND_MAX_RETRIES,
    MaxChanges,          \* bound: changes of the system
    MaxJobs              \* bound: lookups and dials

ASSUME OutboundAssumption ==
    /\ Literals \subseteq Hosts /\ Invalid \subseteq Hosts
    /\ {TUN_LOOKUP_RETRIES, BIND_MAX_RETRIES} \subseteq Nat \ {0}
    /\ {MaxChanges, MaxJobs} \subseteq Nat

Nics == [name : STRING \ {""}, index : Nat, up : BOOLEAN,
         kind : {"wan", "loopback", "tun"}, addrs : BOOLEAN, gateway : BOOLEAN]

ASSUME InterfacesAssumption ==
    \A machine \in Machines : machine.interfaces \in Seq(Nics)

VARIABLES
    os, changes,
    config,
    pc,           \* of OutboundContext::build and what the session does then
    listed,       \* the interfaces as they were read first
    directed,     \* interface of the dialer for bypass traffic, or NoInterface
    routed,       \* ... and of the one for the tunnel
    servers,      \* system_dns_servers, of the session and of the API client
    tries,        \* lookups of the TUN device, binds of a pair of sockets
    pool,         \* interface of the API client's dialer
    job,          \* the lookup or dial in progress
    jobs,
    socket,       \* the socket opened last: its owner, destination, interface
    seen          \* observer: states of the system during the choice

system  == <<os, changes, seen>>
session == <<pc, listed, directed, routed, tries>>
vars    == <<system, config, session, servers, pool, job, jobs, socket>>

NoInterface == [name |-> ""]
NoSocket    == [owner |-> "none"]
NoJob       == [step |-> "none"]

-----------------------------------------------------------------------------
(* The choice of the interface                                             *)

\* An interface that is down passes.
is_wan_candidate_Down(nic) ==
    nic.name # Tun /\ nic.kind = "wan" /\ nic.addrs

is_wan_candidate(nic) ==
    /\ nic.name # Tun
    /\ nic.up /\ nic.kind = "wan" /\ nic.addrs

from_interface(nic) == [name |-> nic.name, index |-> nic.index]

\* The first one of that name, or 0.
Find(interfaces, name) == SelectInSeq(interfaces, LAMBDA nic : nic.name = name)

\* Those with a gateway first, else in the order of the system.  Only the
\* first one is looked at: without an index it counts as none.
best_fallback_interface(interfaces) ==
    LET routed_at == SelectInSeq(interfaces, LAMBDA nic : is_wan_candidate(nic) /\ nic.gateway)
        any_at    == SelectInSeq(interfaces, is_wan_candidate)
        at        == IF routed_at > 0 THEN routed_at ELSE any_at
    IN  IF at = 0 \/ interfaces[at].index = 0 THEN NoInterface
        ELSE from_interface(interfaces[at])

\* OutboundInterface::lookup: by name, whatever its state.
lookup(interfaces, name) ==
    LET at == SelectInSeq(interfaces, LAMBDA nic : nic.name = name /\ nic.index > 0)
    IN  IF at = 0 THEN NoInterface ELSE from_interface(interfaces[at])

\* system_dns_servers: not the ones on this host, which may be the daemon's
\* own from a run before; 8.8.8.8 if there is no other.
system_dns_servers(configured) ==
    LET others == SelectSeq(configured, LAMBDA server : server \notin {"loopback", "unspecified"})
    IN  IF others = <<>> THEN <<"8.8.8.8">> ELSE others

\* A filter of a list is a list.
ASSUME ServersAssumption ==
    \A machine \in Machines : system_dns_servers(machine.dns) \in Seq(STRING)

-----------------------------------------------------------------------------
Init ==
    /\ os \in Machines /\ changes = 0 /\ seen = {os}
    /\ config \in Configs
    /\ pc = "resolve" /\ listed = <<>> /\ tries = 0
    /\ directed = NoInterface /\ routed = NoInterface
    /\ pool = lookup(os.interfaces, config.pin)
    /\ servers = [session |-> <<>>, api |-> system_dns_servers(os.dns)]
    /\ job = NoJob /\ jobs = 0 /\ socket = NoSocket

\* The system changes; the API client keeps what it read.
OsChanges ==
    /\ changes < MaxChanges
    /\ os' \in Machines \ {os}
    /\ changes' = changes + 1
    /\ seen' = IF pc \in {"resolve", "default"} THEN seen \cup {os'} ELSE seen
    /\ UNCHANGED <<config, session, servers, pool, job, jobs, socket>>

Chosen(nic) == directed' = nic /\ pc' = "tun"
Failed      == pc' = "failed" /\ UNCHANGED directed

\* resolve_blocking: the first read, and a pin, which has to be usable.
ReadInterfaces ==
    /\ pc = "resolve"
    /\ listed' = os.interfaces
    /\ LET at     == Find(os.interfaces, config.pin)
           nic    == os.interfaces[at]
           usable == at > 0 /\ is_wan_candidate(nic) /\ nic.index > 0
       IN \/ config.pin = "" /\ pc' = "default" /\ UNCHANGED directed
          \/ config.pin # "" /\ usable /\ Chosen(from_interface(nic))
          \/ config.pin # "" /\ ~usable /\ Failed
    /\ UNCHANGED <<system, config, routed, tries, servers, pool, job, jobs, socket>>

\* No interface is an answer, whatever the mode.
Fallback_Unbound == Chosen(best_fallback_interface(listed))

\* Without an interface the system routes: not in full-tunnel mode.
Fallback ==
    LET nic == best_fallback_interface(listed)
    IN  IF nic = NoInterface /\ config.full THEN Failed ELSE Chosen(nic)

\* The second read: the default interface as it is now, and as a fallback
\* the interfaces as they were.
ReadDefault ==
    /\ pc = "default"
    /\ LET at     == Find(os.interfaces, os.default)
           nic    == os.interfaces[at]
           usable == at > 0 /\ is_wan_candidate(nic)
       IN \/ usable /\ nic.index = 0 /\ Failed
          \/ usable /\ nic.index > 0 /\ Chosen(from_interface(nic))
          \/ ~usable /\ Fallback
    /\ listed' = <<>>
    /\ UNCHANGED <<system, config, routed, tries, servers, pool, job, jobs, socket>>

\* lookup_tun_with_retry: without the device queries are routed by the system.
LookupTun ==
    /\ pc = "tun"
    /\ tries' = tries + 1
    /\ routed' = lookup(os.interfaces, Tun)
    /\ pc' = IF routed' # NoInterface \/ tries' = TUN_LOOKUP_RETRIES THEN "dns" ELSE "tun"
    /\ seen' = {}
    /\ UNCHANGED <<os, changes, config, listed, directed, servers, pool, job, jobs, socket>>

\* The system configuration may be unreadable.
DiscoverDns ==
    /\ pc = "dns"
    /\ \/ pc' = "built" /\ servers' = [servers EXCEPT !.session = system_dns_servers(os.dns)]
       \/ pc' = "failed" /\ UNCHANGED servers
    /\ tries' = 0
    /\ UNCHANGED <<system, config, listed, directed, routed, pool, job, jobs, socket>>

-----------------------------------------------------------------------------
(* Sockets                                                                 *)

should_bind(addr) == addr \notin NonRoutable

\* The interface a socket is bound to; the bind fails when the device is gone.
Bound(nic, dst) == IF should_bind(dst) THEN nic ELSE NoInterface
CanBind(nic)    == nic # NoInterface => \E i \in DOMAIN os.interfaces :
                                           os.interfaces[i].index = nic.index

NicOf(owner) == IF owner = "api" THEN pool ELSE directed

\* new_socket2 and bind_socket_to_interface.
Open(owner, dst) ==
    /\ CanBind(Bound(NicOf(owner), dst))
    /\ socket' = [owner |-> owner, dst |-> dst, nic |-> Bound(NicOf(owner), dst)]

\* The WireGuard sockets, bound whatever they will send to: the IPv4 one on
\* the port asked for, the IPv6 one on the port it got.
BindUdp(next) ==
    /\ CanBind(directed)
    /\ socket' = [owner |-> "session", dst |-> "any", nic |-> directed]
    /\ pc' = next

Unchanged == UNCHANGED <<system, config, listed, directed, routed, servers, pool, job, jobs>>

BindV4 == pc = "built" /\ BindUdp("v4") /\ UNCHANGED tries /\ Unchanged
BindV6 == pc = "v4" /\ BindUdp("bound") /\ UNCHANGED tries /\ Unchanged

\* A port that was chosen by the system is taken by somebody for IPv6: again
\* with another one.  A port that was asked for is not given up.
BindV6InUse ==
    /\ pc = "v4" /\ CanBind(directed)
    /\ \E port \in IF tries = 0 THEN {"any", "given"} ELSE {"any"} :
          \/ port = "any" /\ tries < BIND_MAX_RETRIES /\ tries' = tries + 1 /\ pc' = "built"
          \/ (port = "given" \/ tries = BIND_MAX_RETRIES) /\ pc' = "failed" /\ UNCHANGED tries
    /\ UNCHANGED socket /\ Unchanged

\* The device is gone, the IPv4 port is in use, or there is no IPv6.
BindFails ==
    /\ pc \in {"built", "v4"}
    /\ pc' = "failed"
    /\ UNCHANGED <<tries, socket>> /\ Unchanged

-----------------------------------------------------------------------------
(* Resolver::resolve_host: the A records, then the AAAA records, of the    *)
(* first server that has some                                              *)

Idle         == job.step \in {"none", "ok", "error"}
Ready(owner) == pc \in (IF owner = "api" THEN {"bound", "failed"} ELSE {"built", "bound"})

\* An override and an address need no query; an invalid name is given up before
\* any server is asked (Name::from_ascii, build_query).
FirstStep(host, fixed) ==
    IF fixed # <<>> THEN "connect" ELSE IF host \in Invalid THEN "error" ELSE "A"

resolve_host ==
    /\ Idle /\ jobs < MaxJobs
    /\ jobs' = jobs + 1
    /\ \E owner \in {"session", "api"}, host \in Hosts :
       /\ Ready(owner)
       /\ LET fixed == IF owner = "api" /\ host = Override THEN <<Pinned>>
                       ELSE IF host \in Literals THEN <<host>> ELSE <<>>
          IN job' = [owner |-> owner, host |-> host, step |-> FirstStep(host, fixed), at |-> 1,
                     addrs |-> fixed, asked |-> {}, dialled |-> {}]
    /\ UNCHANGED <<system, config, session, servers, pool, socket>>

Kept == UNCHANGED <<system, config, session, servers, pool, jobs>>

Server == servers[job.owner][job.at]

\* After the last server: on to AAAA, and then to the connections, unless
\* there is no address.
EndOfServers(asking) ==
    IF asking.step = "A" THEN [asking EXCEPT !.step = "AAAA", !.at = 1]
    ELSE [asking EXCEPT !.step = IF asking.addrs = <<>> THEN "error" ELSE "connect", !.at = 1]

Asked == [job EXCEPT !.asked = @ \cup {<<job.step, job.at>>}]

\* The error of a server is the error of the query.
NextServer_FirstError ==
    job' = EndOfServers(Asked)

\* query_record: an error or an answer without records, the next server.
NextServer ==
    job' = IF job.at < Len(servers[job.owner]) THEN [Asked EXCEPT !.at = @ + 1]
           ELSE EndOfServers(Asked)

Querying == job.step \in {"A", "AAAA"}

\* send_query: an answer with records of the type asked for; one without, or
\* one that does not decode.
QueryAnswered ==
    /\ Querying /\ Open(job.owner, Server)
    /\ \/ \E addr \in Addresses : job' = EndOfServers([Asked EXCEPT !.addrs = Append(@, addr)])
       \/ NextServer
    /\ Kept

\* The device is gone: the socket cannot be bound.
QueryUnbound ==
    /\ Querying /\ ~CanBind(Bound(NicOf(job.owner), Server))
    /\ NextServer
    /\ UNCHANGED socket /\ Kept

\* A query that waits for its answer as long as it takes.
QueryTimesOut_Never == FALSE

QueryTimesOut ==
    /\ Querying /\ Open(job.owner, Server)
    /\ NextServer
    /\ Kept

-----------------------------------------------------------------------------
(* Connections                                                             *)

Address == job.addrs[job.at]

Dialled == [job EXCEPT !.dialled = @ \cup {Address}]

\* The connector goes through all the addresses; a session uses the first
\* one, resolve_endpoint.
NextAddress ==
    job' = IF job.owner = "api" /\ job.at < Len(job.addrs) THEN [Dialled EXCEPT !.at = @ + 1]
           ELSE [Dialled EXCEPT !.step = "error"]

\* connect_tcp.
Connected ==
    /\ job.step = "connect" /\ Open(job.owner, Address)
    /\ job' = [Dialled EXCEPT !.step = "ok"]
    /\ Kept

\* Refused, or the device is gone.
ConnectFails ==
    /\ job.step = "connect"
    /\ \/ Open(job.owner, Address)
       \/ ~CanBind(Bound(NicOf(job.owner), Address)) /\ UNCHANGED socket
    /\ NextAddress
    /\ Kept

ConnectTimesOut ==
    /\ job.step = "connect" /\ Open(job.owner, Address)
    /\ NextAddress
    /\ Kept

-----------------------------------------------------------------------------
Build == ReadInterfaces \/ ReadDefault \/ LookupTun \/ DiscoverDns
Bind  == Idle /\ (BindV4 \/ BindV6 \/ BindV6InUse \/ BindFails)
Local == QueryUnbound \/ QueryTimesOut \/ ConnectTimesOut
           \/ (job.step = "connect" /\ ~CanBind(Bound(NicOf(job.owner), Address)) /\ ConnectFails)

Next ==
    \/ Build \/ Bind \/ OsChanges \/ resolve_host
    \/ QueryAnswered \/ QueryUnbound \/ QueryTimesOut
    \/ Connected \/ ConnectFails \/ ConnectTimesOut

Spec == Init /\ [][Next]_vars

\* The daemon and its timers run; nothing is assumed of servers and peers.
FairSpec == Spec /\ WF_vars(Build) /\ WF_vars(Bind) /\ WF_vars(Local)

-----------------------------------------------------------------------------
(* Properties                                                              *)

TypeOK ==
    /\ os \in Machines /\ config \in Configs /\ changes \in 0 .. MaxChanges
    /\ pc \in {"resolve", "default", "tun", "dns", "built", "v4", "bound", "failed"}
    /\ tries \in 0 .. TUN_LOOKUP_RETRIES + BIND_MAX_RETRIES
    /\ job.step \in {"none", "A", "AAAA", "connect", "ok", "error"}
    /\ jobs \in 0 .. MaxJobs
    /\ job # NoJob => job.at \in Nat \ {0}

\* interface.rs: "`Ok(None)` means "use OS routing" which, under full-tunnel /1
\* routes, would loop back into the TUN": in full-tunnel mode no socket of the
\* directed dialer to a routable address is left to the routes or bound to the
\* device of the session, however the system changes while the interface is
\* chosen.  (The probe's sockets, of the routed dialer, are bound to the device
\* on purpose.)
NoSelfLoop ==
    socket.owner = "session" /\ config.full /\ should_bind(socket.dst)
        => socket.nic.name \notin {"", Tun}

\* The interface of a session is the one the user pinned, and it was up and
\* had an address at some moment of the choice, which takes two reads of a
\* system that changes.
ChosenWasUsable ==
    seen # {} /\ directed # NoInterface =>
        /\ config.pin \in {"", directed.name}
        /\ \E machine \in seen : \E i \in DOMAIN machine.interfaces :
              LET nic == machine.interfaces[i]
              IN  /\ nic.name = directed.name /\ nic.index = directed.index
                  /\ nic.up /\ nic.addrs

\* A valid name is given up only when every server has been asked for both kinds of
\* records, and a host of the API only when every address of it was dialled:
\* one dead server or address in front does not hide the others.
ErrorIsThorough ==
    job.step = "error" =>
        IF job.addrs = <<>>
        THEN job.host \in Invalid \/ job.asked = {"A", "AAAA"} \X DOMAIN servers[job.owner]
        ELSE job.owner = "api" => \A i \in DOMAIN job.addrs : job.addrs[i] \in job.dialled

\* Every lookup and dial comes to an end, though no server and no peer may
\* ever answer.
JobEnds == (job.step \in {"A", "AAAA", "connect"}) ~> (job.step \in {"ok", "error"})
=============================================================================
