# rustylink in TLA+

rustylink is a VPN client: a privileged daemon (`crates/daemon`) that signs in to a
tenant's server, negotiates a WireGuard tunnel, keeps it up, and is driven by a web UI over
gRPC-web. This directory holds TLA+ modules translated from
its source, the TLC configurations that check them on small instances, and proofs that
TLAPS checks for every instance.

    tlc -workers 2 -config TunnelDaemon_concurrent.cfg MCTunnelDaemon
    tlapm TunnelDaemonProofs.tla

`PROJECT.json` lists the runs, the source lines behind every definition, the mutants
that show each property can fail, the hazards, the findings and the theorems.

## The system and its parts

| part | source | state | operations |
|---|---|---|---|
| VPN state machine | `core/src/state/vpn.rs`, `daemon/src/state.rs` | one enum: Disconnected, Connecting, Configuring, Connected, Reconnecting, Failed, Disconnecting; the cancel token | consuming transitions, `can_connect`, conversion to the RPC message |
| reconnect policy | `tunnel/src/reconnect.rs` | the attempt count | `record`, `reset`, exponential delay |
| tunnel control | `daemon/src/daemon.rs`, `service/vpn.rs`, `service/meta.rs`, `main.rs` | `DaemonInner` behind one mutex: the machine, the handle of the connect loop, the configuration, the interface in use; a watch channel | connect, disconnect, reconnect on a change of the interface, the connect loop, auto-resume, shutdown |
| supervisor, liveness probe | `daemon/src/supervisor.rs`, `tunnel/src/dns.rs` | three intervals, the network baseline, the time of the last probe reply | a `select!` over the token, the device, liveness, network and report ticks |
| tunnel session | `tunnel/src/session.rs`, `route.rs`, `outbound/src/bypass*` | TUN device, applied routes, bypass rules, DNS server, probe | `start`, `stop`, `route::apply` with rollback, bypass setup and teardown |
| authentication | `daemon/src/state.rs`, `service/auth.rs`, `core/src/auth.rs` | session state, tenant, pending flows, TOTP secret | activation, logins, MFA, OAuth and device logins, logout |
| cookie jar | `api/src/client.rs` | cookies shared by all clients | merge, clear, change listener |
| persistence | `daemon/src/persist.rs` | `credentials.json`, `config.json` | load, save by temporary file and rename, delete |
| dot selection | `core/src/vpn.rs`, `daemon/src/latency.rs`, `daemon.rs` | latencies, the one-time code, the candidates | fetch settings and list, filter, probe, rank, ask one dot after the other for a configuration |
| split DNS | `crates/dns`, `tunnel/src/dns.rs` | domain sets, forwarder, sockets | match a name, synthesize or forward, intercept in the TUN |
| transports | `tunnel/src/transport.rs`, `outbound.rs` | a writer behind a mutex, a reader task per connection, a bounded channel; a pair of UDP sockets | dial, frame, read, receive; bind |
| outbound | `crates/outbound` | the interface of each dialer, the servers of the resolver | choose an interface, look up a name, dial, bind, snapshot the network |
| API, signing, messages | `crates/api`, `crates/proto` | hooks of a client, the shared jar | decorate, sign and send a request, judge the answer; data types |
| UI | `ui` | what the daemon streams | RPC calls |

How they interact. RPC handlers run concurrently and share `DaemonInner` behind a tokio
mutex that most of them release at an await. `connect_tunnel` spawns a connect loop,
which calls the tenant through the API client (whose responses change the cookie jar,
whose listener spawns saves), starts a session, hands it to the supervisor, stops it and
decides whether to try again. `disconnect_tunnel`, a change of the interface and the
final teardown take the loop's handle out of `DaemonInner`, cancel its token and await
it. Every change of the machine is sent on a watch channel that `WatchTunnel` streams;
the final teardown comes after a graceful shutdown that waits for these streams.

What is hard here: handles and tokens that are read under the mutex and used after it;
two handlers, or two connect loops, in an order nobody wrote a test for; a handler that
is dropped when its client goes away; cleanup after a start that failed half-way, with
an operating system that removes some things by itself and others not; ticks that are
late because a call is awaited; saves that overtake each other or a logout; a kill
between any two steps of a save; several senders on one stream that can break within a
frame; probes and lookups that end in any order or never; an operating system that is read
twice and changes in between.

## Modules

| module | models | state and actions |
|---|---|---|
| `VpnState` | the pure VPN state and its projection to `pb::Tunnel` | operators; a state is a record |
| `ReconnectPolicy` | `ReconnectController` | `record`, `delay_for_attempt` |
| `TunnelDaemon` | handlers, connect loops, `WatchTunnel` streams and shutdown | one action per critical section and per stretch between two awaits with visible effects; a loop, its token and its task share a number |
| `TunnelSession` | one session after another, with the kernel's routes, rules and TUN device | one action per step of `start_inner` and `stop`, and per route and rule |
| `Supervisor` | `supervisor::run` and the liveness probe in discrete time | branches of the `select!`, rounds of the probe, the clock |
| `AtomicFile` | what `atomic_write` promises | abstract specification |
| `CredentialFile` | `atomic_write`, `save`, `load`, `delete` on names and inodes | open, write, chmod, rename, fail, crash |
| `Auth` | sessions, flows, the jar and who saves when | one action per handler or per part of it between releases of the mutex |
| `DomainTables` | `DnsConfig` and the local answers of `synthesis.rs` | pure operators; a name is a text in pieces |
| `SplitDns` | `VpnTun::recv`, `DnsResolver`, the forwarder, `DnsServer`, and when the dialer binds | one record of state per query being answered and per server it was forwarded to; start and stop of the session around them |
| `ApiClient` | one call of the HTTP client: jar, headers, signature, verdict on the answer | pure operators |
| `Negotiation` | `connect_once` up to the session: settings, list, ranking, requests to the dots | one action per request and per answer, with the other handlers that change the jar and the account meanwhile |
| `DatagramChannel` | what a transport promises WireGuard | abstract specification |
| `FeilianTcp` | the TCP transport | steps of `send_to` per sender, of the reader task per connection, `recv_from`, stop; server and network are external |
| `Outbound` | choice of the interface, dialers, resolver, connector, the bound UDP pair | one action per read of the system, per query and per connection attempt; the system changes in between |
| `MC*` | constants for TLC | |
| `TunnelDaemonProofs`, `TunnelSessionProofs`, `SupervisorProofs`, `CredentialFileProofs`, `AuthProofs`, `SplitDnsProofs`, `NegotiationProofs`, `OutboundProofs` | theorems about the module of that name | lemmas on the operators, one step per action |

`TunnelDaemon` extends `ReconnectPolicy`, which extends `VpnState`. In it a session is a
phase of the loop; `TunnelSession` and `Supervisor` look inside that phase, and
`SplitDns`, which extends `DomainTables`, at the queries during it. `Auth`
replaces the file in one step; `CredentialFile` shows when that is justified.
`Negotiation`, which extends `ApiClient`, is what `TunnelDaemon` takes for one step,
`LoopNegotiate`; `Outbound` chooses the interface and opens the sockets that `SplitDns`
and `FeilianTcp` send through. `FeilianTcp` instantiates `DatagramChannel` once for each
direction, as `CredentialFile` does `AtomicFile`.

Abstractions worth knowing:

- `TunnelDaemon`: negotiation and session start succeed or fail; the trigger that ends a
  session is one of two, the server's kick-out, after which the loop stops, or a failed
  transport; the other two are recorded and retried like the latter. Delays are not timed: `SleepElapsed` may come at any time.
  A dropped handler (the client went away) is `ClientGone`, at its await points.
- `TunnelSession`: the Linux and macOS bypass are a sequence of entries; a failure to
  create the route manager is not told apart from a failure to add or delete a route.
  Our routes vanish with the TUN device (kernel behaviour); bypass entries stay. Every
  deletion may be refused; `teardown` goes on after one, `stop` does not.
- `Supervisor`: one clock step is a second; ready branches are handled within it;
  `ReportInterval` is 15 instead of 60 (only its coincidence with the other ticks
  matters, and 15 is a multiple of both as 60 is). A look at the network fails in two ways:
  a lookup that fails is the default snapshot, a task that fails is an error.
- `Auth`: a tenant names its server, and the jar is a version number and the server that
  set it last. Challenge texts, cookies and credentials have no content. A handler whose
  client goes away is dropped at its next await (`ClientGone`, or no effect of the write it
  was in); a call under the mutex that is dropped or fails leaves its cookies (`CallTenant`).
- `DomainTables`: a name is a sequence of pieces of text: dots, stars, question marks and
  the stretches between them, so `mycorp.io` ends with the text `corp.io` without being
  below it. `WildMatch` is external and matches pieces. Names are in lower case and without
  quotes, and the split list has no addresses. The order in which a HashMap is iterated is
  a choice.
- `SplitDns`: whether an address is routed into the TUN device is a set (`tunNets`), so
  IPv6 and the lengths of prefixes are left out. What an application sends is a question
  from a small set or no DNS message at all. `TunnelSession` lets go of the TUN device
  at stop; `SplitDns` looks closer and keeps it open while a task of `recv` holds it.
- `ApiClient`: a cookie is a number, a digest is the input and the key it is made from. An
  answer is one of seven kinds, from none at all to a success with data.
- `Negotiation`: round-trip times are small numbers; a host is `v4`, `v4api` or a name,
  enough to tell which client and certificate name it gets. URLs and bodies are records.
- `FeilianTcp`: a frame is two pieces, its length and its payload, as it is two writes.
  A write may fail once and for no lasting reason, so that the same connection would take
  the next one. Partial writes of a piece are not told apart from none, and a read is of a whole piece:
  `read_exact` hides the rest. An error of a read and one of the format both stop the
  reader.
- `Outbound`: an interface has the attributes the choice looks at. A lookup is A then
  AAAA over the servers; one job is in progress at a time, since jobs share nothing that
  they change. A name that does not parse, or for which no query can be built, is an error
  at once. The probe's sockets, which are bound to the TUN device on purpose
  (`session.rs:316`), are not opened here.

## Runs

| run | what it shows |
|---|---|
| `daemon_concurrent` | Two clients that may go away at any await, two loops, one retry. A handler waits only for a task whose token was cancelled; Connecting, Configuring and Reconnecting have a live loop that will leave them; a Connected machine describes a session that is up. |
| `daemon_serial` | One client that stays, one connect, a reconnect because of the interface, and a UI that opens and closes a stream: one live loop at a time, Disconnected means down, nothing left at exit, the session uses the configured interface, the shown request is the one worked on, Disconnecting has its handler; a stream that stays open comes to show the state of the machine; after a signal, with no stream open, the process exits; cancelled loops end and Disconnecting does not last. |
| `daemon_two_loops` (violation) | With a second connect the first of the serial properties fails: a loop between two attempts shows Failed, from which a connect is admitted. |
| `session` | Every failure of start and stop, and kills. From the first to the last of our full-tunnel routes the bypass is complete, if its setup succeeded; a stop that reaches its end leaves of it only what the system refused to delete. What stop will remove is what was added, so stop of a running session fails only if a deletion is refused. |
| `supervisor` | The code's limits (3, 5, 15, 30 s), two DNS servers of which the first is dead, reports of up to 2 s, failing lookups and snapshots. A live tunnel is never given up for silence; a dead one is within limit + poll + report, one that never answered within the connect limit, and a cancel waits for one report at most (`DeadlinesKept`); a lost network ends the session within a poll and a report of the last failed look; NetworkChanged is said only of a change or after a failed look. |
| `file_serial` | One writer, deletes, failures and crashes at every step: the file always loads, and the steps implement `AtomicFile`. |
| `file_torn` (violation) | Two writers share `credentials.tmp`, and the file may not parse. |
| `auth` | Two clients that may go away, failing calls and writes, and a restart at any moment. A file deleted by a logout with no save past its check stays gone; what the jar absorbed in a session is on disk when the tasks are at rest, unless the last save failed, was dropped or shared the file. |
| `dns` | Both tunnel modes, with and without an interface, two system resolvers of which one is link-local, routed into the tunnel or not, a VPN resolver that is an address and one that is a name; servers that answer, fail or stay silent; stop at any time. What comes back to `recv` is a directed query that could not be bound; SERVFAIL comes after every server failed; thirteen names at and beside the dots of the listed domains, with stars inside, go to the side of the reference rule; every query that was taken is answered (the echo of a malformed payload counts as its answer), and stop releases the device. |
| `feilian_tcp` | Two senders, two destinations, connections that are refused, hang, are reset, refuse one write, are closed within a frame or replaced, frames of a forbidden length, a send buffer of one piece. In both directions the transport implements `DatagramChannel`: whole packets, at most once, only what was sent, at the address it was sent to. Every `send_to` returns; after stop every reader ends. |
| `negotiate` | Lists with broken, unsuitable, dedicated and operator-routed dots, probes that answer in any order or never, answers of every kind or none, one step of another handler (an answer with cookies, a logout, an activation). Dots are tried fastest first, each as often as it may be before the next; the token set by the list is on every request for a configuration unless a logout cleared it; the negotiation ends, or hangs in one request that nobody answers. |
| `outbound` | Six states of the machine (home, wire pulled, another VPN as default, no interface with an index, nothing), two changes at any time, with and without a pin, both tunnel modes. In full-tunnel mode no socket of the directed dialer to a routable address is unbound or bound to the TUN device; the chosen interface is the pinned one and was usable at some moment of the choice; a valid name or a host is given up only after all servers, both record types and all addresses; every job ends. |

Bounds. Two callers give every pairwise race of handlers; two loops the overlap of an
old and a new one; one retry gives
both the retrying and the exhausted loop (more reconnects and retries are covered by the
proofs).
`RoomForLoop` keeps a request from starting that could not spawn its loop, so no bound
blocks a handler half-way. Sessions follow one another without bound in `session`; the
route lists contain a duplicate and a route of somebody else. Ages in `Supervisor` stop
counting past every limit. Two versions of the jar and one restart let a session be
saved, changed, left, and restored; no tenant of `auth` has a TOTP secret, which no guard
and neither property reads. In `dns` two
tasks are enough for one query to come back as another, or for one from the device and
one from the server to overlap stop; each asks both resolvers. One listed name and a
malformed payload are enough for both routes and every kind of answer; the split rule is
pure, and is checked on the set `Names` as well. In `feilian_tcp` three
packets let one connection be replaced or redialled while another is in use, and
replies fill the channel of capacity one; `Peers` fixes the destinations of the n-th
packet: the second may need another connection, and the third is a reply.
In `negotiate` two attempts with each of two dots out of three give every combination of
retry, fallback and a dot that is never reached; two round-trip times give ties. In
`outbound` two changes are enough for each of the two reads, and for the bind, to see
another system. The runs `dns`, `feilian_tcp`, `negotiate` and `outbound` stop when their
tasks, packets or jobs are used up or done, hence no check for deadlock. Symmetry is over
callers, which nothing distinguishes, and only in runs without liveness. The longest runs,
`auth`, `dns` and `feilian_tcp`, take about three minutes with two workers.

What the bounds leave out. `DisconnectedMeansDown`, `NoLeakAtExit` and
`SessionFollowsConfig` are checked with one client and one loop at a time; with two clients
or two loops they do not hold (see the findings and the observations). A report is
bounded by `MaxReport`, a call by nothing in the code. `supervisor` has two DNS servers; the
empty list is in the proof of `DeadlinesKept`. `ChosenWasUsable` speaks of some moment of
the choice, so a fallback that is stale by the time it is used is allowed.

Fairness, in `daemon_serial`, `dns`, `feilian_tcp`, `negotiate` and `outbound`.
Tokio polls every task that can run, so loops, handlers and streams have weak fairness; the network
calls of a loop are assumed to return, which the code does not guarantee: its client has no
timeout. `select!` starts at a random branch, so a token
that stays cancelled is noticed in the end even if another branch is ready again and
again: strong fairness of the cancel branches. Nothing is assumed of `SuperviseTrigger` (a
session may live for ever), of clients, of the end of a stream, of `Stop`, of answers from
DNS servers, or of
crashes; that timers fire is part of the fairness of a task. `FeilianTcp` gives a waiter
of the mutex strong fairness (tokio's mutex is a queue), assumes nothing of a dial but its
timeout and nothing of a write that fails once, and of the network that buffered bytes are
read or the connection breaks (a peer that acknowledges and never reads would block the
writes, which have no timeout), and that the server closes a connection whose other end is
closed (nothing else ends a reader). `Negotiation` assumes of requests nothing at all; a
probe has a timeout. `Outbound` has its timers and nothing else.

Observers record what happened and restrict no step: `protected`, `refused` and `stuck`
(`TunnelSession`: this session's bypass was set up; a route deletion was refused; entries
whose deletion was refused), `blind`, `changed` and `lostFor` (`Supervisor`), `loggedOut`, `gone`,
`heard` and `lost` (`Auth`: nobody logged in since; a file was deleted since with no save
past its check; the jar changed in this session; the last save failed, was dropped or was
not alone), `tokenSet` (`Negotiation`) and `seen` (`Outbound`).

## Proofs

Every invariant that a passing run checks, `SplitDecision` aside, is also a theorem for all
values of the constants. Each
proof module extends the module it is about and names its inductive invariant (`IInv`,
`SerialInv`, ...) as a conjunction of parts; TLC checked these parts before they were
proved. The assumptions are the named ASSUMEs of the modules, which TLC evaluates on the
run of the module; what a theorem supposes beyond them is a hypothesis of its statement,
and every hypothesis holds of the constants of the run that checks the same property.

`TunnelDaemonProofs`, for any set of clients, any number of loops and attempts, from
`MaxU32Assumption`, `PolicyAssumption` and `DaemonAssumption`. With any clients, which may
or may not go away:

- `TypeCorrect`: `Spec => []TypeOK`. Lemmas type the pure state first (transitions,
  saturating counters, the message), then each action.
- `WaitsAreCancelled`: a handler waits only for a cancelled task. Not inductive alone: a
  disconnect cancels the machine's token and waits for the task it took, so the two must
  belong together (`HandleMatchesToken`), and `reconnect_if_outbound_changed` holds both
  across a release of the mutex (`SavedTokenMatches`). The three are `WaitInv`.
- `NoStrandedState`: a state shown as in progress has a driver. Inductive with the types:
  a loop leaves `Live` only by writing the machine, except from `check`, which it
  reaches only by writing Failed; this is why the property excludes `check`.
- `ConnectedIsBacked`, inductive with the types.

With one client that stays (`OneClient`) and is patient: it does not connect in the moment
between `mark_failed` and what the loop makes of the failure (`Patient`, an action
property; `daemon_two_loops` is what happens without it):

- `OneLoopAtATime`, `DisconnectedIsDown`, `ExitIsClean`, `ConfigTakesEffect`,
  `RequestIsKept`: the five properties of `daemon_serial`, for any number of connects,
  disconnects, changes of the interface and retries. They share one invariant, `SerialInv`:
  one handler is at work at a time (`OneBusy`); a live loop is the newest, the machine has
  its token, and its task is in `tunnel_task` or with the handler that took it from there
  (`OneLoop`); a machine at rest has none (`RestIsDown`); the machine shows the loop's
  request (`Shown`); the session's interface is the recorded one, and the configured one
  unless a cancel is under way (`Follows`).
- `OneConnectIsPatient`: a client that connects at most once is patient, so the run is an
  instance of the five.

`TunnelSessionProofs`, for any routes, any bypass entries, routes of others, sessions
without end, from `SessionAssumption` and `NoRoutesAssumption`:

- `TypeCorrect`, `BypassAroundRoutes`, `StopCleansUp` and `StopDeletesOurRoutes`, with every
  operation free to fail. `IInv` says
  how far start and stop have come (`Progress`), that our routes in the kernel are exactly
  the list of `apply`, then of the session, without duplicates (`RoutesTracked`), that
  a handle means all entries are in and a protected session keeps it while there may be
  routes (`BypassComplete`), and that a teardown has dealt with the entries up to its index
  (`TornDown`).

`SupervisorProofs`, for any intervals, limits, networks and number of DNS servers, from
`SupervisorAssumption`:

- `TypeCorrect` and `NoFalseChange`: the baseline is the network's unless that changed or
  a look failed (`Watched`).
- `LossEndsSession`, if reports are short and sent when the network is looked at
  (`LooksAreRegular`; in the code 60 is a multiple of 5). `LossInv` bounds the time since the
  loss by the second of the network poll, then by the report that is awaited.
- `CancelWaitsOnce`, if a report is answered before the next one is due
  (`ReportsAreShort`): then a report that begins finds no cancellation waiting
  (`Reported`, `Prompt`), so there is never a second one to wait for.
- `SessionEndsInTime`, if also the report interval is a multiple of the liveness poll and
  the liveness limit exceeds the connect limit by a report (`LimitsAreOrdered`; in the code
  60 is a multiple of 3, and 30 exceeds 15 by 15 s). `Late` bounds an age by the second of the poll
  it is in: what is left of the poll, then the report that is awaited. `Silent` bounds the
  time since the tunnel died by the age of the last reply. The ages therefore never reach
  the bound where they stop counting (`AgesCount`).
- `AliveTunnelIsKept`, if one server answers and the time-outs of those before it fit into
  the limits (`LimitsLeaveRoom`; with the code's values, up to five dead servers). The
  argument is a potential: `Remaining`, the seconds until a server answers, shrinks by one
  each second and is not raised by a time-out, so age plus `Remaining` stays within the limit.

`CredentialFileProofs`, for one writer and any data and sizes, from `FileAssumption`:

- `SerialSavesAreLoadable`: the file parses after a crash at any step. `SerialInv` adds
  that the target is complete and is not the temporary inode, and where each stage of a
  save has got to.
- `SerialSavesAreAtomic`: `CredentialFile` implements `AtomicFile`, with the version
  visible at the rename.

`AuthProofs`, for any callers, listener tasks, tenants, versions of the jar and restarts,
from `AuthAssumption`: `TypeCorrect`, `LogoutIsForGood`, `SessionIsOnDisk`. The invariant
follows the writers of the file: when it is gone for good nobody is past the check of a
save (`Forgotten`); what the jar absorbed in a session is on disk, in the snapshot of the
only writer, or about to be looked at by a task of the listener, which no client can drop
(`OnDisk`). Handlers may be dropped anywhere, since `OnDisk` does not rely on them.

`SplitDnsProofs`, for any tables, names, servers, routes and number of queries, from
`TableAssumption` and `DnsAssumption`, on any network:

- `TypeCorrect`: the local answers are sets of addresses whatever the
  tables hold (`SynthesizeType`).
- `ForwardingLoopsOnlyUnbound`: what `recv` takes for a packet of an application and is not is a
  directed query that could not be bound. What waits in the TUN device is routed or of that
  kind (`InTun`); a routed query goes to a VPN resolver (`Sides`), which `recv` exempts, since
  the list of resolvers no longer changes once tasks exist (`Fresh`, `ServerStartsLast`).
- `ServfailIsLastResort`: a failed query stays failed and a task that has its
  result sends nothing more. It needs that a task that has not resolved has neither a result
  nor a query, and that one that waits has no result yet (`Unresolved`).

`NegotiationProofs`, for any lists of dots, round-trip times, limits and steps of other
handlers, from `NegotiationAssumption` and `SuitableAssumption`: `TypeCorrect`,
`FasterDotsFirst`, `TokenIsSent`. `Candidates` says the order holds each dot once and as
many as may be tried, `Ranked` that a dot faster than one in the order is before it,
`Turns` how often each was asked, `Token` that a set token is in the jar.

`OutboundProofs`, for any systems, changes, hosts and servers, from `OutboundAssumption`,
`InterfacesAssumption` and `ServersAssumption`: `TypeCorrect`, `SessionStaysOutside`,
`ChoiceIsUsable`, `NothingIsSkipped`. `Remembered` says that what was read is a state the
system was in, `Separate` that full-tunnel mode has an interface other than the TUN device
after the choice, `Walked` how far a lookup or dial has come and what it has asked.

`SuitableAssumption` and `ServersAssumption` say that filtering a list (`SelectSeq`) gives a list
of its elements: true of every list, but by an induction the provers here cannot do.

Only model-checked: the liveness properties (fairness and ENABLED are outside what the
provers handle here); `SplitDecision`, which is an induction over the pieces of a name; and that
`FeilianTcp` implements `DatagramChannel` in both directions: the invariant over the pieces
in every stream and the frames in every sender's hands that it takes is not written.

## Findings

Two runs end with a violation of what the repository says of its code; `PROJECT.json`
quotes the lines.

| run | where | what the code does |
|---|---|---|
| `daemon_two_loops` | `daemon.rs:431` | a connect is admitted while a loop is about to retry |
| `file_torn` | `persist.rs:337` | all saves share one temporary file |

Ten more configurations are kept to show a counterexample on demand, each for one property
that states a claim of a doc or comment and that the code breaks. They are not among the
runs, whose properties say what does hold in these places.

| configuration, module | property | the claim, and what the code does |
|---|---|---|
| `TunnelDaemon_shutdown.cfg`, `MCTunnelDaemon` | `SignalTearsDown` | "Graceful tunnel teardown: cancel the supervise task, await it, and clean up OS state" (`main.rs:242`): the teardown comes after a graceful shutdown that waits for open requests (`main.rs:237`), and a `WatchTunnel` stream ends only with its client (`service/vpn.rs:195`) |
| `TunnelSession_late_failure.cfg`, `MCTunnelSession` | `NothingLeftBehind` | "Remove route bypass [...] after TUN routes are gone." (`session.rs:474`): a start that fails after the routes drops the device and with it the routes; `stop` fails to delete the first of them and returns before the bypass (`session.rs:472`) |
| `TunnelSession_half_setup.cfg`, `MCTunnelSession` | `NothingLeftBehind` | "Remove any route-table entries installed by [`setup`]." (`bypass.rs:58`): `setup` returns the error of the second rule without a handle (`bypass/linux.rs:105`), and nobody removes the first |
| `Supervisor_lookup.cfg`, `Supervisor` | `ChangeIsReal` | "A change in the fingerprint [...] fires `NetworkChanged`." (`snapshot.rs:4`): a lookup that fails is a snapshot without an interface (`snapshot.rs:59`) and compared like any other |
| `Auth_overtaken.cfg`, `MCAuth` | `LogoutDeletesFile` | "Deleted on logout or session expiry." (`persist.rs:261`): `persist_credentials` releases the mutex between snapshot and save (`daemon.rs:164`), so a save writes after the delete of a logout |
| `Auth_crash.cfg`, `MCAuth` | `LoggedOutStaysOut` | the same claim: the session is left first and the file deleted after it (`service/auth.rs:451`); a daemon that dies in between restores the session |
| `Auth_dropped.cfg`, `MCAuth` | `SecretIsOnDisk` | "Contains all session data required to resume an authenticated session: [...] TOTP config" (`persist.rs:257`): the save after `set_totp` (`service/auth.rs:494`) is the handler's, which is dropped with its client |
| `Auth_resume.cfg`, `MCAuth` | `ResumesWhatWasActive` | "re-establish the tunnel if it was active" (`daemon.rs:241`): a disconnect does not save, so the request of a tunnel that was disconnected is still in the file (`daemon.rs:257`) |
| `SplitDns_loop.cfg`, `MCSplitDns` | `OwnTrafficNotHijacked` | "VPN DNS IPs for loop prevention." (`dns/src/resolver.rs:61`): a socket to a link-local system resolver is not bound (`dialer.rs:222`), `route_system_dns_into_tunnel` routes it into the device (`session.rs:304`), and the forwarded query is intercepted again |
| `SplitDns_leak.cfg`, `MCSplitDns` | `RoutedGoesThroughTun` | "routed path — regular sockets, OS routes through TUN" (`dns/src/forwarder.rs:73`): a response task outlives stop and may send when the routes are gone |

## Observations outside the runs

Scenarios the modules have as behaviours; none has a configuration of its own.

- With two clients, a second disconnect finds no handle to wait for and says Disconnected
  while the session of the first is still up (`daemon.rs:334`); `DisconnectedMeansDown`
  is checked for one client.
- With two live loops the final teardown awaits one of them and the process exits under
  the session of the other (`main.rs:247`).
- `Configuring` has no attempts, so Reconnecting always shows 1, whatever the controller
  has counted (`core/src/state/vpn.rs:140`).
- After a loop has given up the machine is Failed and still has a request: a change of
  the interface starts a tunnel although none is active (`daemon.rs:383`).
- The client of a disconnect goes away while the loop is on its way to a failure: nobody
  leaves Disconnecting (`daemon.rs:337`). `TransientStateHasDriver` claims that part for
  clients that stay.
- A report that never returns keeps the supervisor from noticing a cancel: the client
  has no request timeout (`supervisor.rs:172`). `DeadlinesKept` is relative to
  `MaxReport`.
- A network that changes between the start of the session and the baseline snapshot is
  never noticed (`supervisor.rs:94`).
- Cookies of a device login arrive before the state is Authenticated, so the task they spawn
  saves nothing; if the handler is dropped before it saves, the session it completed is not
  on disk (`service/auth.rs:428`). `heard` is why `DiskIsCurrent` does not speak of it.
- The TOTP secret fetched after a login is stored although a logout came in between
  (`service/auth.rs:492`).
- A failed OAuth callback has consumed the pending flow; the state stays AwaitingOauth
  (`daemon/src/state.rs:232`).
- Activation for another tenant keeps the cookies and the API version of the one before
  (`daemon/src/state.rs:110`, `:123`).
- In split mode with the system resolvers routed into the tunnel, a VPN resolver given
  as a host name is looked up when nobody reads the device yet: it is dropped, and
  without another one every VPN name is answered SERVFAIL (`session.rs:318`).
- A payload that is no DNS message is sent back as it came, although resolve "Always
  returns a DNS wire response" (`synthesis.rs:90`, `resolver.rs:68`).
- A managed name whose values do not parse is asked upstream for A, while AAAA is
  answered empty; the tables' doc says such a name is "answered locally"
  (`synthesis.rs:44`, `config.rs:31`).
- The wildcard and suffix tables are lists in the order of a HashMap and the first match
  wins, so overlapping patterns may be answered differently from one session to the next
  (`config.rs:140`).
- One code is computed per negotiation and used for every request of it, up to
  `MAX_DOT_ATTEMPTS * MAX_CONFIG_ATTEMPTS_PER_DOT`; one entered by the user is also sent
  with every later retry of the loop (`daemon.rs:472`).
- A dot without a valid endpoint, or a success without data, ends the negotiation although
  other candidates are left (`core/src/vpn.rs:228`).
- The client for the tenant and the hooks of the dot clients are two snapshots: an
  activation in between mixes two tenants, and clients that exist keep the knock token of
  a session that was left.
- The probe goes to `from_dot(dot, false)`, the request for a configuration of a dot whose
  operator routes by IP to another host, although "it measures the same path the dot config
  call will take" (`latency.rs:5`). A dot given by an IPv6 literal gets a plain client.
- A dot of an unknown protocol is advertised as UDP (`protocol_modes_from_dot`) while
  `effective_transport` uses what was requested (`daemon.rs:967`, `:981`).
- Signing is never turned on by the daemon: activation disables it (`daemon/src/state.rs:105`)
  and `extract_signing_config_update` has no caller (`core/src/vpn.rs:118`); only a
  restored file can enable it.
- A cookie that the server expires is not removed, and the last writer wins.
- The API client is unbound without a pin, or when the pinned interface is missing, though
  its doc says it is "immune to TUN routing state" (`api/src/client.rs:485`).
- A report whose answer has a code other than 0 is an error before its force-logout is
  looked at (`api/src/client.rs:541`), and does not end the session.
- The fallback looks at its first candidate only; if that one has no index there is none
  (`outbound/src/interface.rs:167`). `list_network_interfaces` shows the system's default as
  auto-selected, which is not always the one that would be chosen (`service/meta.rs:143`).
- A reader that stops, for a bad frame or at the end of its stream, leaves the writer of the
  same connection in place until a write fails (`transport.rs:227`).

## Not modelled

- The API messages (`api/src/models`): serde types. Of the API client, URLs, encodings and
  the text of cookies; of signing, the canonical string and the HMAC.
- RPCs that only read (status, traffic, interfaces, latency of one dot for display), the
  error texts, the access token and the static handler of the UI, and the UI itself.
- WireGuard (gotatun) is a library. That it may drop a `send_to` future between the two
  writes of a frame is left out: it depends on how the library cancels its tasks.
- Socket options and the parsing of route lists and packets.

## Plan

In this order; done so far are 1 to 8 and 10.

1. `VpnState`, `ReconnectPolicy`, `TunnelDaemon`: the connection as the user sees it.
   Proofs of types, waits, drivers.
2. `TunnelSession`: what is left behind in the operating system.
3. `Supervisor`: time limits against each other.
4. `AtomicFile`, `CredentialFile`: the file, with refinement and its proof.
5. `Auth`: sessions, flows and saves.
6. `DomainTables`, `SplitDns`: the split rule against a reference definition; the
   forwarder and server; `VpnTun::recv` with the response tasks it spawns. Proofs that
   forwarding does not feed on itself.
7. `ApiClient`, `Negotiation`: from the request to a tunnel configuration.
8. `FeilianTcp` with `DatagramChannel`, `Outbound`: the packets and sockets below.
9. An abstract tunnel (down, coming up, up, going down) that `TunnelDaemon` with one
   client implements.
10. Proofs of the invariants of all runs: done, see above.
11. Proofs that are left: the abstract tunnel of 9; `SplitDecision`, with the
    reference rule stated on the places of the labels; the two directions of `FeilianTcp`.
