----------------------------- MODULE Supervisor -----------------------------
(***************************************************************************)
(* The supervisor of crates/daemon/src/supervisor.rs over one session, in  *)
(* discrete time (one step of the clock is a second), together with the    *)
(* LivenessProbe of crates/tunnel/src/dns.rs that it reads.                *)
(*                                                                         *)
(* A branch of the select! is handled before the clock moves on; while the *)
(* report branch awaits the server, no other branch is polled.  A tokio    *)
(* interval keeps its phase: ticks missed meanwhile are due at once.       *)
(***************************************************************************)
EXTENDS Integers

CONSTANTS
    LivenessPoll, NetworkPoll, ReportInterval,   \* the three intervals
    ConnectTimeout, LivenessTimeout,             \* limits of liveness_status
    ProbeInterval, DnsTimeout,                   \* LivenessProbe
    Servers,         \* VPN DNS servers probed, one after the other
    DeadServers,     \* how many of the first ones never answer
    MaxReport,       \* bound: seconds a report call takes
    Networks,        \* fingerprints of the default interface
    Default,         \* NetworkSnapshot::default()
    TunnelCanDie,    \* the peer may stop answering
    LookupMayFail,   \* the system may fail to name an interface that is there
    CaptureMayFail   \* NetworkSnapshot::capture may return an error

ASSUME SupervisorAssumption ==
    /\ {LivenessPoll, NetworkPoll, ReportInterval, ProbeInterval, DnsTimeout}
          \subseteq Nat \ {0}
    /\ {ConnectTimeout, LivenessTimeout, Servers, DeadServers, MaxReport} \subseteq Nat
    /\ Default \in Networks
    /\ {TunnelCanDie, LookupMayFail, CaptureMayFail} \subseteq BOOLEAN

VARIABLES
    alive,      \* the tunnel carries packets
    deviceUp,   \* the WireGuard device runs
    network,    \* the default interface now
    pinned,     \* outbound is Some: watch the presence of an interface
    present,    \* ... which is there
    server,     \* server the probe waits for, 0 between two rounds
    waited,     \* for how long
    roundDue,   \* the probe's interval has ticked
    probeClock, \* seconds to its next tick
    lastRx,     \* age of the last reply, None before the first
    phase,      \* connecting, run, report or done
    clock,      \* seconds since the intervals were started
    sessionAge, \* started.elapsed()
    due,        \* intervals that have ticked
    baseline,   \* last_net
    cancelled,  \* the token
    outcome,    \* SupervisorOutcome
    deadFor, cancelledFor, reportFor,   \* observers, in seconds
    lostFor,    \* observer: seconds since the network is another than the one that
                \* is watched, or since a look at it failed after that
    changed,    \* observer: the network or the pinned interface is another
    blind       \* observer: a look at the network failed and was acted on

environment == <<alive, deviceUp, network, pinned, present>>
probe       == <<server, waited, roundDue, probeClock, lastRx>>
loop        == <<phase, clock, sessionAge, due, baseline, cancelled, outcome>>
observers   == <<deadFor, changed, cancelledFor, reportFor, lostFor, blind>>
vars        == <<environment, probe, loop, observers>>

None == -1
Running == [event |-> "none", was_healthy |-> FALSE]
Intervals == {"liveness", "network", "report"}

Cap(n, bound) == IF n < bound THEN n ELSE bound
Older(age, bound) == IF age = None THEN None ELSE Cap(age + 1, bound)

\* Where the ages and the observers stop counting: past every limit.
AgeBound == ConnectTimeout + LivenessTimeout + LivenessPoll + NetworkPoll + MaxReport + 1

TypeOK ==
    /\ {alive, deviceUp, pinned, present, roundDue, cancelled, changed, blind} \subseteq BOOLEAN
    /\ network \in Networks /\ baseline \in Networks
    /\ server \in 0 .. Servers
    /\ waited \in 0 .. DnsTimeout
    /\ probeClock \in 1 .. ProbeInterval
    /\ lastRx \in {None} \cup 0 .. AgeBound
    /\ phase \in {"connecting", "run", "report", "done"}
    /\ clock \in 0 .. ReportInterval - 1
    /\ sessionAge \in 0 .. AgeBound
    /\ due \subseteq Intervals
    /\ {deadFor, cancelledFor, reportFor, lostFor} \subseteq 0 .. AgeBound

\* The session has just started, its probe with it; mark_connected and the
\* first report follow before supervisor::run.
Init ==
    /\ alive = TRUE
    /\ deviceUp = TRUE
    /\ network \in Networks \ {Default}
    /\ pinned \in BOOLEAN
    /\ present = TRUE
    /\ server = 0
    /\ waited = 0
    /\ roundDue = TRUE
    /\ probeClock = ProbeInterval
    /\ lastRx = None
    /\ phase = "connecting"
    /\ clock = 0
    /\ sessionAge = 0
    /\ due = {}
    /\ baseline = Default
    /\ cancelled = FALSE
    /\ outcome = Running
    /\ deadFor = 0 /\ cancelledFor = 0 /\ reportFor = 0 /\ lostFor = 0
    /\ changed = FALSE
    /\ blind = FALSE

-----------------------------------------------------------------------------
(* run_probe *)

\* The interval ticks: ask the first server.
ProbeRound ==
    /\ roundDue
    /\ server = 0
    /\ roundDue' = FALSE
    /\ server' = IF Servers > 0 THEN 1 ELSE 0
    /\ waited' = 0
    /\ UNCHANGED <<environment, probeClock, lastRx, loop, observers>>

\* A server that answers does so within the second, if the tunnel is alive;
\* the round ends with the first reply.
ProbeReply ==
    /\ server > DeadServers
    /\ alive
    /\ lastRx' = 0
    /\ server' = 0
    /\ waited' = 0
    /\ UNCHANGED <<environment, roundDue, probeClock, loop, observers>>

\* DNS_TIMEOUT: try the next server, if there is one.
ProbeTimeout ==
    /\ server > 0
    /\ waited = DnsTimeout
    /\ server' = IF server < Servers THEN server + 1 ELSE 0
    /\ waited' = 0
    /\ UNCHANGED <<environment, roundDue, probeClock, lastRx, loop, observers>>

-----------------------------------------------------------------------------
(* supervisor::run *)

\* NetworkSnapshot::capture_blocking: an interface that the system fails to
\* name is none.
capture_blocking == {network} \cup (IF LookupMayFail THEN {Default} ELSE {})

\* Mutant: no snapshot is taken, the default is the baseline.
RunBegins_NoBaseline ==
    /\ phase = "connecting"
    /\ phase' = "run"
    /\ clock' = 0
    /\ sessionAge' = 0
    /\ due' = {"liveness", "network"}
    /\ baseline' = Default
    /\ reportFor' = 0
    /\ UNCHANGED <<environment, probe, cancelled, outcome, deadFor, changed, cancelledFor,
                   lostFor, blind>>

\* The intervals are created (the first tick of two of them is immediate) and
\* the baseline snapshot is taken; an error makes it the default.
RunBegins ==
    /\ phase = "connecting"
    /\ phase' = "run"
    /\ clock' = 0
    /\ sessionAge' = 0
    /\ due' = {"liveness", "network"}
    /\ baseline' \in capture_blocking \cup (IF CaptureMayFail THEN {Default} ELSE {})
    /\ blind' = (baseline' # network)
    /\ reportFor' = 0
    /\ UNCHANGED <<environment, probe, cancelled, outcome, deadFor, changed, cancelledFor,
                   lostFor>>

WasHealthy == lastRx # None

Ends(event, was_healthy) ==
    /\ phase' = "done"
    /\ outcome' = [event |-> event, was_healthy |-> was_healthy]
    /\ due' = {}
    /\ UNCHANGED <<environment, probe, clock, sessionAge, baseline, cancelled, deadFor,
                   changed, cancelledFor, reportFor, lostFor>>

Returns(event, was_healthy) == Ends(event, was_healthy) /\ UNCHANGED blind

\* The first branch of the select! is ready.
CancelReady == phase = "run" /\ cancelled

Cancelled ==
    /\ CancelReady
    /\ Returns("Cancelled", FALSE)

\* session.wait() resolves.
TransportFailed ==
    /\ phase = "run"
    /\ ~deviceUp
    /\ Returns("TransportFailed", WasHealthy)

\* Mutant: the limit for the first reply is applied to every session.
liveness_status_NoProbe(probe_age, session_age) ==
    IF session_age > ConnectTimeout THEN "ConnectTimeout"
    ELSE IF probe_age # None /\ probe_age > LivenessTimeout THEN "Stalled"
    ELSE "Healthy"

\* Mutant: silence after a first reply is never a stall.
liveness_status_NoStall(probe_age, session_age) ==
    IF probe_age = None /\ session_age > ConnectTimeout THEN "ConnectTimeout"
    ELSE "Healthy"

liveness_status(probe_age, session_age) ==
    IF probe_age = None /\ session_age > ConnectTimeout THEN "ConnectTimeout"
    ELSE IF probe_age # None /\ probe_age > LivenessTimeout THEN "Stalled"
    ELSE "Healthy"

Passes(interval) ==
    /\ due' = due \ {interval}
    /\ UNCHANGED <<environment, probe, clock, sessionAge, baseline, cancelled,
                   outcome, deadFor, changed, cancelledFor, reportFor, blind>>

Handled(interval) == Passes(interval) /\ UNCHANGED lostFor

LivenessTick ==
    /\ phase = "run"
    /\ "liveness" \in due
    /\ IF liveness_status(lastRx, sessionAge) # "Healthy"
       THEN Returns("HandshakeTimeout", WasHealthy)
       ELSE Handled("liveness") /\ UNCHANGED phase

\* The pinned interface is gone, or the default one is not the baseline.
Lost == IF pinned THEN ~present ELSE network # baseline

\* The interface that is watched is not there, or not the same any more: the
\* session is given up, rightly or because the look has failed.
GivesUp(failed) ==
    /\ Ends("NetworkChanged", WasHealthy)
    /\ blind' = (blind \/ failed)

\* A look that says nothing of the network.
Skips ==
    /\ Passes("network")
    /\ lostFor' = 0
    /\ UNCHANGED phase

\* A failed look for the pinned interface counts as gone.
PinnedLook ==
    /\ pinned
    /\ \/ ~present /\ GivesUp(FALSE)
       \/ present /\ (LookupMayFail \/ CaptureMayFail) /\ GivesUp(TRUE)
       \/ present /\ Handled("network") /\ UNCHANGED phase

\* Mutant: a snapshot that names no interface is skipped like an error.
DefaultLook_SkipsEmpty ==
    /\ ~pinned
    /\ \/ /\ network \notin {baseline, Default}
          /\ GivesUp(FALSE)
       \/ /\ network \in {baseline, Default}
          /\ Handled("network") /\ UNCHANGED phase
       \/ /\ LookupMayFail \/ CaptureMayFail
          /\ Skips

\* A snapshot is compared whether or not it names an interface; only an error
\* is skipped.
DefaultLook ==
    /\ ~pinned
    /\ \/ \E now \in capture_blocking :
             \/ now # baseline /\ GivesUp(now # network)
             \/ now = baseline /\ now = network /\ Handled("network") /\ UNCHANGED phase
             \/ now = baseline /\ now # network /\ Skips
       \/ CaptureMayFail /\ Skips

NetworkTick ==
    /\ phase = "run"
    /\ "network" \in due
    /\ PinnedLook \/ DefaultLook

\* The branch awaits the call.
ReportTick ==
    /\ phase = "run"
    /\ "report" \in due
    /\ phase' = "report"
    /\ Handled("report")

\* The answer: nothing, or force-logout.
ReportAnswer ==
    /\ phase = "report"
    /\ \/ /\ phase' = "run"
          /\ reportFor' = 0
          /\ UNCHANGED <<environment, probe, clock, sessionAge, due, baseline,
                         cancelled, outcome, deadFor, changed, cancelledFor, lostFor, blind>>
       \/ Returns("ServerKickOut", WasHealthy)

-----------------------------------------------------------------------------
(* The environment *)

TunnelDies ==
    /\ TunnelCanDie /\ alive /\ phase # "done"
    /\ alive' = FALSE
    /\ UNCHANGED <<deviceUp, network, pinned, present, probe, loop, observers>>

DeviceStops ==
    /\ TunnelCanDie /\ deviceUp /\ phase # "done"
    /\ deviceUp' = FALSE
    /\ UNCHANGED <<alive, network, pinned, present, probe, loop, observers>>

\* Another default interface; it stays.
NetworkChanges ==
    /\ ~changed /\ ~pinned /\ phase # "done"
    /\ network' \in Networks \ {network}
    /\ changed' = TRUE
    /\ lostFor' = 0
    /\ UNCHANGED <<alive, deviceUp, pinned, present, probe, loop, deadFor,
                   cancelledFor, reportFor, blind>>

InterfaceLost ==
    /\ present /\ pinned /\ phase # "done"
    /\ present' = FALSE
    /\ changed' = TRUE
    /\ lostFor' = 0
    /\ UNCHANGED <<alive, deviceUp, network, pinned, probe, loop, deadFor,
                   cancelledFor, reportFor, blind>>

CancelToken ==
    /\ ~cancelled /\ phase # "done"
    /\ cancelled' = TRUE
    /\ UNCHANGED <<environment, probe, phase, clock, sessionAge, due, baseline,
                   outcome, observers>>

\* Something is ready and is taken before a second passes.
Urgent ==
    \/ CancelReady
    \/ phase = "run" /\ (~deviceUp \/ due # {})
    \/ roundDue /\ server = 0
    \/ server > DeadServers /\ alive
    \/ server > 0 /\ waited = DnsTimeout

Ticked(n) ==
    (IF n % LivenessPoll = 0 THEN {"liveness"} ELSE {})
        \cup (IF n % NetworkPoll = 0 THEN {"network"} ELSE {})
        \cup (IF n % ReportInterval = 0 THEN {"report"} ELSE {})

Counting(n, on) == IF on THEN Cap(n + 1, AgeBound) ELSE n

\* A second passes.  A call to the server lasts at most MaxReport of them.
Tick ==
    LET n == clock + 1 IN
    /\ phase # "done"
    /\ ~Urgent
    /\ phase \in {"connecting", "report"} => reportFor < MaxReport
    /\ waited' = IF server > 0 THEN waited + 1 ELSE 0
    /\ probeClock' = IF probeClock = 1 THEN ProbeInterval ELSE probeClock - 1
    /\ roundDue' = (roundDue \/ probeClock = 1)
    /\ lastRx' = Older(lastRx, AgeBound)
    /\ clock' = IF phase = "connecting" THEN 0 ELSE n % ReportInterval
    /\ sessionAge' = IF phase = "connecting" THEN 0 ELSE Cap(sessionAge + 1, AgeBound)
    /\ due' = IF phase = "connecting" THEN {} ELSE due \cup Ticked(n)
    /\ deadFor' = Counting(deadFor, ~alive)
    /\ cancelledFor' = Counting(cancelledFor, cancelled)
    /\ reportFor' = Counting(reportFor, phase \in {"connecting", "report"})
    /\ lostFor' = Counting(lostFor, phase # "connecting" /\ Lost)
    /\ UNCHANGED <<environment, server, phase, baseline, cancelled, outcome, changed,
                   blind>>

\* The session is over.
Over == phase = "done" /\ UNCHANGED vars

-----------------------------------------------------------------------------

Loop == RunBegins \/ Cancelled \/ TransportFailed \/ LivenessTick \/ NetworkTick \/ ReportTick
Probe == ProbeRound \/ ProbeReply \/ ProbeTimeout
Environment == TunnelDies \/ DeviceStops \/ NetworkChanges \/ InterfaceLost \/ CancelToken

Next == Loop \/ ReportAnswer \/ Probe \/ Environment \/ Tick \/ Over

Spec == Init /\ [][Next]_vars

-----------------------------------------------------------------------------
(* Properties *)

\* A tunnel whose probe is answered is never torn down for lack of answers:
\* the limits leave room for the servers that time out first.
AliveIsNotTimedOut == outcome.event = "HandshakeTimeout" => ~alive

\* A session that no server ever answered is given up after the connect limit,
\* and no later than a poll and a report after it.
UnansweredGivenUp ==
    /\ phase # "done" /\ lastRx = None
          => sessionAge <= ConnectTimeout + LivenessPoll + MaxReport
    /\ outcome.event = "HandshakeTimeout" /\ ~outcome.was_healthy
          => sessionAge > ConnectTimeout

\* A dead tunnel is noticed: at most the limit, one poll and one report later.
DeathNoticed ==
    phase # "done" => deadFor <= LivenessTimeout + LivenessPoll + MaxReport

\* Cancellation waits for the report in progress at most.
CancelIsPrompt == phase # "done" => cancelledFor <= MaxReport

\* A session ends in time: when nothing was ever answered, when the tunnel is
\* dead and when it is cancelled, whatever the phase of the polls, of the
\* probe and of a report that is awaited.
DeadlinesKept == UnansweredGivenUp /\ DeathNoticed /\ CancelIsPrompt

\* A network that is another than the baseline, or a pinned interface that is
\* gone, ends the session: at most a poll and a report after it, or after the
\* last look that failed.
LossNoticed == phase # "done" => lostFor <= NetworkPoll + MaxReport

\* NetworkChanged, which costs the session, has a cause: the network did change
\* since the session started, or a look at it failed.
ChangeHasCause == outcome.event = "NetworkChanged" => changed \/ blind

\* What the documentation of the snapshot says: NetworkChanged is fired by "a
\* change in the fingerprint (interface name, index, gateway, or addresses)".
\* It does not hold: a lookup that fails once is such a change.
ChangeIsReal == outcome.event = "NetworkChanged" => changed

=============================================================================
